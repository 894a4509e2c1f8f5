---------------------------- MODULE OAuthProofs -----------------------------
(***************************************************************************)
(* Proofs about OAuth, for all sets of tasks and all bounds: a login takes *)
(* its callback server down; a stored refresh token that is spent has been *)
(* lost in one of the ways the model names, or is about to be replaced by  *)
(* a task that holds the one that came for it; and no device flow polls    *)
(* sooner than its server asked.                                           *)
(***************************************************************************)
EXTENDS MCOAuth, TLAPS

\* A server's task belongs to a login that is under way.
ServerInv == listener # "off" => job = "anthropic" /\ phase \notin {"entry", "done"}

\* It holds at first,
LEMMA ServerInvInit == Init => ServerInv
BY DEF Init, AnthropicInit, ServerInv

\* and every step keeps it.
LEMMA ServerInvNext == ServerInv /\ [Next]_vars => ServerInv'
<1> SUFFICES ASSUME ServerInv, [Next]_vars PROVE ServerInv'
  OBVIOUS
<1> USE DEF ServerInv
<1>1. CASE Browser
  BY <1>1 DEF Browser, Anthropic, ReadRequest, Serving, callVars
<1>2. CASE ServerEnds
  BY <1>2 DEF ServerEnds, Anthropic, ServerStops, ServerCancelled, Serving, callVars
<1>3. CASE AnthropicLogsIn
  <2> SUFFICES ASSUME job = "anthropic", LoginStep PROVE ServerInv'
    BY <1>3 DEF AnthropicLogsIn, Anthropic
  <2>1. CASE Begin
    BY <2>1 DEF Begin, Return, Goto, anthropicVars
  <2>2. CASE Receive
    BY <2>2 DEF Receive, Exchange, Ask, Leave, Goto, FromBrowser
  <2>3. CASE AnswerPrompt
    BY <2>3 DEF AnswerPrompt, Exchange, Leave, Goto
  <2>4. CASE ExchangeEnds
    BY <2>4 DEF ExchangeEnds, Leave
  <2>5. CASE Close
    BY <2>5 DEF Close
  <2> QED
    BY <2>1, <2>2, <2>3, <2>4, <2>5 DEF LoginStep
<1>4. CASE AnthropicUser
  <2>1. CASE Accept
    BY <2>1 DEF Accept, Serving, callVars
  <2>2. CASE TypeCode
    BY <2>2 DEF TypeCode, Exchange, Ask, Leave, Goto
  <2>3. CASE TypingFails
    BY <2>3 DEF TypingFails, Leave
  <2> QED
    BY <1>4, <2>1, <2>2, <2>3 DEF AnthropicUser, Anthropic
<1>5. CASE Device
  BY <1>5 DEF Device, anthropicVars
<1>6. CASE UserCancels
  BY <1>6 DEF UserCancels, CancelLogin, anthropicVars
<1>7. CASE Keys
  BY <1>7 DEF Keys, anthropicVars, callVars
<1>8. CASE UNCHANGED vars
  BY <1>8 DEF vars, anthropicVars, callVars
<1> QED
  BY <1>1, <1>2, <1>3, <1>4, <1>5, <1>6, <1>7, <1>8 DEF Next

\* A login returns only where it has no server or has seen it end, on every
\* path out of login_anthropic; a second login finds the port free.
THEOREM ServerGone == Spec => []ServerGoneWithLogin
<1>1. ServerInv => ServerGoneWithLogin
  BY DEF ServerInv, ServerGoneWithLogin
<1> QED
  BY <1>1, ServerInvInit, ServerInvNext, PTL DEF Spec

-----------------------------------------------------------------------------
Credentials == [token : Nat, refresh : SUBSET Nat, expires : BOOLEAN]
Points == {"idle", "renewing", "renewing again", "renewed", "minting", "minting again",
           "listing", "listing again"}
Calls == [at : Points, from : Credentials, tokens : Credentials]

KeysTyped ==
  /\ policy \in Policies
  /\ issued \in Nat
  /\ spent \in SUBSET Nat
  /\ store \in SUBSET Credentials
  /\ call \in [Tasks -> Calls]
  /\ excused \in BOOLEAN

\* Tokens that are about have been issued.
Known(c) == c.token <= issued /\ \A n \in c.refresh : n <= issued

AllKnown ==
  /\ \A n \in spent : n <= issued
  /\ \A c \in store : Known(c)
  /\ \A t \in Tasks : Known(call[t].from) /\ Known(call[t].tokens)

\* A call that is not under way holds nothing, and none is before a login.
IdleCalls ==
  /\ \A t \in Tasks : At(t, "idle") => call[t] = Idle
  /\ store = {} => spent = {} /\ \A t \in Tasks : call[t] = Idle

\* A server that does not rotate takes every refresh token again.
NothingSpent == ~policy.rotates => spent = {}

\* What t renewed is good, and no other copy of it is about.
Sole(t) ==
  LET mine == call[t].tokens.token
  IN  /\ call[t].tokens.refresh = {mine}
      /\ mine \notin spent
      /\ \A c \in store : mine \notin c.refresh
      /\ \A u \in Tasks \ {t} : mine \notin call[u].tokens.refresh

\* Where refresh tokens are rotated, a call that has renewed its tokens holds
\* the only copy of a good one.
SoleHolder == policy.rotates => \A t \in Tasks : HasRenewed(t) => Sole(t)

KeysInv == KeysTyped /\ AllKnown /\ IdleCalls /\ NothingSpent /\ SoleHolder

TokensInv == KeysInv /\ StoredTokenGood

\* A task without a call is a call that is over.
LEMMA IdleIsCall == Idle \in Calls
<1>1. 0 \in Nat /\ {} \in SUBSET Nat
  OBVIOUS
<1>2. NoTokens \in Credentials
  BY <1>1, Zenon DEF NoTokens, Credentials
<1>3. "idle" \in Points
  BY DEF Points
<1> QED
  BY <1>2, <1>3, Zenon DEF Idle, Calls

\* The invariant of the tokens holds at first.
LEMMA TokensInvInit == Init => TokensInv
<1> SUFFICES ASSUME Init PROVE TokensInv
  OBVIOUS
<1>1. KeysTyped
  BY IdleIsCall DEF KeysTyped, Init, KeysInit
<1>2. AllKnown
  BY DEF AllKnown, Known, Init, KeysInit, Idle, NoTokens
<1>3. IdleCalls /\ NothingSpent
  BY DEF IdleCalls, NothingSpent, Init, KeysInit
<1>4. SoleHolder /\ StoredTokenGood
  BY DEF SoleHolder, StoredTokenGood, HasRenewed, Init, KeysInit, Idle, NoTokens
<1> QED
  BY <1>1, <1>2, <1>3, <1>4 DEF TokensInv, KeysInv

\* Steps that leave the tokens of the calls, the store and the server's list
\* of spent tokens as they are.
LEMMA StayInv ==
  ASSUME TokensInv, UNCHANGED <<policy, issued, spent, store, call, excused>>
  PROVE  TokensInv'
BY DEF TokensInv, KeysInv, KeysTyped, AllKnown, Known, IdleCalls, At, NothingSpent,
       SoleHolder, Sole, HasRenewed, StoredTokenGood

\* A call that goes on is a call, and the other tasks stay where they are.
LEMMA MovedCall ==
  ASSUME NEW r \in Calls, NEW point \in Points
  PROVE  LET moved == [r EXCEPT !.at = point]
         IN  /\ moved \in Calls /\ moved.at = point
             /\ moved.from = r.from /\ moved.tokens = r.tokens
BY DEF Calls

\* A call that is under way moves on and keeps its tokens.
LEMMA MoveInv ==
  ASSUME TokensInv, NEW t \in Tasks, NEW point \in Points,
         ~At(t, "idle"), point # "idle", Move(t, point),
         UNCHANGED <<policy, issued, spent, store, excused>>
  PROVE  TokensInv'
<1> USE DEF TokensInv, KeysInv
<1> DEFINE next == [call[t] EXCEPT !.at = point]
<1>0. call[t] \in Calls
  BY DEF KeysTyped
<1>1. /\ call' = [call EXCEPT ![t] = next]
      /\ next \in Calls /\ next.at = point
      /\ next.from = call[t].from /\ next.tokens = call[t].tokens
  BY <1>0, MovedCall DEF Move
<1> HIDE DEF next
<1>2. KeysTyped'
  BY <1>1 DEF KeysTyped
<1>3. /\ \A u \in Tasks : /\ call'[u].from = call[u].from
                          /\ call'[u].tokens = call[u].tokens
                          /\ u # t => call'[u] = call[u]
      /\ call'[t].at = point
  BY <1>1 DEF KeysTyped
<1>4. AllKnown'
  BY <1>3 DEF AllKnown, Known
<1>5. store # {}
  BY DEF IdleCalls, At, Idle
<1>6. IdleCalls' /\ NothingSpent'
  BY <1>3, <1>5 DEF IdleCalls, NothingSpent, At
<1>7. SoleHolder'
  BY <1>3 DEF SoleHolder, Sole, HasRenewed
<1>8. StoredTokenGood'
  BY <1>3 DEF StoredTokenGood, HasRenewed
<1> QED
  BY <1>2, <1>4, <1>6, <1>7, <1>8

\* What a call that returns does to the rest: nothing it held is about.
LEMMA GiveFacts ==
  ASSUME KeysTyped, NEW t \in Tasks, NEW why \in BOOLEAN, Give(t, why)
  PROVE  /\ call' \in [Tasks -> Calls] /\ excused' \in BOOLEAN
         /\ call'[t] = Idle
         /\ \A u \in Tasks \ {t} : call'[u] = call[u]
         /\ excused \/ why => excused'
<1>1. Idle \in Calls
  BY IdleIsCall
<1>2. /\ call' \in [Tasks -> Calls]
      /\ call'[t] = Idle
      /\ \A u \in Tasks \ {t} : call'[u] = call[u]
  BY <1>1, SMT DEF KeysTyped, Give
<1>3. excused' \in BOOLEAN /\ (excused \/ why => excused')
  BY Zenon DEF Give
<1> QED
  BY <1>2, <1>3

\* A call returns an error, having lost tokens only if it says so.
LEMMA GiveInv ==
  ASSUME TokensInv, NEW t \in Tasks, NEW why \in BOOLEAN, Give(t, why),
         HasRenewed(t) /\ call[t].tokens.refresh \cap spent = {} => why,
         UNCHANGED <<policy, issued, spent, store>>
  PROVE  TokensInv'
<1> USE DEF TokensInv, KeysInv
<1>1. /\ call' \in [Tasks -> Calls] /\ excused' \in BOOLEAN
      /\ call'[t] = Idle
      /\ \A u \in Tasks \ {t} : call'[u] = call[u]
      /\ excused \/ why => excused'
  BY GiveFacts
<1>2. KeysTyped'
  BY <1>1 DEF KeysTyped
<1>3. AllKnown'
  BY <1>1 DEF AllKnown, Known, Idle, NoTokens, KeysTyped
<1>4. IdleCalls' /\ NothingSpent'
  BY <1>1 DEF IdleCalls, NothingSpent, At
<1>5. ~HasRenewed(t)' /\ Idle.tokens.refresh = {}
  BY <1>1 DEF HasRenewed, Idle, NoTokens
<1>6. SoleHolder'
  BY <1>1, <1>5 DEF SoleHolder, Sole, HasRenewed
<1>7. HasRenewed(t) => call[t].tokens.refresh \cap spent = {}
  <2>1. CASE policy.rotates
    BY <2>1 DEF SoleHolder, Sole
  <2>2. CASE ~policy.rotates
    BY <2>2 DEF NothingSpent
  <2> QED
    BY <2>1, <2>2
<1>8. StoredTokenGood'
  BY <1>1, <1>7 DEF StoredTokenGood, HasRenewed
<1> QED
  BY <1>2, <1>3, <1>4, <1>6, <1>8

-----------------------------------------------------------------------------
\* What a grant makes is a pair of credentials.
LEMMA CredentialsMade ==
  ASSUME NEW token \in Nat, NEW refresh \in SUBSET Nat, NEW expires \in BOOLEAN
  PROVE  [token |-> token, refresh |-> refresh, expires |-> expires] \in Credentials
BY Zenon DEF Credentials

\* The credentials of a login are the first.
LEMMA StoreLoginInv ==
  ASSUME TokensInv, store = {}, StoreLogin
  PROVE  TokensInv'
<1> USE DEF TokensInv, KeysInv
<1> DEFINE first == [token |-> 1, refresh |-> IF policy.refreshes THEN {1} ELSE {},
                     expires |-> policy.expires]
<1>1. first \in Credentials
  <2>1. policy.expires \in BOOLEAN
    BY DEF KeysTyped, Policies
  <2>2. (IF policy.refreshes THEN {1} ELSE {}) \in SUBSET Nat
    OBVIOUS
  <2> QED
    BY <2>1, <2>2, CredentialsMade
<1>2. first.token = 1 /\ first.refresh \subseteq {1}
  OBVIOUS
<1>3. /\ store' = {first} /\ issued' = 1
      /\ UNCHANGED <<policy, spent, call, excused>>
  BY DEF StoreLogin
<1> HIDE DEF first
<1>4. spent = {} /\ \A t \in Tasks : call[t] = Idle
  BY DEF IdleCalls
<1>5. KeysTyped'
  BY <1>1, <1>3 DEF KeysTyped
<1>6. AllKnown'
  BY <1>2, <1>3, <1>4 DEF AllKnown, Known, Idle, NoTokens
<1>7. IdleCalls' /\ NothingSpent'
  BY <1>3, <1>4 DEF IdleCalls, NothingSpent, At
<1>8. \A t \in Tasks : ~HasRenewed(t)'
  BY <1>3, <1>4 DEF HasRenewed, Idle
<1>9. SoleHolder'
  BY <1>8 DEF SoleHolder
<1>10. StoredTokenGood'
  BY <1>3, <1>4 DEF StoredTokenGood
<1> QED
  BY <1>5, <1>6, <1>7, <1>9, <1>10

\* A call that begins holds a copy of what is stored.
LEMMA AskKeyInv ==
  ASSUME TokensInv, NEW t \in Tasks, NEW copilot, AskKey(t, copilot)
  PROVE  TokensInv'
<1> USE DEF TokensInv, KeysInv
<1>1. PICK c \in store :
        call' = [call EXCEPT ![t] =
          [at |-> IF ~copilot \/ KnownDue(c) THEN "renewing" ELSE "minting",
           from |-> c, tokens |-> c]]
  BY DEF AskKey
<1>2. UNCHANGED <<policy, issued, spent, store, excused>> /\ call[t] = Idle
  BY DEF AskKey, serverKeys, IdleCalls
<1> DEFINE point == IF ~copilot \/ KnownDue(c) THEN "renewing" ELSE "minting"
<1>3. point \in Points /\ point # "idle"
  BY DEF Points
<1> DEFINE new == [at |-> point, from |-> c, tokens |-> c]
<1>4. c \in Credentials
  BY DEF KeysTyped
<1>5. new.at # "idle" /\ new.from = c /\ new.tokens = c
  BY <1>3
<1>6. new \in Calls
  BY <1>3, <1>4, Zenon DEF Calls
<1>7. call' = [call EXCEPT ![t] = new]
  BY <1>1
<1> HIDE DEF point, new
<1>8. /\ call' \in [Tasks -> Calls] /\ call'[t] = new
      /\ \A u \in Tasks \ {t} : call'[u] = call[u]
  BY <1>6, <1>7 DEF KeysTyped
<1>9. KeysTyped'
  BY <1>2, <1>8 DEF KeysTyped
<1>10. AllKnown'
  BY <1>2, <1>5, <1>8 DEF AllKnown, Known
<1>11. IdleCalls' /\ NothingSpent'
  BY <1>2, <1>5, <1>8 DEF IdleCalls, NothingSpent, At
<1>12. ~HasRenewed(t) /\ ~HasRenewed(t)'
  BY <1>2, <1>5, <1>8 DEF HasRenewed, Idle
<1>13. SoleHolder'
  BY <1>2, <1>5, <1>8, <1>12 DEF SoleHolder, Sole, HasRenewed
<1>14. StoredTokenGood'
  BY <1>2, <1>8, <1>12 DEF StoredTokenGood, HasRenewed
<1> QED
  BY <1>9, <1>10, <1>11, <1>13, <1>14

\* A call that renews its tokens becomes their sole holder.
LEMMA RenewedInv ==
  ASSUME TokensInv, NEW t \in Tasks, ~At(t, "idle"), Issue(t),
         NEW new \in Calls, new.at # "idle",
         new.from = call[t].from, new.tokens = RenewedTokens(call[t].tokens, issued + 1),
         call' = [call EXCEPT ![t] = new], UNCHANGED <<policy, store, excused>>
  PROVE  TokensInv'
<1> USE DEF TokensInv, KeysInv
<1>1. /\ call' \in [Tasks -> Calls] /\ call'[t] = new
      /\ \A u \in Tasks \ {t} : call'[u] = call[u]
  BY DEF KeysTyped
<1> DEFINE held == call[t].tokens.refresh
<1>2. held \in SUBSET Nat /\ \A n \in held : n <= issued
  BY DEF KeysTyped, Calls, Credentials, AllKnown, Known
<1>3. /\ issued \in Nat /\ issued' = issued + 1
      /\ spent' = IF policy.rotates THEN spent \cup held ELSE spent
  BY DEF Issue, KeysTyped
<1>4. /\ new.tokens.token = issued + 1
      /\ new.tokens.refresh = IF policy.rotates THEN {issued + 1} ELSE held
  BY DEF RenewedTokens
<1> HIDE DEF held
<1>5. KeysTyped'
  BY <1>1, <1>2, <1>3 DEF KeysTyped
<1>6. AllKnown'
  <2>1. /\ \A n \in spent' : n <= issued'
        /\ \A c \in store : Known(c)'
    BY <1>2, <1>3 DEF AllKnown, Known, KeysTyped, Credentials
  <2>2. Known(new.from)' /\ Known(new.tokens)'
    BY <1>2, <1>3, <1>4 DEF AllKnown, Known, KeysTyped, Calls, Credentials
  <2>3. \A u \in Tasks \ {t} : Known(call[u].from)' /\ Known(call[u].tokens)'
    BY <1>1, <1>3 DEF AllKnown, Known, KeysTyped, Calls, Credentials
  <2> QED
    BY <1>1, <2>1, <2>2, <2>3 DEF AllKnown
<1>7. store # {}
  BY DEF IdleCalls, At, Idle
<1>8. IdleCalls' /\ NothingSpent'
  BY <1>1, <1>3, <1>7 DEF IdleCalls, NothingSpent, At
<1>9. SoleHolder'
  <2> SUFFICES ASSUME policy.rotates, NEW u \in Tasks, HasRenewed(u)'
               PROVE  Sole(u)'
    BY DEF SoleHolder
  <2>1. CASE u = t
    <3>1. \A c \in store : issued + 1 \notin c.refresh
      BY <1>3 DEF AllKnown, Known
    <3>2. \A v \in Tasks : issued + 1 \notin call[v].tokens.refresh
      BY <1>3 DEF AllKnown, Known
    <3>3. issued + 1 \notin spent'
      BY <1>2, <1>3 DEF AllKnown
    <3> QED
      BY <2>1, <3>1, <3>2, <3>3, <1>1, <1>4 DEF Sole
  <2>2. CASE u # t
    <3>1. Sole(u)
      BY <2>2, <1>1 DEF SoleHolder, HasRenewed
    <3>2. call[u].tokens.token # issued + 1
      BY <1>3 DEF AllKnown, Known
    <3> QED
      BY <2>2, <3>1, <3>2, <1>1, <1>3, <1>4 DEF Sole, held
  <2> QED
    BY <2>1, <2>2
<1>10. HasRenewed(t)'
  <2>1. new.from.token <= issued
    BY DEF AllKnown, Known
  <2> QED
    BY <2>1, <1>1, <1>3, <1>4 DEF HasRenewed
<1>11. StoredTokenGood'
  BY <1>10 DEF StoredTokenGood
<1> QED
  BY <1>5, <1>6, <1>8, <1>9, <1>11

\* The answer to a renewal is lost, and with it the new pair.
LEMMA LostInv ==
  ASSUME TokensInv, NEW t \in Tasks, ~At(t, "idle"), Issue(t), Give(t, TRUE),
         UNCHANGED <<policy, store>>
  PROVE  TokensInv'
<1> USE DEF TokensInv, KeysInv
<1>1. /\ call' \in [Tasks -> Calls] /\ excused' \in BOOLEAN
      /\ call'[t] = Idle
      /\ \A u \in Tasks \ {t} : call'[u] = call[u]
      /\ excused'
  <2>1. TRUE \in BOOLEAN
    OBVIOUS
  <2> QED
    BY <2>1, GiveFacts
<1> DEFINE held == call[t].tokens.refresh
<1>2. held \in SUBSET Nat /\ \A n \in held : n <= issued
  BY DEF KeysTyped, Calls, Credentials, AllKnown, Known
<1>3. /\ issued \in Nat /\ issued' = issued + 1
      /\ spent' = IF policy.rotates THEN spent \cup held ELSE spent
  BY DEF Issue, KeysTyped
<1> HIDE DEF held
<1>4. KeysTyped'
  BY <1>1, <1>2, <1>3 DEF KeysTyped
<1>5. AllKnown'
  <2>1. /\ \A n \in spent' : n <= issued'
        /\ \A c \in store : Known(c)'
    BY <1>2, <1>3 DEF AllKnown, Known, KeysTyped, Credentials
  <2>2. Known(NoTokens)'
    BY <1>3 DEF Known, NoTokens
  <2>3. \A u \in Tasks \ {t} : Known(call[u].from)' /\ Known(call[u].tokens)'
    BY <1>1, <1>3 DEF AllKnown, Known, KeysTyped, Calls, Credentials
  <2> QED
    BY <1>1, <2>1, <2>2, <2>3 DEF AllKnown, Idle
<1>6. store # {}
  BY DEF IdleCalls, At, Idle
<1>7. IdleCalls' /\ NothingSpent'
  BY <1>1, <1>3, <1>6 DEF IdleCalls, NothingSpent, At
<1>8. SoleHolder'
  <2> SUFFICES ASSUME policy.rotates, NEW u \in Tasks, HasRenewed(u)'
               PROVE  Sole(u)'
    BY DEF SoleHolder
  <2>1. u # t
    BY <1>1 DEF HasRenewed, Idle
  <2>2. Sole(u)
    BY <2>1, <1>1 DEF SoleHolder, HasRenewed
  <2> QED
    BY <2>1, <2>2, <1>1, <1>3 DEF Sole, held, Idle, NoTokens
<1>9. StoredTokenGood'
  BY <1>1 DEF StoredTokenGood
<1> QED
  BY <1>4, <1>5, <1>7, <1>8, <1>9

-----------------------------------------------------------------------------
\* A renewal leaves its caller the sole holder of a good token,
LEMMA RenewInv ==
  ASSUME TokensInv, NEW t \in Tasks, NEW copilot, Renew(t, copilot)
  PROVE  TokensInv'
<1>1. ~At(t, "idle") /\ UNCHANGED <<policy, store>>
  BY DEF Renew, At
<1>2. CASE Issue(t) /\ Give(t, TRUE)
  BY <1>1, <1>2, LostInv
<1>3. CASE Give(t, HasRenewed(t) /\ call[t].tokens.refresh \cap spent = {})
           /\ UNCHANGED <<issued, spent>>
  <2> DEFINE why == HasRenewed(t) /\ call[t].tokens.refresh \cap spent = {}
  <2>1. why \in BOOLEAN
    BY DEF HasRenewed
  <2> QED
    BY <1>1, <1>3, <2>1, GiveInv
<1>4. CASE /\ Issue(t) /\ UNCHANGED excused
           /\ call' = [call EXCEPT ![t] =
                [at |-> IF ~copilot THEN "renewed"
                        ELSE IF @.at = "renewing" THEN "minting" ELSE "minting again",
                 from |-> @.from, tokens |-> RenewedTokens(@.tokens, issued + 1)]]
  <2> DEFINE old == call[t]
             tokens == RenewedTokens(old.tokens, issued + 1)
             point == IF ~copilot THEN "renewed"
                      ELSE IF old.at = "renewing" THEN "minting" ELSE "minting again"
             new == [at |-> point, from |-> old.from, tokens |-> tokens]
  <2>1. old \in Calls
    BY DEF TokensInv, KeysInv, KeysTyped
  <2>2. tokens \in Credentials
    <3>1. /\ issued + 1 \in Nat /\ policy.expires \in BOOLEAN
          /\ (IF policy.rotates THEN {issued + 1} ELSE old.tokens.refresh) \in SUBSET Nat
      BY <2>1 DEF TokensInv, KeysInv, KeysTyped, Policies, Calls, Credentials
    <3> QED
      BY <3>1, Zenon DEF RenewedTokens, Credentials
  <2>3. point \in Points /\ point # "idle"
    BY DEF Points
  <2>4. call' = [call EXCEPT ![t] = new]
    BY <1>4
  <2> HIDE DEF tokens, point
  <2>5. new \in Calls
    BY <2>1, <2>2, <2>3 DEF Calls
  <2>6. new.at # "idle" /\ new.from = old.from /\ new.tokens = tokens
    BY <2>3
  <2> HIDE DEF new
  <2> QED
    BY <1>1, <1>4, <2>4, <2>5, <2>6, RenewedInv DEF tokens
<1> QED
  BY <1>2, <1>3, <1>4 DEF Renew

\* the exchange for a Copilot token does not touch the refresh token,
LEMMA MintInv ==
  ASSUME TokensInv, NEW t \in Tasks, Mint(t)
  PROVE  TokensInv'
<1>1. ~At(t, "idle") /\ UNCHANGED <<policy, issued, spent, store>>
  BY DEF Mint, At, serverKeys
<1>2. CASE Move(t, "listing") /\ UNCHANGED excused
  BY <1>1, <1>2, MoveInv DEF Points
<1>3. CASE Move(t, "renewing again") /\ UNCHANGED excused
  BY <1>1, <1>3, MoveInv DEF Points
<1>4. CASE Give(t, HasRenewed(t))
  <2>1. HasRenewed(t) \in BOOLEAN
    BY DEF HasRenewed
  <2> QED
    BY <1>1, <1>4, <2>1, GiveInv
<1> QED
  BY <1>2, <1>3, <1>4 DEF Mint

\* nor does the listing of models.
LEMMA ListModelsInv ==
  ASSUME TokensInv, NEW t \in Tasks, ListModels(t)
  PROVE  TokensInv'
<1>1. ~At(t, "idle") /\ UNCHANGED <<policy, issued, spent, store>>
  BY DEF ListModels, At, serverKeys
<1>2. CASE Move(t, "renewed") /\ UNCHANGED excused
  BY <1>1, <1>2, MoveInv DEF Points
<1>3. CASE Move(t, "listing again") /\ UNCHANGED excused
  BY <1>1, <1>3, MoveInv DEF Points
<1>4. CASE Give(t, HasRenewed(t))
  <2>1. HasRenewed(t) \in BOOLEAN
    BY DEF HasRenewed
  <2> QED
    BY <1>1, <1>4, <2>1, GiveInv
<1> QED
  BY <1>2, <1>3, <1>4 DEF ListModels

\* A task stores what its call holds: over what the call began with, or over
\* something newer, which is excused.
LEMMA StoreRenewedInv ==
  ASSUME TokensInv, NEW t \in Tasks, StoreRenewed(t)
  PROVE  TokensInv'
<1> USE DEF TokensInv, KeysInv
<1> DEFINE why == store # {call[t].from}
           held == call[t].tokens
<1>1. /\ Give(t, why) /\ why \in BOOLEAN
      /\ store' = {held} /\ UNCHANGED <<policy, issued, spent>>
  BY DEF StoreRenewed, serverKeys
<1>2. /\ call' \in [Tasks -> Calls] /\ excused' \in BOOLEAN
      /\ call'[t] = Idle
      /\ \A u \in Tasks \ {t} : call'[u] = call[u]
      /\ excused \/ why => excused'
  BY <1>1, GiveFacts
<1>3. held \in Credentials
  BY DEF KeysTyped, Calls
<1>4. KeysTyped'
  BY <1>1, <1>2, <1>3 DEF KeysTyped
<1>5. Known(held)
  BY DEF AllKnown
<1>6. AllKnown'
  BY <1>1, <1>2, <1>5 DEF AllKnown, Known, Idle, NoTokens, KeysTyped
<1>7. IdleCalls' /\ NothingSpent'
  BY <1>1, <1>2 DEF IdleCalls, NothingSpent, At
<1>8. ~HasRenewed(t)' /\ Idle.tokens.refresh = {}
  BY <1>2 DEF HasRenewed, Idle, NoTokens
<1>9. SoleHolder'
  BY <1>1, <1>2, <1>8 DEF SoleHolder, Sole, HasRenewed
<1>10. StoredTokenGood'
  <2>1. CASE why
    BY <1>2, <2>1 DEF StoredTokenGood
  <2>2. CASE HasRenewed(t)
    <3>1. held.refresh \cap spent = {}
      <4>1. CASE policy.rotates
        BY <2>2, <4>1 DEF SoleHolder, Sole
      <4>2. CASE ~policy.rotates
        BY <4>2 DEF NothingSpent
      <4> QED
        BY <4>1, <4>2
    <3> QED
      BY <1>1, <3>1 DEF StoredTokenGood
  <2>3. CASE ~why /\ ~HasRenewed(t)
    <3>1. store = {held}
      BY <2>3 DEF HasRenewed
    <3>2. \A u \in Tasks : HasRenewed(u) => HasRenewed(u)'
      BY <1>2, <2>3 DEF HasRenewed
    <3>3. excused => excused'
      BY <1>2
    <3> HIDE DEF held
    <3>4. held.refresh \cap spent # {} => excused \/ \E u \in Tasks : HasRenewed(u)
      BY <3>1 DEF StoredTokenGood
    <3>5. held.refresh \cap spent # {} => excused' \/ \E u \in Tasks : HasRenewed(u)'
      BY <3>2, <3>3, <3>4
    <3> QED
      BY <1>1, <3>5 DEF StoredTokenGood
  <2> QED
    BY <2>1, <2>2, <2>3
<1> QED
  BY <1>4, <1>6, <1>7, <1>9, <1>10

\* Every step keeps the invariant of the tokens.
LEMMA TokensInvNext == TokensInv /\ [Next]_vars => TokensInv'
<1> SUFFICES ASSUME TokensInv, [Next]_vars PROVE TokensInv'
  OBVIOUS
<1>1. CASE UNCHANGED keyVars
  BY <1>1, StayInv DEF keyVars, serverKeys
<1>2. CASE Keys
  <2>1. CASE store = {} /\ StoreLogin
    BY <2>1, StoreLoginInv
  <2>2. CASE KeyExpires \/ TokenAges
    BY <2>2, StayInv DEF KeyExpires, TokenAges, serverKeys
  <2>3. ASSUME NEW t \in Tasks,
               \/ AskKey(t, job = "copilot") \/ Renew(t, job = "copilot")
               \/ Mint(t) \/ ListModels(t) \/ StoreRenewed(t)
        PROVE  TokensInv'
    BY <2>3, AskKeyInv, RenewInv, MintInv, ListModelsInv, StoreRenewedInv
  <2> QED
    BY <1>2, <2>1, <2>2, <2>3 DEF Keys
<1>3. CASE Browser \/ ServerEnds \/ AnthropicLogsIn \/ AnthropicUser
  BY <1>1, <1>3 DEF Browser, ServerEnds, AnthropicLogsIn, AnthropicUser, Anthropic
<1>4. CASE Device \/ UserCancels \/ UNCHANGED vars
  BY <1>1, <1>4 DEF Device, UserCancels, vars
<1> QED
  BY <1>2, <1>3, <1>4 DEF Next

\* The stored refresh token is one the server takes, however many tasks renew
\* it at once, unless a renewed one was lost on one of the named ways or its
\* holder is about to store it.
THEOREM StoredToken == Spec => []StoredTokenGood
<1>1. TokensInv => StoredTokenGood
  BY DEF TokensInv
<1> QED
  BY <1>1, TokensInvInit, TokensInvNext, PTL DEF Spec

-----------------------------------------------------------------------------
\* The deadline, the clock and the pauses are times, in seconds.
FlowTyped ==
  /\ deadline \subseteq Nat
  /\ now \in Nat /\ wake \in Nat /\ interval \in Nat /\ polls \in Nat
  /\ server \in [answered : Int, asked : Nat]

\* A pause that is as long as the server asks, counted from its last answer,
\* or one that goes on to the deadline.
Patient(moment) == moment - server.answered >= server.asked \/ Expired(moment)

\* The pause kept is never shorter than the one asked for; a sleep ends, and a
\* poll that is about to be sent finds the clock, where patience does.
Paced ==
  /\ phase \notin {"sleeping", "awake", "polling"} => now = 0
  /\ phase \in {"sleeping", "awake", "polling"} => interval >= server.asked
  /\ phase = "sleeping" => Patient(wake)
  /\ phase = "awake" => Patient(now)

FlowInv == FlowTyped /\ Paced

\* The invariant of the polls holds at first.
LEMMA FlowInvInit == Init => FlowInv
BY DEF Init, CallInit, CopilotInit, FlowInit, NoServer, FlowInv, FlowTyped, Paced

\* Polls are counted while the flow runs, and a step that ends it starts the
\* count again.
LEMMA FlowResetInv ==
  ASSUME FlowReset, phase' \notin {"sleeping", "awake", "polling"}
  PROVE  FlowInv'
BY DEF FlowReset, NoServer, FlowInv, FlowTyped, Paced

\* A sleep ends in time for the server, or at the deadline.
LEMMA SleepIsPatient ==
  ASSUME NEW moment \in Nat, NEW pause \in Nat, NEW end \in SUBSET Nat
  PROVE  /\ SleepEnd(moment, pause, end) \in Nat
         /\ \/ SleepEnd(moment, pause, end) = moment + pause
            \/ SleepEnd(moment, pause, end) \in end
<1>1. (\E d \in end : d < moment + pause) => The(end) \in end
  BY DEF The
<1>2. CASE \E d \in end : d < moment + pause
  BY <1>1, <1>2 DEF SleepEnd
<1>3. CASE ~(\E d \in end : d < moment + pause)
  BY <1>3 DEF SleepEnd
<1> QED
  BY <1>2, <1>3

\* The first interval is a number of seconds.
LEMMA FirstIntervalTyped ==
  ASSUME NEW named \in {{}, {0}, {2}}
  PROVE  FirstInterval(named) \in Nat
<1>1. The({0}) = 0 /\ The({2}) = 2
  BY DEF The
<1> QED
  BY <1>1, DeviceAssumption DEF FirstInterval, MinimumInterval

\* A flow starts with its clock at zero,
LEMMA StartFlowInv ==
  ASSUME FlowInv, phase \notin {"sleeping", "awake", "polling"},
         NEW named \in FirstPauses, NEW expires \in SUBSET Nat, NEW wait \in BOOLEAN,
         StartFlow(named, expires, wait)
  PROVE  FlowInv'
<1> DEFINE first == FirstInterval(named)
<1>1. first \in Nat
  BY FirstIntervalTyped DEF FirstPauses
<1> HIDE DEF first
<1>2. /\ deadline' = expires /\ interval' = first /\ now' = 0 /\ polls' = polls
      /\ wake' = IF wait THEN SleepEnd(0, first, expires) ELSE 0
      /\ server' = [answered |-> IF wait THEN 0 ELSE -first, asked |-> first]
      /\ phase' = IF wait THEN "sleeping" ELSE "awake"
  BY DEF StartFlow, Goto, first, FlowInv, Paced
<1>3. CASE wait
  <2>1. /\ wake' \in Nat
        /\ wake' = first \/ wake' \in deadline'
    BY <1>1, <1>2, <1>3, SleepIsPatient
  <2> QED
    BY <1>1, <1>2, <1>3, <2>1 DEF FlowInv, FlowTyped, Paced, Patient, Expired
<1>4. CASE ~wait
  BY <1>1, <1>2, <1>4 DEF FlowInv, FlowTyped, Paced, Patient, Expired
<1> QED
  BY <1>3, <1>4

\* a pause lasts as long as the server asked, or to the deadline,
LEMMA RestInv ==
  ASSUME FlowInv, NEW moment \in Nat, NEW pause \in Nat, NEW slow, NEW asked \in Nat,
         pause >= asked, Rest(moment, pause, slow, asked)
  PROVE  FlowInv'
<1>1. CASE Expired(moment)
  BY <1>1, FlowResetInv DEF Rest, Timeout, FlowFails, Return
<1>2. CASE ~Expired(moment)
  <2>1. /\ now' = moment /\ interval' = pause /\ deadline' = deadline /\ polls' = polls
        /\ wake' = SleepEnd(moment, pause, deadline)
        /\ server' = [answered |-> moment, asked |-> asked]
        /\ phase' = "sleeping"
    BY <1>2 DEF Rest, Goto
  <2>2. /\ wake' \in Nat
        /\ wake' = moment + pause \/ wake' \in deadline'
    BY <2>1, SleepIsPatient DEF FlowInv, FlowTyped
  <2> QED
    BY <2>1, <2>2 DEF FlowInv, FlowTyped, Paced, Patient, Expired
<1> QED
  BY <1>1, <1>2

\* and the next poll comes after it.
LEMMA PollAgainInv == FlowInv /\ PollAgain => FlowInv'
<1> SUFFICES ASSUME FlowInv, phase = "polling",
                    NEW delay \in 0..MaxDelay,
                    \/ Rest(now + delay, interval, slowed, server.asked)
                    \/ Rest(now + delay, Slower(interval, {2}), TRUE, 2)
                    \/ \E named \in {{}, {0}} :
                         Rest(now + delay, Slower(interval, named), TRUE,
                              server.asked + Increment)
             PROVE  FlowInv'
  BY DEF PollAgain
<1>1. /\ now + delay \in Nat
      /\ interval \in Nat /\ server.asked \in Nat /\ interval >= server.asked
  BY DeviceAssumption DEF FlowInv, FlowTyped, Paced
<1>2. Slower(interval, {2}) = 2
  BY DEF Slower, The
<1>3. \A named \in {{}, {0}} : Slower(interval, named) = interval + Increment
  BY DEF Slower
<1>4. CASE Rest(now + delay, interval, slowed, server.asked)
  BY <1>1, <1>4, RestInv
<1>5. CASE Rest(now + delay, Slower(interval, {2}), TRUE, 2)
  <2>1. Rest(now + delay, 2, TRUE, 2)
    BY <1>2, <1>5
  <2>2. 2 \in Nat /\ 2 >= 2
    OBVIOUS
  <2> QED
    BY <1>1, <2>1, <2>2, RestInv
<1>6. ASSUME NEW named \in {{}, {0}},
             Rest(now + delay, Slower(interval, named), TRUE, server.asked + Increment)
      PROVE  FlowInv'
  <2>1. /\ interval + Increment \in Nat /\ server.asked + Increment \in Nat
        /\ interval + Increment >= server.asked + Increment
    BY <1>1, DeviceAssumption
  <2> QED
    BY <1>1, <1>3, <1>6, <2>1, RestInv
<1> QED
  BY <1>4, <1>5, <1>6

\* The steps of poll_device_code_flow keep the invariant of the polls,
LEMMA FlowStepInv == FlowInv /\ FlowStep => FlowInv'
<1> SUFFICES ASSUME FlowInv, FlowStep PROVE FlowInv'
  OBVIOUS
<1>1. CASE SleepOver
  <2>1. PICK late \in 0..MaxDelay : now' = wake + late
    BY <1>1 DEF SleepOver
  <2> QED
    BY <1>1, <2>1, DeviceAssumption
    DEF SleepOver, Goto, FlowInv, FlowTyped, Paced, Patient, Expired
<1>2. CASE SleepCancelled \/ PollFails
  BY <1>2, FlowResetInv DEF SleepCancelled, PollFails, FlowFails, Return
<1>3. CASE Poll
  <2>1. CASE cancelled \/ Expired(now)
    BY <1>3, <2>1, FlowResetInv DEF Poll, Timeout, FlowFails, Return
  <2>2. CASE ~cancelled /\ ~Expired(now)
    <3>1. /\ phase = "awake" /\ phase' = "polling" /\ polls' = polls + 1
          /\ UNCHANGED <<now, deadline, interval, wake, slowed, server>>
      BY <1>3, <2>2 DEF Poll, Goto
    <3> QED
      BY <3>1 DEF FlowInv, FlowTyped, Paced
  <2> QED
    BY <2>1, <2>2
<1>4. CASE PollAgain
  BY <1>4, PollAgainInv
<1> QED
  BY <1>1, <1>2, <1>3, <1>4 DEF FlowStep

\* A step outside of the flow leaves it where it is, at rest or running.
LEMMA FlowRestsInv ==
  ASSUME FlowInv, UNCHANGED flowVars,
         \/ phase' = phase
         \/ {phase, phase'} \cap {"sleeping", "awake", "polling"} = {}
  PROVE  FlowInv'
BY DEF flowVars, FlowInv, FlowTyped, Paced, Patient, Expired

\* the steps of the Anthropic login do not touch the flow,
LEMMA AnthropicRestsFlow ==
  ASSUME FlowInv, Browser \/ ServerEnds \/ AnthropicLogsIn \/ AnthropicUser
  PROVE  FlowInv'
<1>1. UNCHANGED flowVars
  BY DEF Browser, ServerEnds, AnthropicLogsIn, AnthropicUser, Anthropic, copilotVars
<1>2. \/ phase' = phase
      \/ {phase, phase'} \cap {"sleeping", "awake", "polling"} = {}
  <2>1. CASE Browser \/ ServerEnds \/ Anthropic(Accept)
    BY <2>1 DEF Browser, ServerEnds, Anthropic, Accept, ReadRequest, ServerStops,
                ServerCancelled, Serving, callVars
  <2>2. CASE AnthropicLogsIn
    BY <2>2 DEF AnthropicLogsIn, Anthropic, LoginStep, Begin, Receive, AnswerPrompt,
                ExchangeEnds, Close, Exchange, Ask, Leave, Return, Goto
  <2>3. CASE Anthropic(TypeCode \/ TypingFails)
    BY <2>3 DEF Anthropic, TypeCode, TypingFails, Exchange, Ask, Leave, Goto
  <2> QED
    BY <2>1, <2>2, <2>3 DEF AnthropicUser, Anthropic
<1> QED
  BY <1>1, <1>2, FlowRestsInv

\* and those of the Copilot login start it once.
LEMMA CopilotStepInv == FlowInv /\ CopilotStep => FlowInv'
<1> SUFFICES ASSUME FlowInv, CopilotStep PROVE FlowInv'
  OBVIOUS
<1>1. CASE (AskDomain \/ DomainGiven \/ Listed) /\ UNCHANGED copilotVars
  BY <1>1, FlowRestsInv DEF AskDomain, Step, DomainGiven, Listed, Goto, Return, copilotVars
<1>2. CASE CodeIssued
  <2>1. CASE Return("error") /\ UNCHANGED flowVars
    BY <1>2, <2>1, FlowRestsInv DEF CodeIssued, Return
  <2>2. ASSUME NEW named \in FirstPauses, NEW expires \in Expiries,
               StartFlow(named, {expires}, TRUE)
        PROVE  FlowInv'
    <3>1. {expires} \in SUBSET Nat /\ phase \notin {"sleeping", "awake", "polling"}
      BY <1>2, CopilotAssumption DEF CodeIssued
    <3> QED
      BY <2>2, <3>1, StartFlowInv
  <2> QED
    BY <1>2, <2>1, <2>2 DEF CodeIssued
<1>3. CASE PollComplete
  BY <1>3, FlowResetInv DEF PollComplete, Return, Goto
<1>4. CASE (Minted \/ Surveyed \/ EnableNext) /\ UNCHANGED flowVars
  BY <1>4, FlowRestsInv DEF Minted, Surveyed, EnableNext, Goto, Return
<1> QED
  BY <1>1, <1>2, <1>3, <1>4 DEF CopilotStep

\* Every step keeps the invariant of the polls.
LEMMA FlowInvNext == FlowInv /\ [Next]_vars => FlowInv'
<1> SUFFICES ASSUME FlowInv, [Next]_vars PROVE FlowInv'
  OBVIOUS
<1>1. CASE Browser \/ ServerEnds \/ AnthropicLogsIn \/ AnthropicUser
  BY <1>1, AnthropicRestsFlow
<1>2. CASE Device
  <2>1. CASE CopilotStep
    BY <2>1, CopilotStepInv
  <2>2. CASE StartOwnFlow
    <3>1. PICK named \in FirstPauses, expires \in {{}} \cup {{e} : e \in Expiries} :
            StartFlow(named, expires, FALSE)
      BY <2>2 DEF StartOwnFlow
    <3>2. expires \in SUBSET Nat /\ phase \notin {"sleeping", "awake", "polling"}
      BY <2>2, CopilotAssumption DEF StartOwnFlow
    <3> QED
      BY <3>1, <3>2, StartFlowInv
  <2>3. CASE PollComplete
    BY <2>3, FlowResetInv DEF PollComplete, Return, Goto
  <2>4. CASE FlowStep
    BY <2>4, FlowStepInv
  <2> QED
    BY <1>2, <2>1, <2>2, <2>3, <2>4 DEF Device
<1>3. CASE UserCancels \/ Keys \/ UNCHANGED vars
  BY <1>3, FlowRestsInv DEF UserCancels, CancelLogin, Keys, vars, callVars, copilotVars
<1> QED
  BY <1>1, <1>2, <1>3 DEF Next

\* No step but Poll counts a poll.
LEMMA OnlyPollPolls ==
  ASSUME FlowInv, [Next]_vars, polls' > polls
  PROVE  phase = "awake" /\ ~cancelled /\ ~Expired(now)
<1>0. polls' # 0 /\ polls' # polls
  BY DEF FlowInv, FlowTyped
<1> USE <1>0
<1>1. CASE Poll
  BY <1>1 DEF Poll, Timeout, FlowFails, FlowReset
<1>2. CASE PollAgain
  BY <1>2 DEF PollAgain, Rest, Timeout, FlowFails, FlowReset
<1>3. CASE SleepOver \/ SleepCancelled \/ PollFails
  BY <1>3 DEF SleepOver, SleepCancelled, PollFails, FlowFails, FlowReset
<1>4. CASE CopilotStep
  BY <1>4 DEF CopilotStep, CodeIssued, StartFlow, PollComplete, FlowReset, copilotVars, flowVars
<1>5. CASE StartOwnFlow \/ PollComplete
  BY <1>5 DEF StartOwnFlow, StartFlow, PollComplete, FlowReset
<1>6. CASE UNCHANGED copilotVars
  BY <1>6 DEF copilotVars, flowVars
<1>7. CASE Device
  BY <1>1, <1>2, <1>3, <1>4, <1>5, <1>7 DEF Device, FlowStep
<1> QED
  BY <1>6, <1>7 DEF Next, Browser, ServerEnds, AnthropicLogsIn, AnthropicUser, Anthropic,
                    UserCancels, Keys, vars

\* The server is polled when it has had the pause it asked for, since its last
\* answer, while the code is valid and the login is wanted, whatever it asks
\* for, however late its answers come and however long a sleep oversleeps.
THEOREM ServerNotRushed == Spec => PollsAsAsked
<1>1. ASSUME FlowInv, [Next]_vars
      PROVE  [polls' > polls =>
                /\ now - server.answered >= server.asked
                /\ \A d \in deadline : now < d
                /\ ~cancelled]_vars
  BY <1>1, OnlyPollPolls DEF FlowInv, FlowTyped, Paced, Patient, Expired
<1> QED
  BY <1>1, FlowInvInit, FlowInvNext, PTL DEF Spec, PollsAsAsked

\* The cleanups that are run beside the logins reach every callback that stays
\* registered, as SessionResources promises whatever goes on around it.
THEOREM CleanupsReachAll == MCSpec => []CleanupReachesAll
<1>1. MCInit => Resources!Init
  BY DEF MCInit
<1>2. [MCNext]_<<vars, resourceVars>> => [Resources!Next]_Resources!vars
  BY DEF MCNext, resourceVars, Resources!vars
<1>3. Resources!Spec => []Resources!CleanupReachesAll
  BY Resources!ReachesAll
<1>4. Resources!CleanupReachesAll => CleanupReachesAll
  BY DEF CleanupReachesAll
<1> QED
  BY <1>1, <1>2, <1>3, <1>4, PTL DEF MCSpec, Resources!Spec

=============================================================================
