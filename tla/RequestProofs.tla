--------------------------- MODULE RequestProofs ---------------------------
(***************************************************************************)
(* Proofs about what requests are made of (MCRequests): which models an    *)
(* account may send them to, which of the credentials there are they       *)
(* carry, how their tools go out and come back, how much of the window     *)
(* they leave for the answer, and what they say of thinking and caching.   *)
(***************************************************************************)
EXTENDS MCRequests, SequenceTheorems, FiniteSetTheorems, WellFoundedInduction, TLAPS

-----------------------------------------------------------------------------
(* CopilotAccount.                                                         *)

Places == {"idle", "minting", "surveying", "enabling", "listing", "listing again"}
WrittenDomains == CopilotModels!Domains \cup {"url"}

UpdateType ==
  update \in [at : Places, login : BOOLEAN, domain : WrittenDomains,
              endpoint : CopilotModels!Endpoints,
              pending : SUBSET DOMAIN account.models, smooth : BOOLEAN]

OpenAreEnabled(but) ==
  \A id \in DOMAIN account.models \ but :
    account.models[id].open => account.models[id].policy = "enabled"

\* A login in which nothing went wrong has enabled all but what is pending.
SmoothUpdate ==
  update.smooth =>
    /\ update.login
    /\ update.at = "enabling" => OpenAreEnabled(update.pending)
    /\ update.at \in {"listing", "listing again"} => OpenAreEnabled({})

StoredFits(c) ==
  /\ c = CopilotModels!Credentials(c.endpoint, c.domain, c.ids, c.asked, c.smooth)
  /\ c.domain \in WrittenDomains /\ c.endpoint \in CopilotModels!Endpoints
  /\ c.ids # {} =>
       \/ CopilotModels!BaseUrl(c.endpoint, CopilotModels!Normalized(c.domain)) = c.asked
       \/ c.asked = "github.com"
  /\ c.smooth => OpenAreEnabled({}) /\ c.ids = {CopilotModels!Entitled(c.asked)}

AccountInv ==
  /\ CopilotModels!IsAccount(account)
  /\ UpdateType
  /\ SmoothUpdate
  /\ \A c \in stored : StoredFits(c)

\* What any step does to the account, its credentials and a login.
LEMMA AccountSteps ==
  ASSUME [MCNext]_<<vars, budgetVars, optionVars, accessVars, toolVars, accountVars>>
  PROVE  [CopilotModels!Next]_CopilotModels!vars
<1> USE DEF accountVars, CopilotModels!vars
<1>1. CASE MCNext
  BY <1>1, ZenonT(40) DEF MCNext
<1>2. CASE UNCHANGED <<vars, budgetVars, optionVars, accessVars, toolVars, accountVars>>
  BY <1>2
<1> QED
  BY <1>1, <1>2

\* The account that waits while another part of the module is at work.
LEMMA AnAccountFits == CopilotModels!IsAccount(AnAccount)
<1> DEFINE models == AnAccount.models
<1>1. DOMAIN models = {"gpt", "claude"}
  BY DEF AnAccount
<1>2. models = [id \in DOMAIN models |-> models[id]]
  BY DEF AnAccount
<1>3. ASSUME NEW id \in DOMAIN models
      PROVE  CopilotModels!IsModel(models[id], TRUE)
  <2>1. /\ models["gpt"] = Listed("none", TRUE, FALSE, TRUE)
        /\ models["claude"] = Listed("disabled", TRUE, FALSE, TRUE)
    BY DEF AnAccount
  <2>2. ASSUME NEW policy \in {"none", "disabled"}
        PROVE  CopilotModels!IsModel(Listed(policy, TRUE, FALSE, TRUE), TRUE)
    <3>1. /\ Listed(policy, TRUE, FALSE, TRUE).policy = policy
          /\ Listed(policy, TRUE, FALSE, TRUE).open = FALSE
          /\ Listed(policy, TRUE, FALSE, TRUE).picker = (TRUE /\ policy \in {"none", "enabled"})
          /\ Listed(policy, TRUE, FALSE, TRUE)
               \in [policy : {"none", "unconfigured", "disabled", "enabled"},
                   tools : BOOLEAN, open : BOOLEAN, picker : BOOLEAN]
      BY DEF Listed
    <3> QED
      BY <3>1 DEF CopilotModels!IsModel
  <2> QED
    BY <1>1, <1>3, <2>1, <2>2
<1>4. /\ AnAccount = [domain |-> AnAccount.domain, endpoint |-> AnAccount.endpoint,
                      flags |-> AnAccount.flags, models |-> models]
      /\ AnAccount.domain = "ghe" /\ AnAccount.endpoint = "none" /\ AnAccount.flags = TRUE
  BY DEF AnAccount
<1> HIDE DEF models
<1>5. AnAccount = [domain |-> AnAccount.domain, endpoint |-> AnAccount.endpoint,
                  flags |-> AnAccount.flags, models |-> [id \in DOMAIN models |-> models[id]]]
  BY <1>2, <1>4
<1> QED
  BY <1>3, <1>4, <1>5 DEF models, CopilotModels!IsAccount, CopilotModels!Domains, CopilotModels!Endpoints

\* No login is under way at the start.
LEMMA AccountInitial == MCInit => AccountInv
<1> SUFFICES ASSUME MCInit PROVE AccountInv
  OBVIOUS
<1>1. CopilotModels!IsAccount(account) /\ CopilotModels!LoggedOut
  BY AnAccountFits, AccountsAssumption DEF MCInit, AccountRests, CopilotModels!Init,
    CopilotModels!AccountsFit
<1> QED
  BY <1>1 DEF AccountInv, UpdateType, SmoothUpdate, CopilotModels!LoggedOut, CopilotModels!Idle,
    Places, WrittenDomains, CopilotModels!Domains, CopilotModels!Endpoints

\* What is listed is what the account is entitled to.
LEMMA ListedAreEntitled ==
  ASSUME CopilotModels!IsAccount(account), NEW from
  PROVE  CopilotModels!AvailableIds(from = "individual") = CopilotModels!Entitled(from)
<1> DEFINE models == account.models
           callable == {id \in DOMAIN models : models[id].tools}
           shown == {id \in callable : models[id].picker /\ models[id].policy # "disabled"}
           enabled == {id \in callable : models[id].policy = "enabled"}
<1>1. \A id \in DOMAIN models : models[id].picker = (account.flags /\ models[id].policy \in {"none", "enabled"})
  BY DEF CopilotModels!IsAccount, CopilotModels!IsModel
<1>2. CopilotModels!AvailableIds(from = "individual") =
        IF shown = {} /\ from = "individual" THEN enabled ELSE shown
  BY DEF CopilotModels!AvailableIds, CopilotModels!Offered
<1>3. CASE account.flags
  <2>1. shown = {id \in callable : models[id].policy \in {"none", "enabled"}}
    BY <1>1, <1>3
  <2>2. shown = {} => enabled = {}
    BY <2>1
  <2>3. CopilotModels!Entitled(from) = {id \in callable : models[id].policy \in {"none", "enabled"}}
    BY <1>3 DEF CopilotModels!Entitled, CopilotModels!Offered
  <2> QED
    BY <1>2, <2>1, <2>2, <2>3
<1>4. CASE ~ account.flags
  <2>1. shown = {}
    BY <1>1, <1>4
  <2>2. CopilotModels!Entitled(from) = IF from = "individual" THEN enabled ELSE {}
    BY <1>4 DEF CopilotModels!Entitled, CopilotModels!Offered
  <2> QED
    BY <1>2, <2>1, <2>2
<1> QED
  BY <1>3, <1>4

\* The models of a catalog are reached where they are listed, but for a login
\* to GitHub itself.
LEMMA ReachedAtListing ==
  ASSUME UpdateType
  PROVE  \/ CopilotModels!BaseUrl(update.endpoint, CopilotModels!Normalized(update.domain))
              = CopilotModels!ListingUrl
         \/ CopilotModels!ListingUrl = "github.com"
BY DEF UpdateType, WrittenDomains, CopilotModels!Domains, CopilotModels!ListingUrl,
  CopilotModels!BaseUrl, CopilotModels!Normalized

\* Steps that leave the account alone leave what is stored in order.
LEMMA StoredStays ==
  ASSUME NEW c, StoredFits(c), UNCHANGED account
  PROVE  StoredFits(c)'
BY DEF StoredFits, OpenAreEnabled, CopilotModels!Entitled, CopilotModels!Offered

\* A login or a refresh begins.
LEMMA UpdateBegins ==
  ASSUME AccountInv, NEW login \in BOOLEAN, NEW smooth \in BOOLEAN, NEW domain \in WrittenDomains,
         smooth => login,
         update' = [at |-> "minting", login |-> login, domain |-> domain, endpoint |-> "none",
                    pending |-> {}, smooth |-> smooth],
         UNCHANGED <<account, stored>>
  PROVE  AccountInv'
<1>1. UpdateType'
  BY DEF UpdateType, CopilotModels!Idle, Places, CopilotModels!Endpoints
<1>2. SmoothUpdate'
  BY DEF SmoothUpdate, CopilotModels!Idle
<1>3. (\A c \in stored : StoredFits(c))'
  BY StoredStays DEF AccountInv
<1> QED
  BY <1>1, <1>2, <1>3 DEF AccountInv

\* An update ends, with something to store or with nothing.
LEMMA UpdateEnds ==
  ASSUME AccountInv, update' = CopilotModels!Idle, UNCHANGED account,
         \A c \in stored' \ stored : StoredFits(c)'
  PROVE  AccountInv'
<1>1. UpdateType'
  BY DEF UpdateType, CopilotModels!Idle, Places, CopilotModels!Endpoints, WrittenDomains,
    CopilotModels!Domains
<1>2. SmoothUpdate'
  BY DEF SmoothUpdate, CopilotModels!Idle
<1>3. (\A c \in stored : StoredFits(c))'
  BY StoredStays DEF AccountInv
<1> QED
  BY <1>1, <1>2, <1>3 DEF AccountInv

\* An update that has got a token goes on.
LEMMA UpdateGoesOn ==
  ASSUME AccountInv, UpdateType', SmoothUpdate', UNCHANGED <<account, stored>>
  PROVE  AccountInv'
BY StoredStays DEF AccountInv

\* A model of the account changes.
LEMMA ModelChanges ==
  ASSUME CopilotModels!IsAccount(account), NEW id \in DOMAIN account.models, NEW m,
         CopilotModels!IsModel(m, account.flags),
         account' = [account EXCEPT !.models[id] = m]
  PROVE  /\ CopilotModels!IsAccount(account')
         /\ account'.models = [account.models EXCEPT ![id] = m]
         /\ account'.flags = account.flags
         /\ DOMAIN account'.models = DOMAIN account.models
         /\ account'.models[id] = m
         /\ \A other \in DOMAIN account.models \ {id} : account'.models[other] = account.models[other]
<1>1. account = [domain |-> account.domain, endpoint |-> account.endpoint, flags |-> account.flags,
                 models |-> account.models]
  BY DEF CopilotModels!IsAccount
<1>2. account' = [domain |-> account.domain, endpoint |-> account.endpoint, flags |-> account.flags,
                  models |-> [account.models EXCEPT ![id] = m]]
  BY <1>1
<1>3. account.models = [other \in DOMAIN account.models |-> account.models[other]]
  BY DEF CopilotModels!IsAccount
<1>4. /\ account'.models = [account.models EXCEPT ![id] = m]
      /\ account'.flags = account.flags
      /\ account'.domain = account.domain /\ account'.endpoint = account.endpoint
      /\ DOMAIN account'.models = DOMAIN account.models
      /\ account'.models[id] = m
      /\ \A other \in DOMAIN account.models \ {id} : account'.models[other] = account.models[other]
  BY <1>2, <1>3
<1>5. account'.models = [other \in DOMAIN account'.models |-> account'.models[other]]
  BY <1>3, <1>4
<1>6. account' = [domain |-> account'.domain, endpoint |-> account'.endpoint, flags |-> account'.flags,
                  models |-> [other \in DOMAIN account'.models |-> account'.models[other]]]
  BY <1>2, <1>4, <1>5
<1>7. \A other \in DOMAIN account'.models : CopilotModels!IsModel(account'.models[other], account'.flags)
  BY <1>4 DEF CopilotModels!IsAccount
<1>8. CopilotModels!IsAccount(account')
  BY <1>4, <1>6, <1>7 DEF CopilotModels!IsAccount
<1> QED
  BY <1>4, <1>8

\* Every step of the updates, and of the account itself, keeps the invariant.
LEMMA AccountStep == AccountInv /\ [CopilotModels!Next]_CopilotModels!vars => AccountInv'
<1> SUFFICES ASSUME AccountInv, [CopilotModels!Next]_CopilotModels!vars
             PROVE  AccountInv'
  OBVIOUS
<1> USE DEF WrittenDomains, CopilotModels!Domains, CopilotModels!Endpoints
<1>0. UpdateType /\ SmoothUpdate /\ CopilotModels!IsAccount(account)
  BY DEF AccountInv
<1>1. CASE CopilotModels!Login
  <2>1. PICK typed \in {"none", "ghe", "url", "no domain"} :
          IF typed = "no domain" THEN CopilotModels!Fail
          ELSE /\ update' = [CopilotModels!Idle EXCEPT !.at = "minting", !.login = TRUE, !.smooth = TRUE,
                                       !.domain = CopilotModels!Normalized(typed)]
               /\ UNCHANGED stored
    BY <1>1 DEF CopilotModels!Login
  <2>2. UNCHANGED account
    BY <1>1 DEF CopilotModels!Login
  <2>3. CASE typed = "no domain"
    BY <2>1, <2>2, <2>3, UpdateEnds DEF CopilotModels!Fail
  <2>4. CASE typed # "no domain"
    <3>1. CopilotModels!Normalized(typed) \in WrittenDomains
      BY <2>4 DEF CopilotModels!Normalized
    <3>2. update' = [at |-> "minting", login |-> TRUE, domain |-> CopilotModels!Normalized(typed),
                     endpoint |-> "none", pending |-> {}, smooth |-> TRUE]
      BY <2>1, <2>4 DEF CopilotModels!Idle
    <3> QED
      BY <2>1, <2>2, <2>4, <3>1, <3>2, UpdateBegins
  <2> QED
    BY <2>3, <2>4
<1>2. CASE CopilotModels!Renew
  <2>1. PICK c \in stored : \E domain \in {c.domain, CopilotModels!Normalized(c.domain)} :
          update' = [CopilotModels!Idle EXCEPT !.at = "minting", !.domain = domain]
    BY <1>2 DEF CopilotModels!Renew
  <2>2. PICK domain \in {c.domain, CopilotModels!Normalized(c.domain)} :
          update' = [CopilotModels!Idle EXCEPT !.at = "minting", !.domain = domain]
    BY <2>1
  <2>3. domain \in WrittenDomains
    BY <2>2 DEF AccountInv, StoredFits, CopilotModels!Normalized
  <2>4. update' = [at |-> "minting", login |-> FALSE, domain |-> domain, endpoint |-> "none",
                   pending |-> {}, smooth |-> FALSE]
    BY <2>2 DEF CopilotModels!Idle
  <2> QED
    BY <1>2, <2>3, <2>4, UpdateBegins DEF CopilotModels!Renew
<1>3. CASE CopilotModels!Mint
  <2>1. CASE CopilotModels!Fail
    BY <1>3, <2>1, UpdateEnds DEF CopilotModels!Mint, CopilotModels!Fail
  <2>2. CASE ~ CopilotModels!Fail
    <3>1. PICK to \in {"surveying", "listing"} :
            /\ update' = [update EXCEPT !.at = to, !.endpoint = account.endpoint]
            /\ to = IF update.login THEN "surveying" ELSE "listing"
            /\ UNCHANGED <<account, stored>>
      BY <1>3, <2>2 DEF CopilotModels!Mint
    <3>2. UpdateType'
      BY <1>0, <3>1 DEF UpdateType, Places, CopilotModels!IsAccount
    <3>3. SmoothUpdate'
      BY <1>0, <3>1 DEF SmoothUpdate, UpdateType
    <3> QED
      BY <3>1, <3>2, <3>3, UpdateGoesOn
  <2> QED
    BY <2>1, <2>2
<1>4. CASE CopilotModels!Survey
  <2>0. UNCHANGED <<account, stored>>
    BY <1>4 DEF CopilotModels!Survey
  <2>1. CASE update' = [update EXCEPT !.at = "enabling", !.pending = CopilotModels!PolicyPending]
    <3>1. UpdateType'
      BY <1>0, <2>0, <2>1 DEF UpdateType, Places, CopilotModels!PolicyPending, CopilotModels!Offered
    <3>2. OpenAreEnabled(CopilotModels!PolicyPending)
      BY <1>0 DEF OpenAreEnabled, CopilotModels!PolicyPending, CopilotModels!Offered,
        CopilotModels!IsAccount, CopilotModels!IsModel
    <3>3. /\ update'.at = "enabling" /\ update'.pending = CopilotModels!PolicyPending
          /\ update'.login = update.login /\ update'.smooth = update.smooth
      BY <1>0, <2>1 DEF UpdateType
    <3>4. SmoothUpdate'
      BY <1>0, <2>0, <3>2, <3>3 DEF SmoothUpdate, OpenAreEnabled
    <3> QED
      BY <2>0, <3>1, <3>4, UpdateGoesOn
  <2>2. CASE update' = [update EXCEPT !.at = "listing", !.smooth = FALSE]
    <3>1. UpdateType'
      BY <1>0, <2>0, <2>2 DEF UpdateType, Places
    <3>2. SmoothUpdate'
      BY <1>0, <2>2 DEF SmoothUpdate, UpdateType
    <3> QED
      BY <2>0, <3>1, <3>2, UpdateGoesOn
  <2> QED
    BY <1>4, <2>1, <2>2 DEF CopilotModels!Survey
<1>5. CASE CopilotModels!Enable
  <2>0. update.at = "enabling" /\ UNCHANGED stored
    BY <1>5 DEF CopilotModels!Enable
  <2>1. CASE update.pending = {} \/ aborted
    <3>1. /\ update' = [update EXCEPT !.at = "listing", !.smooth = @ /\ update.pending = {}]
          /\ UNCHANGED account
      BY <1>5, <2>1 DEF CopilotModels!Enable
    <3>2. UpdateType'
      BY <1>0, <3>1 DEF UpdateType, Places
    <3>3. /\ update'.at = "listing" /\ update'.login = update.login
          /\ update'.smooth => update.smooth /\ update.pending = {}
      BY <1>0, <3>1 DEF UpdateType
    <3>4. SmoothUpdate'
      BY <1>0, <2>0, <3>1, <3>3 DEF SmoothUpdate, OpenAreEnabled
    <3> QED
      BY <2>0, <3>1, <3>2, <3>4, UpdateGoesOn
  <2>2. CASE ~ (update.pending = {} \/ aborted)
    <3>1. PICK id \in update.pending :
            LET on == [update EXCEPT !.pending = @ \ {id}]
            IN \/ /\ account.models[id].open
                  /\ account' = [account EXCEPT !.models[id] = CopilotModels!Accepted(@)]
                  /\ update' = on
               \/ /\ update' = [on EXCEPT !.smooth = @ /\ ~account.models[id].open]
                  /\ UNCHANGED account
      BY <1>5, <2>2, ZenonT(30) DEF CopilotModels!Enable, CopilotModels!Offered
    <3>2. CASE /\ account.models[id].open
               /\ account' = [account EXCEPT !.models[id] = CopilotModels!Accepted(@)]
               /\ update' = [update EXCEPT !.pending = @ \ {id}]
      <4> DEFINE m == account.models[id]
      <4>1. id \in DOMAIN account.models /\ CopilotModels!IsModel(m, account.flags)
        BY <1>0 DEF UpdateType, CopilotModels!IsAccount
      <4>2. (m.picker \/ account.flags) = account.flags
        BY <4>1, <1>0 DEF CopilotModels!IsModel, CopilotModels!IsAccount
      <4>3. CopilotModels!Accepted(m) = [m EXCEPT !.policy = "enabled", !.picker = account.flags]
        BY <4>2 DEF CopilotModels!Accepted
      <4>4. CopilotModels!Accepted(m)
              = [policy |-> "enabled", tools |-> m.tools, open |-> m.open, picker |-> account.flags]
        BY <4>1, <4>3 DEF CopilotModels!IsModel
      <4>5. CopilotModels!IsModel(CopilotModels!Accepted(m), account.flags)
        BY <4>1, <4>4, <1>0 DEF CopilotModels!IsModel, CopilotModels!IsAccount
      <4>6. account' = [account EXCEPT !.models[id] = CopilotModels!Accepted(m)]
        BY <3>2
      <4>7. /\ CopilotModels!IsAccount(account')
            /\ account'.models = [account.models EXCEPT ![id] = CopilotModels!Accepted(m)]
            /\ account'.flags = account.flags
            /\ DOMAIN account'.models = DOMAIN account.models
            /\ account'.models[id] = CopilotModels!Accepted(m)
            /\ \A other \in DOMAIN account.models \ {id} : account'.models[other] = account.models[other]
        BY <1>0, <4>1, <4>5, <4>6, ModelChanges
      <4>8. UpdateType'
        BY <1>0, <3>2, <4>7 DEF UpdateType
      <4>9. /\ update'.at = update.at /\ update'.login = update.login /\ update'.smooth = update.smooth
            /\ update'.pending = update.pending \ {id}
        BY <1>0, <3>2 DEF UpdateType
      <4>10. account'.models[id].policy = "enabled"
        BY <4>4, <4>7
      <4>11. SmoothUpdate'
        BY <1>0, <2>0, <4>7, <4>9, <4>10 DEF SmoothUpdate, OpenAreEnabled
      <4>12. ASSUME NEW c \in stored, c.smooth
             PROVE  account'.models = account.models
        <5>1. m.policy = "enabled"
          BY <3>2, <4>1, <4>12 DEF AccountInv, StoredFits, OpenAreEnabled
        <5>2. m = [policy |-> "enabled", tools |-> m.tools, open |-> m.open, picker |-> account.flags]
          <6>1. m.picker = account.flags
            BY <4>1, <5>1, <1>0 DEF CopilotModels!IsModel, CopilotModels!IsAccount
          <6> QED
            BY <4>1, <5>1, <6>1 DEF CopilotModels!IsModel
        <5>3. account.models = [other \in DOMAIN account.models |-> account.models[other]]
          BY <1>0 DEF CopilotModels!IsAccount
        <5> QED
          BY <4>1, <4>4, <4>7, <5>2, <5>3
      <4>13. ASSUME NEW c \in stored
             PROVE  StoredFits(c)'
        <5>1. StoredFits(c)
          BY DEF AccountInv
        <5>2. c.smooth => UNCHANGED account.models /\ UNCHANGED account.flags
          BY <4>7, <4>12
        <5> QED
          BY <5>1, <5>2 DEF StoredFits, OpenAreEnabled, CopilotModels!Entitled, CopilotModels!Offered
      <4> QED
        BY <2>0, <4>7, <4>8, <4>11, <4>13 DEF AccountInv
    <3>3. CASE /\ update' = [[update EXCEPT !.pending = @ \ {id}] EXCEPT
                               !.smooth = @ /\ ~account.models[id].open]
               /\ UNCHANGED account
      <4>1. UpdateType'
        BY <1>0, <3>3 DEF UpdateType
      <4>2. /\ update'.at = update.at /\ update'.login = update.login
            /\ update'.pending = update.pending \ {id}
            /\ update'.smooth => update.smooth /\ ~account.models[id].open
        BY <1>0, <3>3 DEF UpdateType
      <4>3. SmoothUpdate'
        BY <1>0, <2>0, <3>3, <4>2 DEF SmoothUpdate, OpenAreEnabled
      <4> QED
        BY <2>0, <3>3, <4>1, <4>3, UpdateGoesOn
    <3> QED
      BY <3>1, <3>2, <3>3
  <2> QED
    BY <2>1, <2>2
<1>6. CASE CopilotModels!List
  <2>0. update.at \in {"listing", "listing again"} /\ UNCHANGED account
    BY <1>6 DEF CopilotModels!List
  <2>1. CASE CopilotModels!Fail
    BY <2>0, <2>1, UpdateEnds DEF CopilotModels!Fail
  <2>2. CASE CopilotModels!Goto("listing again")
    <3>1. /\ update' = [update EXCEPT !.at = "listing again"]
          /\ UNCHANGED <<account, stored>>
      BY <2>0, <2>2 DEF CopilotModels!Goto
    <3>2. UpdateType'
      BY <1>0, <3>1 DEF UpdateType, Places
    <3>3. SmoothUpdate'
      BY <1>0, <2>0, <3>1 DEF SmoothUpdate, UpdateType, OpenAreEnabled
    <3> QED
      BY <3>1, <3>2, <3>3, UpdateGoesOn
  <2>3. CASE LET ids == CopilotModels!AvailableIds(CopilotModels!ListingUrl = "individual")
             IN /\ update' = CopilotModels!Idle
                /\ stored' = {CopilotModels!CredentialsFrom(update, {ids}, CopilotModels!ListingUrl)}
    <3>1. PICK from, c :
            /\ from = CopilotModels!ListingUrl
            /\ c = CopilotModels!CredentialsFrom(update, {CopilotModels!Entitled(from)}, from)
      OBVIOUS
    <3>2. update' = CopilotModels!Idle /\ stored' = {c}
      BY <1>0, <2>3, <3>1, ListedAreEntitled
    <3>3. /\ c.domain = update.domain /\ c.endpoint = update.endpoint /\ c.asked = from
          /\ c.ids = {CopilotModels!Entitled(from)} /\ c.smooth = update.smooth
          /\ c = CopilotModels!Credentials(c.endpoint, c.domain, c.ids, c.asked, c.smooth)
      BY <3>1 DEF CopilotModels!CredentialsFrom, CopilotModels!Credentials
    <3>4. c.smooth => OpenAreEnabled({})
      BY <1>0, <2>0, <3>3 DEF SmoothUpdate
    <3>5. StoredFits(c)
      BY <1>0, <3>1, <3>3, <3>4, ReachedAtListing DEF StoredFits, UpdateType
    <3>6. StoredFits(c)'
      BY <2>0, <3>5, StoredStays
    <3> QED
      BY <2>0, <3>2, <3>6, UpdateEnds
  <2> QED
    BY <1>6, <2>1, <2>2, <2>3 DEF CopilotModels!List
<1>7. CASE CopilotModels!Cancel
  BY <1>0, <1>7, StoredStays DEF CopilotModels!Cancel, AccountInv, UpdateType, SmoothUpdate, OpenAreEnabled
<1>8. CASE CopilotModels!Import
  <2>1. PICK domain \in {"none", "ghe", "url"} :
          stored' = {CopilotModels!Credentials(account.endpoint, domain, {}, "nowhere", FALSE)}
    BY <1>8 DEF CopilotModels!Import
  <2>2. UNCHANGED <<account, update>>
    BY <1>8 DEF CopilotModels!Import
  <2>3. ASSUME NEW c \in stored'
        PROVE  StoredFits(c)'
    BY <1>0, <2>1, <2>3 DEF StoredFits, CopilotModels!Credentials, CopilotModels!IsAccount
  <2> QED
    BY <1>0, <2>2, <2>3 DEF AccountInv, UpdateType, SmoothUpdate, OpenAreEnabled
<1>9. CASE CopilotModels!ChangeAccount
  <2>1. /\ update' = [update EXCEPT !.smooth = FALSE]
        /\ stored' = {[c EXCEPT !.smooth = FALSE] : c \in stored}
    BY <1>9 DEF CopilotModels!ChangeAccount
  <2>2. SmoothUpdate'
    BY <1>0, <2>1 DEF SmoothUpdate, UpdateType
  <2>3. CopilotModels!IsAccount(account') /\ DOMAIN account'.models = DOMAIN account.models
    <3>1. CASE \E id \in DOMAIN account.models, policy \in {"enabled", "disabled"} :
                 account' = [account EXCEPT !.models[id].policy = policy,
                               !.models[id].picker = account.flags /\ policy = "enabled"]
      <4>1. PICK id \in DOMAIN account.models, policy \in {"enabled", "disabled"} :
              account' = [account EXCEPT !.models[id].policy = policy,
                            !.models[id].picker = account.flags /\ policy = "enabled"]
        BY <3>1
      <4>2. PICK shown \in BOOLEAN : shown = (account.flags /\ policy = "enabled")
        BY Zenon
      <4>3. CopilotModels!IsModel(account.models[id], account.flags)
        BY <1>0 DEF CopilotModels!IsAccount
      <4>4. PICK m : m = [account.models[id] EXCEPT !.policy = policy, !.picker = shown]
        OBVIOUS
      <4>5. account' = [account EXCEPT !.models[id] = m]
        BY <1>0, <4>1, <4>2, <4>4 DEF CopilotModels!IsAccount
      <4>6. m = [policy |-> policy, tools |-> account.models[id].tools,
                 open |-> account.models[id].open, picker |-> shown]
        BY <4>3, <4>4 DEF CopilotModels!IsModel
      <4>7. /\ m.picker = (account.flags /\ m.policy \in {"none", "enabled"})
            /\ m.open => m.policy # "none"
            /\ m \in [policy : {"none", "unconfigured", "disabled", "enabled"},
                     tools : BOOLEAN, open : BOOLEAN, picker : BOOLEAN]
        BY <4>2, <4>3, <4>6 DEF CopilotModels!IsModel
      <4>8. CopilotModels!IsModel(m, account.flags)
        BY <4>7 DEF CopilotModels!IsModel
      <4> QED
        BY <1>0, <4>5, <4>8, ModelChanges
    <3>2. CASE \E a \in Accounts : /\ a.domain = account.domain
                                  /\ account' = [account EXCEPT !.endpoint = a.endpoint]
      BY <1>0, <3>2, AccountsAssumption DEF CopilotModels!AccountsFit, CopilotModels!IsAccount
    <3> QED
      BY <1>9, <3>1, <3>2, ZenonT(30) DEF CopilotModels!ChangeAccount, CopilotModels!Offered
  <2>4. UpdateType'
    BY <1>0, <2>1, <2>3 DEF UpdateType
  <2>5. ASSUME NEW c \in stored'
        PROVE  StoredFits(c)'
    <3>1. PICK old \in stored : c = [old EXCEPT !.smooth = FALSE]
      BY <2>1
    <3>2. StoredFits(old)
      BY DEF AccountInv
    <3>3. c = CopilotModels!Credentials(old.endpoint, old.domain, old.ids, old.asked, FALSE)
      BY <3>1, <3>2 DEF StoredFits, CopilotModels!Credentials
    <3> QED
      BY <3>2, <3>3 DEF StoredFits, CopilotModels!Credentials
  <2> QED
    BY <2>2, <2>3, <2>4, <2>5 DEF AccountInv
<1>10. CASE UNCHANGED CopilotModels!vars
  BY <1>0, <1>10, StoredStays DEF CopilotModels!vars, AccountInv, UpdateType, SmoothUpdate, OpenAreEnabled
<1> QED
  BY <1>1, <1>2, <1>3, <1>4, <1>5, <1>6, <1>7, <1>8, <1>9, <1>10 DEF CopilotModels!Next

\* What is stored leaves those models of a catalog that it should.
LEMMA StoredShows ==
  ASSUME AccountInv, NEW c \in stored
  PROVE  /\ \A m \in CopilotModels!Modified(CopilotModels!Catalog, c) :
              IF m.provider # "github-copilot" THEN m \in CopilotModels!Catalog
              ELSE c.ids # {} => m.url = c.asked \/ c.asked = "github.com"
         /\ c.smooth =>
              {m.id : m \in CopilotModels!Modified(CopilotModels!Catalog, c)}
                = {"other"} \cup CopilotModels!Entitled(c.asked)
<1> DEFINE Url == CopilotModels!BaseUrl(c.endpoint, CopilotModels!Normalized(c.domain))
           Bare(id) == [id |-> id, provider |-> "github-copilot", url |-> "unset"]
           Put(id) == [id |-> id, provider |-> "github-copilot", url |-> Url]
           Other == [id |-> "other", provider |-> "another", url |-> "its own"]
           Kept == {id \in DOMAIN account.models : \A ids \in c.ids : id \in ids}
<1>0. StoredFits(c)
  BY DEF AccountInv
<1>1. CopilotModels!Catalog = {Bare(id) : id \in DOMAIN account.models} \cup {Other}
  <2> DEFINE Records == [id : DOMAIN account.models, provider : {"github-copilot"}, url : {"unset"}]
  <2>1. ASSUME NEW m \in Records PROVE m = Bare(m.id) /\ m.id \in DOMAIN account.models
    OBVIOUS
  <2>2. ASSUME NEW id \in DOMAIN account.models PROVE Bare(id) \in Records
    OBVIOUS
  <2>3. CopilotModels!Catalog = Records \cup {Other}
    BY DEF CopilotModels!Catalog, CopilotModels!Offered
  <2> HIDE DEF Records, Bare, Other
  <2> QED
    BY <2>1, <2>2, <2>3
<1>2. CopilotModels!Modified(CopilotModels!Catalog, c) = {Put(id) : id \in Kept} \cup {Other}
  <2> DEFINE kept == {m \in CopilotModels!Catalog : m.provider = "github-copilot" =>
                        \A ids \in c.ids : m.id \in ids}
             Moved(m) == IF m.provider = "github-copilot" THEN [m EXCEPT !.url = Url] ELSE m
  <2>1. kept = {Bare(id) : id \in Kept} \cup {Other}
    <3>1. /\ \A id : Bare(id).provider = "github-copilot" /\ Bare(id).id = id
          /\ Other.provider = "another"
      OBVIOUS
    <3> HIDE DEF Bare, Other
    <3> QED
      BY <1>1, <3>1
  <2>2. \A id : Moved(Bare(id)) = Put(id)
    OBVIOUS
  <2>3. Moved(Other) = Other
    OBVIOUS
  <2>4. CopilotModels!Modified(CopilotModels!Catalog, c) = {Moved(m) : m \in kept}
    BY DEF CopilotModels!Modified
  <2> HIDE DEF Moved, kept, Kept, Put, Bare, Other
  <2> QED
    BY <2>1, <2>2, <2>3, <2>4
<1>3. ASSUME NEW m \in CopilotModels!Modified(CopilotModels!Catalog, c)
      PROVE  IF m.provider # "github-copilot" THEN m \in CopilotModels!Catalog
             ELSE c.ids # {} => m.url = c.asked \/ c.asked = "github.com"
  <2>1. CASE m = Other
    BY <1>1, <2>1
  <2>2. ASSUME NEW id, m = Put(id)
        PROVE  m.provider = "github-copilot" /\ m.url = Url
    BY <2>2
  <2>3. c.ids # {} => Url = c.asked \/ c.asked = "github.com"
    BY <1>0 DEF StoredFits
  <2> HIDE DEF Url, Kept, Put, Other
  <2> QED
    BY <1>2, <2>1, <2>2, <2>3
<1>4. ASSUME c.smooth
      PROVE  {m.id : m \in CopilotModels!Modified(CopilotModels!Catalog, c)}
               = {"other"} \cup CopilotModels!Entitled(c.asked)
  <2>1. Kept = CopilotModels!Entitled(c.asked)
    BY <1>0, <1>4 DEF StoredFits, CopilotModels!Entitled, CopilotModels!Offered
  <2>2. (\A id : Put(id).id = id) /\ Other.id = "other"
    OBVIOUS
  <2> HIDE DEF Put, Other, Kept
  <2> QED
    BY <1>2, <2>1, <2>2
<1> QED
  BY <1>3, <1>4

\* The models of a catalog are those that the account may call, at the address
\* that listed them, whatever fails in the login and whoever changes the account.
THEOREM CatalogIsEntitled == MCSpec => []ModelsAsEntitled
<1>1. AccountInv => ModelsAsEntitled
  BY StoredShows DEF AccountInv, StoredFits, OpenAreEnabled, ModelsAsEntitled,
    CopilotModels!ModelsAsEntitled, CopilotModels!ReachedWhereListed, CopilotModels!LoginShowsAll,
    CopilotModels!Offered
<1>2. AccountInv /\ [MCNext]_<<vars, budgetVars, optionVars, accessVars, toolVars, accountVars>>
        => AccountInv'
  BY AccountSteps, AccountStep
<1> QED
  BY <1>1, <1>2, AccountInitial, PTL DEF MCSpec

-----------------------------------------------------------------------------
(* ToolDeclarations.                                                       *)

\* What the model called: tool i, as a request of client m declares it.
CallsTool(i, m) ==
  /\ wire.name = Tooling!WireName(list[i].name, m)
  /\ wire.form = Tooling!Declaration(list[i], m).form
  /\ wire.form = "custom" => wire.arguments = [input |-> "text"]

WireFits ==
  wire # Tooling!Nothing =>
    /\ wire.kind = "call" /\ Tooling!IsClient(wire.by)
    /\ \E i \in DOMAIN list : CallsTool(i, wire.by)
    /\ received = Tooling!Nothing => client = wire.by

ReceivedFits ==
  received # Tooling!Nothing =>
    /\ wire # Tooling!Nothing
    /\ received.kind = "call"
    /\ received.name = Tooling!FromClaudeCodeName(wire.name, wire.by)
    /\ received.arguments = Tooling!Arguments(wire, received.name, wire.by)

RunFits ==
  ran # 0 =>
    received # Tooling!Nothing /\ ran = Tooling!Firstly(Tooling!Named(received.name))

SentFits ==
  declared.kind = "sent" =>
    /\ declared.by = client
    /\ declared.tools = [i \in DOMAIN list |-> Tooling!Declaration(list[i], client)]
    /\ \A i \in DOMAIN list : ~ Tooling!StrictRefused(list[i], client)
    /\ \/ declared.call = <<>>
       \/ /\ declared.call = <<Tooling!Told(received, client)>>
          /\ received # Tooling!Nothing /\ declared.named

RefusedFits ==
  declared.kind = "refused" /\ declared.why = "told" =>
    received # Tooling!Nothing /\ Tooling!TellRefused(received, client)

ToolInv ==
  /\ Tooling!IsList(list) /\ Tooling!IsClient(client)
  /\ WireFits /\ ReceivedFits /\ RunFits /\ SentFits /\ RefusedFits

\* A step of the module is one of the tools, or leaves them alone.
LEMMA ToolSteps ==
  ASSUME [MCNext]_<<vars, budgetVars, optionVars, accessVars, toolVars, accountVars>>
  PROVE  [Tooling!Next]_Tooling!vars
<1> USE DEF toolVars, Tooling!vars
<1>1. CASE MCNext
  BY <1>1, ZenonT(40) DEF MCNext
<1>2. CASE UNCHANGED <<vars, budgetVars, optionVars, accessVars, toolVars, accountVars>>
  BY <1>2
<1> QED
  BY <1>1, <1>2

\* The first of some reasons.
LEMMA FirstReason ==
  ASSUME NEW a \in {<<>>, <<"grammar">>}, NEW b \in {<<>>, <<"told">>}, NEW c \in {<<>>, <<"strict">>}
  PROVE  /\ a \o b \o c = <<>> => c = <<>>
         /\ a \o b \o c # <<>> /\ Head(a \o b \o c) = "told" => b = <<"told">>
<1> DEFINE Reason == {"grammar", "told", "strict"}
<1>1. a \in Seq(Reason) /\ b \in Seq(Reason) /\ c \in Seq(Reason)
  <2>1. <<>> \in Seq(Reason)
    OBVIOUS
  <2>2. \A r \in Reason : <<r>> \in Seq(Reason)
    OBVIOUS
  <2>3. "grammar" \in Reason /\ "told" \in Reason /\ "strict" \in Reason
    OBVIOUS
  <2> HIDE DEF Reason
  <2> QED
    BY <2>1, <2>2, <2>3
<1>2. a \o b \in Seq(Reason) /\ Len(a \o b) = Len(a) + Len(b)
  BY <1>1
<1>3. Len(a \o b \o c) = Len(a) + Len(b) + Len(c)
  BY <1>1, <1>2
<1>4. a \o b \o c = <<>> => c = <<>>
  <2>1. Len(<<"strict">>) = 1
    OBVIOUS
  <2>2. Len(a) \in Nat /\ Len(b) \in Nat
    BY <1>1
  <2> QED
    BY <1>3, <2>1, <2>2, Len(<<>>) = 0
<1>5. ASSUME a \o b \o c # <<>>, Head(a \o b \o c) = "told", b # <<"told">>
      PROVE  FALSE
  <2>1. b = <<>>
    BY <1>5
  <2>2. a \o b = a
    BY <1>1, <2>1
  <2>3. CASE a = <<"grammar">>
    <3>1. (a \o c)[1] = a[1]
      BY <1>1, <2>3
    <3>2. Head(a \o c) = (a \o c)[1]
      BY <1>1, <2>3
    <3> QED
      BY <1>5, <2>2, <2>3, <3>1, <3>2
  <2>4. CASE a = <<>>
    <3>1. a \o c = c
      BY <1>1, <2>4
    <3> QED
      BY <1>5, <2>2, <3>1
  <2> QED
    BY <2>3, <2>4
<1> QED
  BY <1>4, <1>5

\* Why a request is refused.
LEMMA ReasonsRead ==
  ASSUME NEW m
  PROVE  /\ Tooling!Reasons(m) = <<>> => \A i \in DOMAIN list : ~ Tooling!StrictRefused(list[i], m)
         /\ Tooling!Reasons(m) # <<>> /\ Head(Tooling!Reasons(m)) = "told" =>
              received # Tooling!Nothing /\ Tooling!TellRefused(received, m)
<1> DEFINE grammar == \E i \in DOMAIN list : m.api # "anthropic" /\ Tooling!GrammarRefused(list[i], m)
           told == received # Tooling!Nothing /\ Tooling!TellRefused(received, m)
           strict == \E i \in DOMAIN list : Tooling!StrictRefused(list[i], m)
           A == IF grammar THEN <<"grammar">> ELSE <<>>
           B == IF told THEN <<"told">> ELSE <<>>
           C == IF strict THEN <<"strict">> ELSE <<>>
<1>1. Tooling!Reasons(m) = A \o B \o C
  BY DEF Tooling!Reasons
<1> HIDE DEF grammar, told, strict
<1>2. /\ A \in {<<>>, <<"grammar">>} /\ B \in {<<>>, <<"told">>} /\ C \in {<<>>, <<"strict">>}
      /\ C = <<>> => ~ strict
      /\ B = <<"told">> => told
  OBVIOUS
<1> HIDE DEF A, B, C
<1>3. /\ Tooling!Reasons(m) = <<>> => ~ strict
      /\ Tooling!Reasons(m) # <<>> /\ Head(Tooling!Reasons(m)) = "told" => told
  BY <1>1, <1>2, FirstReason
<1> QED
  BY <1>3 DEF told, strict

\* A tool is declared by its grammar or as a function.
LEMMA Forms ==
  ASSUME NEW i \in DOMAIN list, NEW m, Tooling!IsClient(m)
  PROVE  /\ Tooling!Declaration(list[i], m).form
               = IF Tooling!AsksGrammar(list[i], m) /\ m.api # "anthropic" THEN "custom" ELSE "function"
         /\ Tooling!Declaration(list[i], m).name = Tooling!WireName(list[i].name, m)
         /\ Tooling!IsStrict(list[i], m) /\ ~ Tooling!AsksGrammar(list[i], m) =>
              Tooling!Declaration(list[i], m).strict = "yes"
<1> DEFINE t == list[i]
<1>1. m.api \in {"anthropic", "completions", "responses"} /\ (m.oauth => m.api = "anthropic")
  BY DEF Tooling!IsClient
<1>2. m.api # "anthropic" => Tooling!WireName(t.name, m) = t.name
  BY <1>1 DEF Tooling!WireName
<1>3. CASE m.api = "anthropic"
  BY <1>3 DEF Tooling!Declaration, Tooling!AnthropicTool
<1>4. CASE m.api # "anthropic"
  <2>1. Tooling!Declaration(t, m)
          = IF Tooling!AsksGrammar(t, m) THEN Tooling!CustomTool(t) ELSE Tooling!FunctionTool(t, m)
    BY <1>1, <1>4 DEF Tooling!Declaration, Tooling!CompletionsTool, Tooling!ResponsesTool
  <2>2. Tooling!CustomTool(t).form = "custom" /\ Tooling!CustomTool(t).name = t.name
    BY DEF Tooling!CustomTool
  <2>3. /\ Tooling!FunctionTool(t, m).form = "function" /\ Tooling!FunctionTool(t, m).name = t.name
        /\ Tooling!IsStrict(t, m) => Tooling!FunctionTool(t, m).strict = "yes"
    BY DEF Tooling!FunctionTool, Tooling!IsStrict
  <2> QED
    BY <1>2, <1>4, <2>1, <2>2, <2>3
<1> QED
  BY <1>3, <1>4

\* The tool that a call means, where the names of tools are told apart.
LEMMA Meant ==
  ASSUME ToolInv, Tooling!OneSpelling, wire # Tooling!Nothing,
         NEW i \in DOMAIN list, CallsTool(i, wire.by),
         NEW name, name = Tooling!FromClaudeCodeName(wire.name, wire.by)
  PROVE  /\ name = list[i].name
         /\ \A j \in DOMAIN list : Tooling!WireName(list[j].name, wire.by) = wire.name => j = i
         /\ Tooling!Named(name) = {i} /\ Tooling!Firstly({i}) = i
         /\ wire.form = "custom" =>
              Tooling!Arguments(wire, name, wire.by) = Tooling!OneArgument(Tooling!InputProperty(list[i]), "text")
         /\ wire.form \in {"custom", "function"}
         /\ wire.form = "function" <=> Tooling!Inputs(name, wire.by) = {}
         /\ wire.form = "custom" => wire.by.api # "anthropic"
         /\ \A n : Tooling!Inputs(name, n) # {} =>
              Tooling!InputOf(name, n) = Tooling!InputProperty(list[i])
<1> DEFINE m == wire.by
<1>0. Tooling!IsClient(m) /\ Tooling!IsList(list)
  BY DEF ToolInv, WireFits
<1>1. /\ Len(list) \in Nat /\ DOMAIN list = 1..Len(list)
      /\ \A j \in DOMAIN list : list[j].name \in [word : STRING, spelling : STRING]
  BY <1>0 DEF Tooling!IsList
<1>2. \A j, k \in DOMAIN list : list[j].name.word = list[k].name.word => j = k
  BY DEF Tooling!OneSpelling
<1>3. \A j \in DOMAIN list : Tooling!WireName(list[j].name, m).word = list[j].name.word
  BY <1>1 DEF Tooling!WireName, Tooling!ToClaudeCodeName
<1>4. wire.name = Tooling!WireName(list[i].name, m)
  BY DEF CallsTool
<1>5. \A j \in DOMAIN list : Tooling!WireName(list[j].name, m) = wire.name => j = i
  BY <1>2, <1>3, <1>4
<1>6. Tooling!Firstly({i}) = i
  BY <1>1 DEF Tooling!Firstly
<1>7. name = list[i].name
  <2> DEFINE same == {j \in DOMAIN list : list[j].name.word = wire.name.word}
  <2>1. same = {i}
    BY <1>2, <1>3, <1>4
  <2>2. name = IF ~ m.oauth \/ same = {} THEN wire.name ELSE list[Tooling!Firstly(same)].name
    BY DEF Tooling!FromClaudeCodeName
  <2>3. ~ m.oauth => wire.name = list[i].name
    BY <1>4 DEF Tooling!WireName
  <2> HIDE DEF same
  <2> QED
    BY <1>6, <2>1, <2>2, <2>3
<1>8. Tooling!Named(name) = {i}
  BY <1>2, <1>7 DEF Tooling!Named
<1>9. ASSUME NEW n
      PROVE  /\ Tooling!Inputs(name, n)
                  = IF n.api # "anthropic" /\ Tooling!AsksGrammar(list[i], n) THEN {i} ELSE {}
             /\ Tooling!Inputs(name, n) # {} =>
                  Tooling!InputOf(name, n) = Tooling!InputProperty(list[i])
  <2>1. Tooling!Inputs(name, n)
          = {j \in DOMAIN list : /\ n.api # "anthropic" /\ Tooling!AsksGrammar(list[j], n)
                                 /\ list[j].name = name}
    BY DEF Tooling!Inputs, Tooling!Grammars
  <2>2. {j \in DOMAIN list : list[j].name = name} = {i}
    BY <1>8 DEF Tooling!Named
  <2>3. Tooling!Inputs(name, n)
          = IF n.api # "anthropic" /\ Tooling!AsksGrammar(list[i], n) THEN {i} ELSE {}
    BY <2>1, <2>2
  <2>4. ASSUME Tooling!Inputs(name, n) = {i}
        PROVE  Tooling!InputOf(name, n) = Tooling!InputProperty(list[i])
    <3>1. (CHOOSE k \in {i} : \A j \in {i} : j <= k) = i
      BY <1>1
    <3> QED
      BY <2>4, <3>1 DEF Tooling!InputOf
  <2> QED
    BY <2>3, <2>4
<1>10. wire.form = IF Tooling!AsksGrammar(list[i], m) /\ m.api # "anthropic" THEN "custom" ELSE "function"
  BY <1>0, Forms DEF CallsTool
<1>11. wire.form = "custom" =>
         Tooling!Arguments(wire, name, m) = Tooling!OneArgument(Tooling!InputProperty(list[i]), "text")
  BY <1>0, <1>9, <1>10 DEF Tooling!Arguments
<1> QED
  BY <1>0, <1>5, <1>6, <1>7, <1>8, <1>9, <1>10, <1>11

\* Nothing has been declared or called at the start.
LEMMA ToolsInitial == MCInit => ToolInv
<1> SUFFICES ASSUME MCInit PROVE ToolInv
  OBVIOUS
<1>1. Tooling!IsList(list) /\ Tooling!IsClient(client) /\ Tooling!Unasked
  <2>1. CASE NoTools /\ Tooling!Unasked
    <3>1. Tooling!IsList(<<>>)
      BY DEF Tooling!IsList
    <3>2. Tooling!IsClient(Client("anthropic", FALSE, <<>>))
      BY DEF Tooling!IsClient, Client
    <3> QED
      BY <2>1, <3>1, <3>2 DEF NoTools
  <2>2. CASE Tooling!Init
    BY <2>2, DeclarationsAssumption DEF Tooling!Init, Tooling!Fit
  <2> QED
    BY <2>1, <2>2 DEF MCInit, ToolsRest
<1> QED
  BY <1>1 DEF ToolInv, Tooling!Unasked, Tooling!Nothing, WireFits, ReceivedFits, RunFits, SentFits, RefusedFits

\* What is received depends on the call and on the tools alone.
LEMMA HeardStays ==
  ASSUME UNCHANGED list, NEW call, NEW name, NEW m
  PROVE  /\ UNCHANGED Tooling!FromClaudeCodeName(name, m)
         /\ UNCHANGED Tooling!Arguments(call, name, m)
<1>1. \A S : UNCHANGED {i \in DOMAIN list : list[i].name.word = S}
  OBVIOUS
<1>2. UNCHANGED Tooling!FromClaudeCodeName(name, m)
  BY <1>1 DEF Tooling!FromClaudeCodeName
<1>3. UNCHANGED Tooling!Inputs(name, m)
  BY DEF Tooling!Inputs, Tooling!Grammars
<1>4. UNCHANGED Tooling!InputOf(name, m)
  BY <1>3 DEF Tooling!InputOf
<1>5. UNCHANGED Tooling!Arguments(call, name, m)
  BY <1>3, <1>4 DEF Tooling!Arguments
<1> QED
  BY <1>2, <1>5

\* What was sent stays as it should be while the list and the client do.
LEMMA RequestStays ==
  ASSUME SentFits, RefusedFits, UNCHANGED <<list, client, declared, received>>
  PROVE  SentFits' /\ RefusedFits'
<1>1. UNCHANGED Tooling!Told(received, client)
  BY DEF Tooling!Told, Tooling!Inputs, Tooling!Grammars
<1>2. PICK name, m : name = received.name /\ m = client
  OBVIOUS
<1>3. UNCHANGED Tooling!Inputs(name, m)
  BY DEF Tooling!Inputs, Tooling!Grammars
<1>4. UNCHANGED Tooling!InputOf(name, m)
  BY <1>3 DEF Tooling!InputOf
<1>5. UNCHANGED Tooling!TellRefused(received, client)
  BY <1>2, <1>3, <1>4 DEF Tooling!TellRefused
<1>6. SentFits'
  BY <1>1 DEF SentFits
<1>7. RefusedFits'
  BY <1>5 DEF RefusedFits
<1> QED
  BY <1>6, <1>7

\* What was called stays as it should be while the list does.
LEMMA CallStays ==
  ASSUME WireFits, ReceivedFits, UNCHANGED <<list, wire, received>>,
         client' = client \/ received # Tooling!Nothing
  PROVE  WireFits' /\ ReceivedFits'
<1>1. WireFits'
  BY DEF WireFits, CallsTool
<1>2. PICK call, name, m, told : call = wire /\ name = wire.name /\ m = wire.by /\ told = received.name
  OBVIOUS
<1>3. UNCHANGED Tooling!FromClaudeCodeName(name, m) /\ UNCHANGED Tooling!Arguments(call, told, m)
  BY HeardStays
<1>4. ReceivedFits'
  BY <1>2, <1>3 DEF ReceivedFits
<1> QED
  BY <1>1, <1>4

\* Every step of the tools keeps the invariant.
LEMMA ToolStep == ToolInv /\ [Tooling!Next]_Tooling!vars => ToolInv'
<1> SUFFICES ASSUME ToolInv, [Tooling!Next]_Tooling!vars
             PROVE  ToolInv'
  OBVIOUS
<1>0. /\ Tooling!IsList(list) /\ Tooling!IsClient(client)
      /\ WireFits /\ ReceivedFits /\ RunFits /\ SentFits /\ RefusedFits
  BY DEF ToolInv
<1>1. CASE Tooling!Ask
  <2>1. UNCHANGED <<list, client, wire, received, ran>>
    BY <1>1 DEF Tooling!Ask
  <2>2. WireFits' /\ ReceivedFits' /\ RunFits'
    BY <1>0, <2>1 DEF WireFits, ReceivedFits, RunFits, CallsTool, Tooling!WireName,
      Tooling!FromClaudeCodeName, Tooling!Arguments, Tooling!Inputs, Tooling!InputOf,
      Tooling!Grammars, Tooling!Named
  <2>3. CASE Tooling!Reasons(client) = <<>>
    <3>1. declared' = Tooling!Built
      BY <1>1, <2>3 DEF Tooling!Ask
    <3>2. SentFits'
      <4>1. /\ declared'.kind = "sent" /\ declared'.by = client
            /\ declared'.tools = [i \in DOMAIN list |-> Tooling!Declaration(list[i], client)]
            /\ declared'.call = IF received = Tooling!Nothing THEN <<>> ELSE <<Tooling!Told(received, client)>>
            /\ list # <<>> => declared'.named
        BY <3>1 DEF Tooling!Built
      <4>2. \A i \in DOMAIN list : ~ Tooling!StrictRefused(list[i], client)
        BY <2>3, ReasonsRead
      <4>3. received # Tooling!Nothing => list # <<>>
        BY <1>0 DEF ReceivedFits, WireFits
      <4>4. UNCHANGED Tooling!Told(received, client)
        BY <2>1 DEF Tooling!Told, Tooling!Inputs, Tooling!Grammars, Tooling!WireName
      <4> QED
        BY <2>1, <4>1, <4>2, <4>3, <4>4 DEF SentFits
    <3>3. RefusedFits'
      BY <3>1 DEF RefusedFits, Tooling!Built
    <3> QED
      BY <1>0, <2>1, <2>2, <3>2, <3>3 DEF ToolInv
  <2>4. CASE Tooling!Reasons(client) # <<>>
    <3>1. declared' = [kind |-> "refused", why |-> Head(Tooling!Reasons(client))]
      BY <1>1, <2>4 DEF Tooling!Ask
    <3>2. SentFits'
      BY <3>1 DEF SentFits
    <3>3. RefusedFits'
      BY <2>1, <2>4, <3>1, ReasonsRead DEF RefusedFits, Tooling!TellRefused, Tooling!Inputs,
        Tooling!InputOf, Tooling!Grammars
    <3> QED
      BY <1>0, <2>1, <2>2, <3>2, <3>3 DEF ToolInv
  <2> QED
    BY <2>3, <2>4
<1>2. CASE Tooling!Call
  <2>1. /\ UNCHANGED <<list, client, declared, received, ran>>
        /\ declared.kind = "sent" /\ wire = Tooling!Nothing
    BY <1>2 DEF Tooling!Call
  <2>2. PICK i \in DOMAIN declared.tools :
          \E p, v : wire' = [kind |-> "call", by |-> client, form |-> declared.tools[i].form,
                             name |-> declared.tools[i].name,
                             arguments |-> IF declared.tools[i].form = "custom"
                                           THEN [input |-> "text"] ELSE Tooling!OneArgument(p, v)]
    BY <1>2 DEF Tooling!Call
  <2>3. /\ i \in DOMAIN list
        /\ declared.tools[i] = Tooling!Declaration(list[i], client)
    BY <1>0, <2>1, <2>2 DEF SentFits
  <2>4. /\ wire'.kind = "call" /\ wire'.by = client
        /\ wire'.form = Tooling!Declaration(list[i], client).form
        /\ wire'.name = Tooling!Declaration(list[i], client).name
        /\ wire'.form = "custom" => wire'.arguments = [input |-> "text"]
    BY <2>2, <2>3
  <2>5. wire'.name = Tooling!WireName(list[i].name, client)
    BY <1>0, <2>3, <2>4, Forms
  <2>6. received = Tooling!Nothing
    BY <1>0, <2>1 DEF ReceivedFits
  <2>7. WireFits'
    BY <1>0, <2>1, <2>3, <2>4, <2>5, <2>6 DEF WireFits, CallsTool
  <2>8. ReceivedFits' /\ RunFits' /\ SentFits' /\ RefusedFits'
    BY <1>0, <2>1, <2>6 DEF ReceivedFits, RunFits, SentFits, RefusedFits
  <2> QED
    BY <1>0, <2>1, <2>7, <2>8 DEF ToolInv
<1>3. CASE Tooling!Receive
  <2>1. /\ UNCHANGED <<list, client, declared, wire, ran>>
        /\ wire # Tooling!Nothing /\ received = Tooling!Nothing
    BY <1>3 DEF Tooling!Receive
  <2>2. client = wire.by
    BY <1>0, <2>1 DEF WireFits
  <2>3. PICK name : name = Tooling!FromClaudeCodeName(wire.name, client)
    OBVIOUS
  <2>4. received' = [kind |-> "call", name |-> name, arguments |-> Tooling!Arguments(wire, name, client)]
    BY <1>3, <2>3 DEF Tooling!Receive
  <2>5. received' # Tooling!Nothing
    BY <2>4 DEF Tooling!Nothing
  <2>6. ReceivedFits'
    <3>1. PICK call, told, m : call = wire /\ told = wire.name /\ m = client
      OBVIOUS
    <3>2. UNCHANGED Tooling!FromClaudeCodeName(told, m) /\ UNCHANGED Tooling!Arguments(call, name, m)
      BY <2>1, HeardStays
    <3>3. name = Tooling!FromClaudeCodeName(told, m)'
      BY <2>3, <3>1, <3>2
    <3>4. received'.arguments = Tooling!Arguments(call, name, m)'
      BY <2>4, <3>1, <3>2
    <3> QED
      BY <2>1, <2>2, <2>4, <3>1, <3>3, <3>4 DEF ReceivedFits
  <2>7. WireFits' /\ RunFits' /\ SentFits' /\ RefusedFits'
    BY <1>0, <2>1, <2>5 DEF WireFits, CallsTool, RunFits, SentFits, RefusedFits
  <2> QED
    BY <1>0, <2>1, <2>6, <2>7 DEF ToolInv
<1>4. CASE Tooling!Run
  <2>1. /\ UNCHANGED <<list, client, declared, wire, received>>
        /\ received # Tooling!Nothing
        /\ ran' = Tooling!Firstly(Tooling!Named(received.name))
    BY <1>4 DEF Tooling!Run
  <2>2. UNCHANGED Tooling!Named(received.name)
    BY <2>1 DEF Tooling!Named
  <2>3. RunFits'
    BY <2>1, <2>2 DEF RunFits
  <2>4. WireFits' /\ ReceivedFits'
    BY <1>0, <2>1, CallStays
  <2>5. SentFits' /\ RefusedFits'
    BY <1>0, <2>1, RequestStays
  <2> QED
    BY <1>0, <2>1, <2>3, <2>4, <2>5 DEF ToolInv
<1>5. CASE Tooling!NextTurn
  <2>1. /\ UNCHANGED <<list, wire, received, ran>>
        /\ ran # 0 /\ client' \in Clients /\ declared' = Tooling!Nothing
    BY <1>5 DEF Tooling!NextTurn
  <2>2. Tooling!IsClient(client)'
    BY <2>1, DeclarationsAssumption DEF Tooling!Fit, Tooling!IsClient
  <2>3. SentFits' /\ RefusedFits'
    BY <2>1 DEF SentFits, RefusedFits, Tooling!Nothing
  <2>4. UNCHANGED Tooling!Named(received.name)
    BY <2>1 DEF Tooling!Named
  <2>5. RunFits'
    BY <1>0, <2>1, <2>4 DEF RunFits
  <2>6. WireFits'
    BY <1>0, <2>1 DEF WireFits, RunFits, CallsTool
  <2>7. received # Tooling!Nothing
    BY <1>0, <2>1 DEF RunFits
  <2>8. ReceivedFits'
    BY <1>0, <2>1, <2>7, CallStays
  <2> QED
    BY <1>0, <2>1, <2>2, <2>3, <2>5, <2>6, <2>8 DEF ToolInv
<1>6. CASE UNCHANGED Tooling!vars
  <2>1. UNCHANGED <<list, client, declared, wire, received, ran>>
    BY <1>6 DEF Tooling!vars
  <2>2. UNCHANGED Tooling!Named(received.name)
    BY <2>1 DEF Tooling!Named
  <2>3. RunFits'
    BY <1>0, <2>1, <2>2 DEF RunFits
  <2>4. WireFits' /\ ReceivedFits'
    BY <1>0, <2>1, CallStays
  <2>5. SentFits' /\ RefusedFits'
    BY <1>0, <2>1, RequestStays
  <2> QED
    BY <1>0, <2>1, <2>3, <2>4, <2>5 DEF ToolInv
<1> QED
  BY <1>1, <1>2, <1>3, <1>4, <1>5, <1>6 DEF Tooling!Next

\* The tools of a request are declared as the property says.
LEMMA DeclaredWell ==
  ASSUME ToolInv, declared.kind = "sent", NEW i \in DOMAIN list
  PROVE  /\ list[i].sampling = "require" => declared.tools[i].strict = "yes"
         /\ Tooling!AsksGrammar(list[i], declared.by) /\ declared.by.api # "anthropic" =>
              declared.tools[i].form = "custom"
         /\ declared.call # <<>> => declared.named
<1>1. /\ Tooling!IsClient(client) /\ declared.by = client
      /\ declared.tools[i] = Tooling!Declaration(list[i], client)
      /\ ~ Tooling!StrictRefused(list[i], client)
      /\ declared.call # <<>> => declared.named
  BY DEF ToolInv, SentFits
<1>2. list[i].sampling = "require" =>
        Tooling!IsStrict(list[i], client) /\ ~ Tooling!AsksGrammar(list[i], client)
  BY <1>1 DEF Tooling!StrictRefused, Tooling!IsStrict, Tooling!AsksGrammar
<1> QED
  BY <1>1, <1>2, Forms

\* What is received and run is what the model called.
LEMMA HeardWell ==
  ASSUME ToolInv, Tooling!OneSpelling, received # Tooling!Nothing
  PROVE  /\ Tooling!Named(received.name) # {}
         /\ \A i \in DOMAIN list :
              Tooling!WireName(list[i].name, wire.by) = wire.name =>
                /\ ran \in {0, i}
                /\ wire.form = "custom" =>
                     received.arguments = Tooling!OneArgument(Tooling!InputProperty(list[i]), "text")
         /\ \A i \in DOMAIN declared.call :
              declared.kind = "sent" /\ declared.by = wire.by =>
                declared.call[i] = [form |-> wire.form, name |-> wire.name, arguments |-> wire.arguments]
         /\ declared.kind = "refused" /\ declared.why = "told" => wire.form = "function"
<1>1. /\ wire # Tooling!Nothing
      /\ received.name = Tooling!FromClaudeCodeName(wire.name, wire.by)
      /\ received.arguments = Tooling!Arguments(wire, received.name, wire.by)
      /\ RunFits /\ SentFits /\ RefusedFits
  BY DEF ToolInv, ReceivedFits
<1>2. PICK t \in DOMAIN list : CallsTool(t, wire.by)
  BY <1>1 DEF ToolInv, WireFits
<1>3. /\ received.name = list[t].name
      /\ \A j \in DOMAIN list : Tooling!WireName(list[j].name, wire.by) = wire.name => j = t
      /\ Tooling!Named(received.name) = {t} /\ Tooling!Firstly({t}) = t
      /\ wire.form = "custom" =>
           received.arguments = Tooling!OneArgument(Tooling!InputProperty(list[t]), "text")
      /\ wire.form \in {"custom", "function"}
      /\ wire.form = "function" <=> Tooling!Inputs(received.name, wire.by) = {}
      /\ wire.form = "custom" => wire.by.api # "anthropic"
      /\ \A n : Tooling!Inputs(received.name, n) # {} =>
           Tooling!InputOf(received.name, n) = Tooling!InputProperty(list[t])
  BY <1>1, <1>2, Meant
<1>4. ran \in {0, t}
  BY <1>1, <1>3 DEF RunFits
<1>5. ASSUME NEW i \in DOMAIN declared.call, declared.kind = "sent", declared.by = wire.by
      PROVE  declared.call[i] = [form |-> wire.form, name |-> wire.name, arguments |-> wire.arguments]
  <2>1. declared.call = <<Tooling!Told(received, wire.by)>>
    BY <1>1, <1>5 DEF SentFits
  <2>2. declared.call[i] = Tooling!Told(received, wire.by)
    BY <1>5, <2>1
  <2>3. CASE wire.form = "function"
    <3>1. Tooling!Inputs(received.name, wire.by) = {}
      BY <1>3, <2>3
    <3>2. received.arguments = wire.arguments
      BY <1>1, <2>3 DEF Tooling!Arguments
    <3>3. Tooling!WireName(received.name, wire.by) = wire.name
      BY <1>2, <1>3 DEF CallsTool
    <3> QED
      BY <2>2, <2>3, <3>1, <3>2, <3>3 DEF Tooling!Told
  <2>4. CASE wire.form = "custom"
    <3>1. Tooling!Inputs(received.name, wire.by) # {}
      BY <1>3, <2>4
    <3>2. wire.arguments = [input |-> "text"]
      BY <1>2, <2>4 DEF CallsTool
    <3>3. ~ wire.by.oauth
      BY <1>1, <1>3, <2>4 DEF ToolInv, WireFits, Tooling!IsClient
    <3>4. received.name = wire.name
      BY <1>2, <1>3, <3>3 DEF CallsTool, Tooling!WireName
    <3> QED
      BY <2>2, <2>4, <3>1, <3>2, <3>4 DEF Tooling!Told
  <2> QED
    BY <1>3, <2>3, <2>4
<1>6. ASSUME declared.kind = "refused", declared.why = "told", wire.form = "custom"
      PROVE  FALSE
  <2>1. /\ Tooling!Inputs(received.name, client) # {}
        /\ ~ \E p \in DOMAIN received.arguments :
              p = Tooling!InputOf(received.name, client) /\ received.arguments[p] = "text"
    BY <1>1, <1>6 DEF RefusedFits, Tooling!TellRefused
  <2>2. PICK p : p = Tooling!InputProperty(list[t])
    OBVIOUS
  <2>3. received.arguments = Tooling!OneArgument(p, "text") /\ p = Tooling!InputOf(received.name, client)
    BY <1>3, <1>6, <2>1, <2>2
  <2>4. p \in DOMAIN received.arguments /\ received.arguments[p] = "text"
    BY <2>3 DEF Tooling!OneArgument
  <2> QED
    BY <2>1, <2>3, <2>4
<1> QED
  BY <1>3, <1>4, <1>5, <1>6

\* What the model calls is what runs, with the input it was given, and it is
\* told again as it was made: declarations, streams, the agent and the next
\* request agree on names, grammars and arguments for every list of tools.
THEOREM CallsReachTheirTools == MCSpec => []ToolsAsDeclared
<1>1. ToolInv => ToolsAsDeclared
  <2> SUFFICES ASSUME ToolInv PROVE Tooling!ToolsAsDeclared
    BY DEF ToolsAsDeclared
  <2>1. declared.kind = "sent" =>
          \A i \in DOMAIN list :
            /\ list[i].sampling = "require" => declared.tools[i].strict = "yes"
            /\ Tooling!AsksGrammar(list[i], declared.by) /\ declared.by.api # "anthropic" =>
                 declared.tools[i].form = "custom"
            /\ declared.call # <<>> => declared.named
    BY DeclaredWell
  <2>2. received = Tooling!Nothing /\ declared.kind = "sent" => declared.call = <<>>
    BY DEF ToolInv, SentFits
  <2>3. received = Tooling!Nothing => ~ (declared.kind = "refused" /\ declared.why = "told")
    BY DEF ToolInv, RefusedFits
  <2>4. DOMAIN <<>> = {}
    OBVIOUS
  <2> QED
    BY <2>1, <2>2, <2>3, <2>4, HeardWell DEF Tooling!ToolsAsDeclared
<1>2. ToolInv /\ [MCNext]_<<vars, budgetVars, optionVars, accessVars, toolVars, accountVars>>
        => ToolInv'
  BY ToolSteps, ToolStep
<1> QED
  BY <1>1, <1>2, ToolsInitial, PTL DEF MCSpec

-----------------------------------------------------------------------------
(* Access.                                                                 *)

\* Secrets that a provider object holds: a token of the environment is in the
\* place of a key.
HeldKeys == Keys!OrNone("builder", Keys!Forms)
HeldTokens == Keys!OrNone("token", Keys!Forms) \cup HeldKeys

IsProvider(p) ==
  /\ p.kind \in Keys!Kinds /\ p.id \in {p.kind, "own"}
  /\ p.key \in HeldKeys /\ p.token \in HeldTokens
  /\ p.token # Keys!None => p.kind = "anthropic"
  /\ p.token \in HeldKeys \ {Keys!None} => p.key = Keys!None
  /\ p.kind = "openai" => p.api \in Keys!OpenAiApi
  /\ p.kind = "github-copilot" => p.api \in Keys!CopilotApi

ProviderApis(kind) ==
  CASE kind = "openai" -> Keys!OpenAiApi
    [] kind = "anthropic" -> {"anthropic-messages"}
    [] kind = "openrouter" -> {"openrouter-images"}
    [] kind = "github-copilot" -> (Keys!CopilotApi \ {"by model"}) \cup {"openai-embeddings"}

IsModelOf(p, m) ==
  /\ m.kind = "model" /\ m.provider = p.id
  /\ m.api \in ProviderApis(p.kind) /\ m.can = Keys!Capability(m.api)
  /\ m.authorization \in Keys!OrNone("model", {"plain"})

AccessInv ==
  /\ provider.kind \in Keys!Kinds => IsProvider(provider)
  /\ provider.kind \in Keys!Kinds \cup {"nothing", "MissingApiKey"}
  /\ model.kind = "model" => provider.kind \in Keys!Kinds /\ IsModelOf(provider, model)
  /\ model = Keys!Nothing \/ provider.kind \in Keys!Kinds
  /\ outcome = Keys!Nothing \/ model.kind = "model"
  /\ Keys!CredentialsInOrder

\* A step of the module is one of the access to a provider, or leaves it alone.
LEMMA AccessSteps ==
  ASSUME [MCNext]_<<vars, budgetVars, optionVars, accessVars, toolVars, accountVars>>
  PROVE  [Keys!Next]_Keys!vars
<1> USE DEF accessVars, Keys!vars
<1>1. CASE MCNext
  BY <1>1, ZenonT(40) DEF MCNext
<1>2. CASE UNCHANGED <<vars, budgetVars, optionVars, accessVars, toolVars, accountVars>>
  BY <1>2
<1> QED
  BY <1>1, <1>2

\* A secret alone is the first of one if it has content.
LEMMA FirstOfOne ==
  ASSUME NEW a
  PROVE  Keys!First(<<a>>) = IF ~ Keys!IsBlank(a) THEN a ELSE Keys!None
<1> DEFINE s == <<a>>
           real == {i \in DOMAIN s : ~ Keys!IsBlank(s[i])}
<1>1. DOMAIN s = {1} /\ s[1] = a
  OBVIOUS
<1>2. Keys!First(s) = IF real = {} THEN Keys!None ELSE s[Keys!Firstly(real)]
  BY DEF Keys!First
<1>3. Keys!Firstly({1}) = 1
  BY DEF Keys!Firstly
<1> HIDE DEF s
<1>4. real = IF Keys!IsBlank(a) THEN {} ELSE {1}
  BY <1>1
<1> HIDE DEF real
<1>5. Keys!First(s) = IF ~ Keys!IsBlank(a) THEN a ELSE Keys!None
  BY <1>1, <1>2, <1>3, <1>4
<1> QED
  BY <1>5 DEF s

\* The first secret of two, and of three, that has content.
LEMMA FirstOfTwo ==
  ASSUME NEW a, NEW b
  PROVE  Keys!First(<<a, b>>)
           = IF ~ Keys!IsBlank(a) THEN a ELSE IF ~ Keys!IsBlank(b) THEN b ELSE Keys!None
<1> DEFINE s == <<a, b>>
           real == {i \in DOMAIN s : ~ Keys!IsBlank(s[i])}
<1>1. DOMAIN s = {1, 2} /\ s[1] = a /\ s[2] = b
  OBVIOUS
<1>2. Keys!First(s) = IF real = {} THEN Keys!None ELSE s[Keys!Firstly(real)]
  BY DEF Keys!First
<1> HIDE DEF s
<1>3. CASE ~ Keys!IsBlank(a)
  <2>1. Keys!Firstly(real) = 1
    BY <1>1, <1>3 DEF Keys!Firstly
  <2> QED
    BY <1>1, <1>2, <1>3, <2>1 DEF s
<1>4. CASE Keys!IsBlank(a) /\ ~ Keys!IsBlank(b)
  <2>1. real = {2}
    BY <1>1, <1>4
  <2>2. Keys!Firstly(real) = 2
    BY <2>1 DEF Keys!Firstly
  <2> QED
    BY <1>1, <1>2, <1>4, <2>1, <2>2 DEF s
<1>5. CASE Keys!IsBlank(a) /\ Keys!IsBlank(b)
  <2>1. real = {}
    BY <1>1, <1>5
  <2> QED
    BY <1>2, <1>5, <2>1 DEF s
<1> QED
  BY <1>3, <1>4, <1>5

\* The same of three.
LEMMA FirstOfThree ==
  ASSUME NEW a, NEW b, NEW c
  PROVE  Keys!First(<<a, b, c>>)
           = IF ~ Keys!IsBlank(a) THEN a ELSE IF ~ Keys!IsBlank(b) THEN b
             ELSE IF ~ Keys!IsBlank(c) THEN c ELSE Keys!None
<1> DEFINE s == <<a, b, c>>
           real == {i \in DOMAIN s : ~ Keys!IsBlank(s[i])}
<1>1. DOMAIN s = {1, 2, 3} /\ s[1] = a /\ s[2] = b /\ s[3] = c
  OBVIOUS
<1>2. Keys!First(s) = IF real = {} THEN Keys!None ELSE s[Keys!Firstly(real)]
  BY DEF Keys!First
<1> HIDE DEF s
<1>3. CASE ~ Keys!IsBlank(a)
  <2>1. Keys!Firstly(real) = 1
    BY <1>1, <1>3 DEF Keys!Firstly
  <2> QED
    BY <1>1, <1>2, <1>3, <2>1 DEF s
<1>4. CASE Keys!IsBlank(a) /\ ~ Keys!IsBlank(b)
  <2>1. 2 \in real /\ \A j \in real : 2 <= j
    BY <1>1, <1>4
  <2>2. Keys!Firstly(real) = 2
    BY <1>1, <1>4, <2>1 DEF Keys!Firstly
  <2> QED
    BY <1>1, <1>2, <1>4, <2>1, <2>2 DEF s
<1>5. CASE Keys!IsBlank(a) /\ Keys!IsBlank(b) /\ ~ Keys!IsBlank(c)
  <2>1. real = {3}
    BY <1>1, <1>5
  <2>2. Keys!Firstly(real) = 3
    BY <2>1 DEF Keys!Firstly
  <2> QED
    BY <1>1, <1>2, <1>5, <2>1, <2>2 DEF s
<1>6. CASE Keys!IsBlank(a) /\ Keys!IsBlank(b) /\ Keys!IsBlank(c)
  <2>1. real = {}
    BY <1>1, <1>6
  <2> QED
    BY <1>2, <1>6, <2>1 DEF s
<1> QED
  BY <1>3, <1>4, <1>5, <1>6

\* Keys of the environment and its token are told apart; they are not empty, but
\* may be spaces.
EnvForms == {"blank", "plain", "oauth"}
EnvKeys ==
  {Keys!Variable(from, name, form) :
     from \in {"scoped", "process"}, name \in Keys!Variables \ {"ANTHROPIC_AUTH_TOKEN"},
     form \in EnvForms}
EnvTokens ==
  {Keys!Variable(from, "ANTHROPIC_AUTH_TOKEN", form) : from \in {"scoped", "process"}, form \in EnvForms}

IsEnv(o) ==
  o.scoped \in [Keys!Variables -> Keys!Values] /\ o.process \in [Keys!Variables -> Keys!Values]

EnvToken(o) == Keys!ProviderEnvValue("ANTHROPIC_AUTH_TOKEN", o)
EnvKey(o) == Keys!EnvApiKey(model.provider, o)

\* Secrets by where they come from.
LEMMA Secrets ==
  /\ \A s \in EnvKeys : s.from \in {"scoped", "process"} /\ s.name # "ANTHROPIC_AUTH_TOKEN"
       /\ s.form \in EnvForms
  /\ \A s \in EnvTokens : s.from \in {"scoped", "process"} /\ s.name = "ANTHROPIC_AUTH_TOKEN"
       /\ s.form \in EnvForms
  /\ \A from, forms : \A s \in Keys!OrNone(from, forms) :
       s = Keys!None \/ (s.from = from /\ s.form \in forms)
  /\ Keys!None.from = "nowhere" /\ Keys!None.form = "none"
<1>1. \A s \in EnvKeys : s.from \in {"scoped", "process"} /\ s.name # "ANTHROPIC_AUTH_TOKEN"
        /\ s.form \in EnvForms
  BY DEF EnvKeys, Keys!Variable
<1>2. \A s \in EnvTokens : s.from \in {"scoped", "process"} /\ s.name = "ANTHROPIC_AUTH_TOKEN"
        /\ s.form \in EnvForms
  BY DEF EnvTokens, Keys!Variable
<1>3. ASSUME NEW from, NEW forms, NEW s \in Keys!OrNone(from, forms)
      PROVE  s = Keys!None \/ (s.from = from /\ s.form \in forms)
  BY DEF Keys!OrNone, Keys!Secret, Keys!Variable
<1>4. Keys!None.from = "nowhere" /\ Keys!None.form = "none"
  BY DEF Keys!None, Keys!Secret, Keys!Variable
<1> QED
  BY <1>1, <1>2, <1>3, <1>4

\* What a variable of the environment is read as.
LEMMA EnvValues ==
  ASSUME NEW o, IsEnv(o)
  PROVE  /\ Keys!ProviderEnvValue("ANTHROPIC_AUTH_TOKEN", o) \in EnvTokens \cup {Keys!None}
         /\ \A v \in Keys!Variables \ {"ANTHROPIC_AUTH_TOKEN"} :
              Keys!ProviderEnvValue(v, o) \in EnvKeys \cup {Keys!None}
<1>1. ASSUME NEW v \in Keys!Variables
      PROVE  \E from \in {"scoped", "process"}, form \in EnvForms :
               Keys!ProviderEnvValue(v, o) \in {Keys!Variable(from, v, form), Keys!None}
  <2>1. o.scoped[v] \in Keys!Values /\ o.process[v] \in Keys!Values
    BY DEF IsEnv
  <2>2. \A form \in Keys!Values : Keys!IsSet(form) => form \in EnvForms
    BY DEF Keys!Values, Keys!Forms, Keys!IsSet, EnvForms
  <2>3. "plain" \in EnvForms
    BY DEF EnvForms
  <2> QED
    BY <2>1, <2>2, <2>3 DEF Keys!ProviderEnvValue
<1>2. "ANTHROPIC_AUTH_TOKEN" \in Keys!Variables
  BY DEF Keys!Variables
<1>3. Keys!ProviderEnvValue("ANTHROPIC_AUTH_TOKEN", o) \in EnvTokens \cup {Keys!None}
  BY <1>1, <1>2 DEF EnvTokens
<1>4. ASSUME NEW v \in Keys!Variables \ {"ANTHROPIC_AUTH_TOKEN"}
      PROVE  Keys!ProviderEnvValue(v, o) \in EnvKeys \cup {Keys!None}
  BY <1>1 DEF EnvKeys
<1> QED
  BY <1>3, <1>4

\* Which variable the key of a provider is.
LEMMA EnvKeyIs ==
  ASSUME NEW id, NEW o
  PROVE  /\ id = "anthropic" =>
              Keys!EnvApiKey(id, o) =
                IF Keys!ProviderEnvValue("ANTHROPIC_OAUTH_TOKEN", o) # Keys!None
                THEN Keys!ProviderEnvValue("ANTHROPIC_OAUTH_TOKEN", o)
                ELSE Keys!ProviderEnvValue("ANTHROPIC_API_KEY", o)
         /\ id # "anthropic" =>
              \/ \E v \in Keys!Variables \ {"ANTHROPIC_AUTH_TOKEN"} :
                   /\ Keys!KeyVariables(id) = <<v>>
                   /\ Keys!EnvApiKey(id, o) = Keys!ProviderEnvValue(v, o)
              \/ Keys!KeyVariables(id) = <<>> /\ Keys!EnvApiKey(id, o) = Keys!None
<1> DEFINE Value(v) == Keys!ProviderEnvValue(v, o)
<1>1. PICK variables : variables = Keys!KeyVariables(id)
  OBVIOUS
<1>2. PICK found : found = {i \in DOMAIN variables : Value(variables[i]) # Keys!None}
  OBVIOUS
<1>3. Keys!EnvApiKey(id, o) = IF found = {} THEN Keys!None ELSE Value(variables[Keys!Firstly(found)])
  BY <1>1, <1>2 DEF Keys!EnvApiKey
<1> HIDE DEF Value
<1>4. Keys!Firstly({1}) = 1 /\ Keys!Firstly({2}) = 2 /\ Keys!Firstly({1, 2}) = 1
  BY DEF Keys!Firstly
<1>5. ASSUME id = "anthropic"
      PROVE  Keys!EnvApiKey(id, o) =
               IF Value("ANTHROPIC_OAUTH_TOKEN") # Keys!None THEN Value("ANTHROPIC_OAUTH_TOKEN")
               ELSE Value("ANTHROPIC_API_KEY")
  <2>1. variables = <<"ANTHROPIC_OAUTH_TOKEN", "ANTHROPIC_API_KEY">>
    BY <1>1, <1>5 DEF Keys!KeyVariables
  <2>2. /\ DOMAIN variables = {1, 2}
        /\ variables[1] = "ANTHROPIC_OAUTH_TOKEN" /\ variables[2] = "ANTHROPIC_API_KEY"
    BY <2>1
  <2>3. found = (IF Value("ANTHROPIC_OAUTH_TOKEN") # Keys!None THEN {1} ELSE {})
                \cup (IF Value("ANTHROPIC_API_KEY") # Keys!None THEN {2} ELSE {})
    BY <1>2, <2>2
  <2>4. CASE Value("ANTHROPIC_OAUTH_TOKEN") # Keys!None
    <3>1. found = {1} \/ found = {1, 2}
      BY <2>3, <2>4
    <3> QED
      BY <1>3, <1>4, <2>2, <2>4, <3>1
  <2>5. CASE Value("ANTHROPIC_OAUTH_TOKEN") = Keys!None
    <3>1. found = IF Value("ANTHROPIC_API_KEY") # Keys!None THEN {2} ELSE {}
      BY <2>3, <2>5
    <3> QED
      BY <1>3, <1>4, <2>2, <2>5, <3>1
  <2> QED
    BY <2>4, <2>5
<1>6. ASSUME NEW v, variables = <<v>>
      PROVE  Keys!EnvApiKey(id, o) = Value(v)
  <2>1. DOMAIN variables = {1} /\ variables[1] = v
    BY <1>6
  <2>2. found = IF Value(v) # Keys!None THEN {1} ELSE {}
    BY <1>2, <2>1
  <2> QED
    BY <1>3, <1>4, <2>1, <2>2
<1>7. ASSUME id \in {"openai", "openrouter", "github-copilot"}
      PROVE  \E v \in Keys!Variables \ {"ANTHROPIC_AUTH_TOKEN"} :
               variables = <<v>> /\ Keys!EnvApiKey(id, o) = Value(v)
  <2>1. \E v \in Keys!Variables \ {"ANTHROPIC_AUTH_TOKEN"} : variables = <<v>>
    BY <1>1, <1>7 DEF Keys!KeyVariables, Keys!Variables
  <2> QED
    BY <1>6, <2>1
<1>8. ASSUME id \notin {"anthropic", "openai", "openrouter", "github-copilot"}
      PROVE  variables = <<>> /\ Keys!EnvApiKey(id, o) = Keys!None
  <2>1. variables = <<>>
    BY <1>1, <1>8 DEF Keys!KeyVariables
  <2>2. found = {}
    BY <1>2, <2>1
  <2> QED
    BY <1>3, <2>1, <2>2
<1> QED
  BY <1>1, <1>5, <1>7, <1>8 DEF Value

\* The key that is found among the variables of a provider.
LEMMA EnvKeyFound ==
  ASSUME NEW id, NEW o, IsEnv(o)
  PROVE  Keys!EnvApiKey(id, o) \in EnvKeys \cup {Keys!None}
<1>1. {"ANTHROPIC_OAUTH_TOKEN", "ANTHROPIC_API_KEY"} \subseteq Keys!Variables \ {"ANTHROPIC_AUTH_TOKEN"}
  BY DEF Keys!Variables
<1>2. \A v \in Keys!Variables \ {"ANTHROPIC_AUTH_TOKEN"} :
        Keys!ProviderEnvValue(v, o) \in EnvKeys \cup {Keys!None}
  BY EnvValues
<1>3. CASE id = "anthropic"
  BY <1>1, <1>2, <1>3, EnvKeyIs
<1>4. CASE id # "anthropic"
  BY <1>2, <1>4, EnvKeyIs
<1> QED
  BY <1>3, <1>4

\* A key of the environment is passed over only if spaces hide it.
LEMMA HiddenAlone ==
  ASSUME NEW o, IsEnv(o), Keys!IsBlank(EnvKey(o)), NEW v \in Keys!Offered(o)
  PROVE  Keys!Hidden(v, o)
<1>1. /\ v \in Keys!Range(Keys!KeyVariables(model.provider))
      /\ \E form \in {o.scoped[v], o.process[v]} : Keys!IsSet(form) /\ form # "blank"
  BY DEF Keys!Offered
<1>2. ASSUME NEW w \in Keys!Variables
      PROVE  /\ Keys!ProviderEnvValue(w, o) = Keys!None \/ Keys!ProviderEnvValue(w, o).form \in EnvForms
             /\ Keys!ProviderEnvValue(w, o) = Keys!None =>
                  ~ Keys!IsSet(o.scoped[w]) /\ ~ Keys!IsSet(o.process[w])
             /\ Keys!ProviderEnvValue(w, o).form = "blank" =>
                  o.scoped[w] = "blank" \/ (~ Keys!IsSet(o.scoped[w]) /\ o.process[w] = "blank")
  <2>1. PICK value : value = Keys!ProviderEnvValue(w, o)
    OBVIOUS
  <2>2. value \in EnvKeys \cup EnvTokens \cup {Keys!None}
    BY <2>1, EnvValues
  <2>3. value = Keys!None \/ value.form \in EnvForms
    BY <2>2, Secrets
  <2>4. \A from, form : Keys!Variable(from, w, form).form = form /\ Keys!Variable(from, w, form).from = from
    BY DEF Keys!Variable
  <2>5. Keys!None.from = "nowhere" /\ Keys!None.form = "none"
    BY Secrets
  <2>6. value = IF Keys!IsSet(o.scoped[w]) THEN Keys!Variable("scoped", w, o.scoped[w])
                ELSE IF Keys!IsSet(o.process[w]) THEN Keys!Variable("process", w, o.process[w])
                ELSE Keys!None
    BY <2>1 DEF Keys!ProviderEnvValue
  <2>7. Keys!Variable("scoped", w, o.scoped[w]) # Keys!None
        /\ Keys!Variable("process", w, o.process[w]) # Keys!None
    BY <2>4, <2>5
  <2>8. value = Keys!None => ~ Keys!IsSet(o.scoped[w]) /\ ~ Keys!IsSet(o.process[w])
    BY <2>6, <2>7
  <2>9. value.form = "blank" =>
          o.scoped[w] = "blank" \/ (~ Keys!IsSet(o.scoped[w]) /\ o.process[w] = "blank")
    BY <2>4, <2>5, <2>6
  <2> QED
    BY <2>1, <2>3, <2>8, <2>9
<1>3. /\ "ANTHROPIC_OAUTH_TOKEN" \in Keys!Variables /\ "ANTHROPIC_API_KEY" \in Keys!Variables
  BY DEF Keys!Variables
<1>4. ASSUME NEW w \in Keys!Variables, v = w, Keys!IsBlank(Keys!ProviderEnvValue(w, o))
      PROVE  Keys!Hidden(v, o)
  <2>1. Keys!ProviderEnvValue(w, o) # Keys!None
    BY <1>1, <1>2, <1>4
  <2>2. Keys!ProviderEnvValue(w, o).form = "blank"
    BY <1>2, <1>4, <2>1 DEF Keys!IsBlank, EnvForms
  <2> QED
    BY <1>1, <1>2, <1>4, <2>2 DEF Keys!Hidden
<1>5. CASE model.provider = "anthropic"
  <2>1. v \in {"ANTHROPIC_OAUTH_TOKEN", "ANTHROPIC_API_KEY"}
    <3>1. Keys!KeyVariables(model.provider) = <<"ANTHROPIC_OAUTH_TOKEN", "ANTHROPIC_API_KEY">>
      BY <1>5 DEF Keys!KeyVariables
    <3> QED
      BY <1>1, <3>1 DEF Keys!Range
  <2>2. EnvKey(o) = IF Keys!ProviderEnvValue("ANTHROPIC_OAUTH_TOKEN", o) # Keys!None
                    THEN Keys!ProviderEnvValue("ANTHROPIC_OAUTH_TOKEN", o)
                    ELSE Keys!ProviderEnvValue("ANTHROPIC_API_KEY", o)
    BY <1>5, EnvKeyIs DEF EnvKey
  <2>3. CASE Keys!ProviderEnvValue("ANTHROPIC_OAUTH_TOKEN", o) = Keys!None
    <3>1. v = "ANTHROPIC_API_KEY"
      BY <1>1, <1>2, <1>3, <2>1, <2>3
    <3> QED
      BY <1>3, <1>4, <2>2, <2>3, <3>1
  <2>4. CASE Keys!ProviderEnvValue("ANTHROPIC_OAUTH_TOKEN", o) # Keys!None
    <3>1. Keys!IsBlank(Keys!ProviderEnvValue("ANTHROPIC_OAUTH_TOKEN", o))
      BY <2>2, <2>4
    <3>2. Keys!ProviderEnvValue("ANTHROPIC_OAUTH_TOKEN", o).form = "blank"
      BY <1>2, <1>3, <2>4, <3>1 DEF Keys!IsBlank, EnvForms
    <3> QED
      BY <1>3, <1>4, <2>1, <3>1, <3>2 DEF Keys!Hidden
  <2> QED
    BY <2>3, <2>4
<1>6. CASE model.provider # "anthropic"
  <2>1. CASE Keys!KeyVariables(model.provider) = <<>>
    BY <1>1, <2>1 DEF Keys!Range
  <2>2. CASE Keys!KeyVariables(model.provider) # <<>>
    <3>1. PICK w \in Keys!Variables :
            /\ Keys!KeyVariables(model.provider) = <<w>>
            /\ EnvKey(o) = Keys!ProviderEnvValue(w, o)
      BY <1>6, <2>2, EnvKeyIs DEF EnvKey
    <3>2. v = w
      BY <1>1, <3>1 DEF Keys!Range
    <3> QED
      BY <1>4, <3>1, <3>2
  <2> QED
    BY <2>1, <2>2
<1> QED
  BY <1>5, <1>6

\* What a builder makes is a provider.
LEMMA BuiltIsProvider ==
  ASSUME NEW kind \in Keys!Kinds, NEW b, b.id \in {"default", "own"}, b.api \in Keys!Apis(kind),
         b.key \in HeldKeys, b.token \in HeldTokens,
         kind # "anthropic" => b.token = Keys!None,
         b.token \in HeldKeys \ {Keys!None} => b.key = Keys!None
  PROVE  IsProvider(Keys!Built(kind, b)) /\ Keys!Built(kind, b).kind = kind
<1> DEFINE id == IF b.id = "default" THEN kind ELSE b.id
<1>1. id \in {kind, "own"}
  OBVIOUS
<1>2. Keys!Content(b.key) \in HeldKeys /\ Keys!None \in HeldTokens
  BY DEF Keys!Content, HeldKeys, HeldTokens, Keys!OrNone
<1>3. Keys!Named(kind, b) = [kind |-> kind, id |-> id, url |-> b.url, api |-> b.api, key |-> b.key,
                             token |-> Keys!None]
  BY DEF Keys!Named
<1>4. PICK p : p = Keys!Built(kind, b)
  OBVIOUS
<1>5. CASE kind = "anthropic"
  <2>1. p = [kind |-> kind, id |-> id, url |-> b.url, api |-> b.api, key |-> b.key, token |-> b.token]
    BY <1>3, <1>4, <1>5 DEF Keys!Built, Keys!AnthropicBuilt
  <2> HIDE DEF id
  <2> QED
    BY <1>1, <1>4, <1>5, <2>1 DEF IsProvider
<1>6. CASE kind \in {"openai", "openrouter"}
  <2>1. p = [kind |-> kind, id |-> id, url |-> b.url, api |-> b.api, key |-> Keys!Content(b.key),
             token |-> Keys!None]
    BY <1>3, <1>4, <1>6 DEF Keys!Built, Keys!OpenAiBuilt, Keys!OpenRouterBuilt
  <2>2. kind = "openai" => b.api \in Keys!OpenAiApi
    BY DEF Keys!Apis
  <2> HIDE DEF id
  <2> QED
    BY <1>1, <1>2, <1>4, <1>6, <2>1, <2>2 DEF IsProvider
<1>7. CASE kind = "github-copilot"
  <2>1. p = [kind |-> kind, id |-> id, url |-> b.url, api |-> b.api, key |-> b.key, token |-> Keys!None]
    BY <1>3, <1>4, <1>7 DEF Keys!Built, Keys!CopilotBuilt
  <2>2. b.api \in Keys!CopilotApi
    BY <1>7 DEF Keys!Apis
  <2> HIDE DEF id
  <2> QED
    BY <1>1, <1>2, <1>4, <1>7, <2>1, <2>2 DEF IsProvider
<1> QED
  BY <1>5, <1>6, <1>7 DEF Keys!Kinds

\* The shape of a call's options.
Plainly(o) ==
  o = [key |-> o.key, headers |-> o.headers, scoped |-> o.scoped, process |-> o.process, hook |-> o.hook,
       cancelled |-> o.cancelled, unfit |-> o.unfit, broken |-> o.broken]

\* What a builder gets from the environment is a provider, or the lack of a key.
LEMMA EnvIsProvider ==
  ASSUME NEW kind \in Keys!Kinds, NEW b, NEW o, Plainly(o), IsEnv(o), b.id = "default", b.api \in Keys!Apis(kind),
         b = [key |-> b.key, token |-> b.token, url |-> b.url, id |-> b.id, api |-> b.api]
  PROVE  \/ Keys!FromEnv(kind, b, o) = [kind |-> "MissingApiKey"]
         \/ IsProvider(Keys!FromEnv(kind, b, o)) /\ Keys!FromEnv(kind, b, o).kind = kind
<1> DEFINE only == Keys!OnlyProcess(o)
           token == IF kind = "anthropic"
                    THEN Keys!ProviderEnvValue("ANTHROPIC_AUTH_TOKEN", only) ELSE Keys!None
           found == IF token = Keys!None THEN Keys!EnvApiKey(kind, only) ELSE Keys!None
           key == IF kind = "github-copilot" THEN Keys!Content(found) ELSE found
<1>0. IsEnv(only)
  <2>1. only.scoped = [v \in Keys!Variables |-> "unset"] /\ only.process = o.process
    BY DEF Keys!OnlyProcess, Plainly
  <2> QED
    BY <2>1 DEF IsEnv, Keys!Values
<1>1. token \in EnvTokens \cup {Keys!None} /\ key \in EnvKeys \cup {Keys!None}
  <2>1. token \in EnvTokens \cup {Keys!None} /\ found \in EnvKeys \cup {Keys!None}
    BY <1>0, EnvValues, EnvKeyFound
  <2> HIDE DEF token, found
  <2> QED
    BY <2>1 DEF Keys!Content
<1>2. token # Keys!None => key = Keys!None /\ kind = "anthropic"
  BY DEF Keys!Content
<1>3. Keys!FromEnv(kind, b, o) =
        IF token = Keys!None /\ key = Keys!None THEN [kind |-> "MissingApiKey"]
        ELSE Keys!Built(kind, [b EXCEPT !.key = Keys!Kept(key), !.token = Keys!Kept(token)])
  BY DEF Keys!FromEnv
<1> HIDE DEF token, key
<1>4. PICK held : held = [b EXCEPT !.key = Keys!Kept(key), !.token = Keys!Kept(token)]
  OBVIOUS
<1>5. /\ held.key = Keys!Kept(key) /\ held.token = Keys!Kept(token)
      /\ held.id = b.id /\ held.api = b.api
  BY <1>4
<1>6. ASSUME NEW s \in EnvTokens \cup EnvKeys \cup {Keys!None}
      PROVE  Keys!Kept(s) \in HeldKeys
  BY <1>6, Secrets DEF Keys!Kept, HeldKeys, Keys!OrNone, Keys!Forms, EnvForms
<1>7. Keys!Kept(Keys!None) = Keys!None
  BY DEF Keys!Kept
<1>8. IsProvider(Keys!Built(kind, held)) /\ Keys!Built(kind, held).kind = kind
  <2>1. held.key \in HeldKeys /\ held.token \in HeldKeys
    BY <1>1, <1>5, <1>6
  <2>2. held.token # Keys!None => held.key = Keys!None /\ kind = "anthropic"
    BY <1>2, <1>5, <1>7
  <2> QED
    BY <1>5, <2>1, <2>2, BuiltIsProvider DEF HeldTokens
<1> QED
  BY <1>3, <1>4, <1>8

\* What a provider makes is a model of one of its interfaces.
LEMMA MadeIsModel ==
  ASSUME NEW p, IsProvider(p), NEW method \in Keys!Methods(p.kind), NEW id,
         NEW auth \in Keys!OrNone("model", {"plain"})
  PROVE  IsModelOf(p, [Keys!ModelOf(p, method, id) EXCEPT !.authorization = auth])
<1> DEFINE Fields(m) ==
             m = [kind |-> m.kind, provider |-> m.provider, id |-> m.id, api |-> m.api, can |-> m.can,
                  url |-> m.url, authorization |-> m.authorization, grammar |-> m.grammar,
                  search |-> m.search, strict |-> m.strict]
           Good(m, api) ==
             Fields(m) /\ m.kind = "model" /\ m.provider = p.id /\ m.api = api /\ m.can = Keys!Capability(api)
<1>1. ASSUME NEW api PROVE Good(Keys!Plain(p, id, api), api)
  BY DEF Keys!Plain
<1>2. Good(Keys!OpenAiModel(p, id), p.api)
  <2>1. PICK m : m = Keys!Plain(p, id, p.api)
    OBVIOUS
  <2>2. PICK g \in BOOLEAN, s \in BOOLEAN, t \in BOOLEAN :
          /\ g = (p.api = "openai-responses" /\ id \in Keys!Gpt5)
          /\ s = (p.id = "openai" /\ p.api = "openai-responses" /\ id = "gpt-5.5")
          /\ t = (p.api = "openai-responses")
    OBVIOUS
  <2>3. Keys!OpenAiModel(p, id) = [m EXCEPT !.grammar = g, !.search = s, !.strict = t]
    BY <2>1, <2>2, Zenon DEF Keys!OpenAiModel
  <2>4. Good(m, p.api)
    BY <1>1, <2>1
  <2> QED
    BY <2>3, <2>4
<1>3. \E api : /\ Good(Keys!CopilotModel(p, id), api)
              /\ api = IF p.api = "by model" THEN Keys!DefaultApi(id) ELSE p.api
  <2>1. PICK api : api = IF p.api = "by model" THEN Keys!DefaultApi(id) ELSE p.api
    OBVIOUS
  <2>2. PICK m : m = Keys!Plain(p, id, api)
    OBVIOUS
  <2>3. PICK g, url : /\ g \in BOOLEAN /\ g = (api = "openai-responses" /\ id \in Keys!Gpt5)
                      /\ url = Keys!BaseUrl(p, api)
    OBVIOUS
  <2>4. Keys!CopilotModel(p, id) = [m EXCEPT !.url = url, !.grammar = g]
    BY <2>1, <2>2, <2>3, Zenon DEF Keys!CopilotModel
  <2>5. Good(m, api)
    BY <1>1, <2>2
  <2> QED
    BY <2>1, <2>4, <2>5
<1>4. Good(Keys!AnthropicModel(p, id), "anthropic-messages")
  <2>1. PICK m : m = Keys!Plain(p, id, "anthropic-messages")
    OBVIOUS
  <2>2. Good(m, "anthropic-messages") /\ Keys!AnthropicModel(p, id) = [m EXCEPT !.strict = TRUE]
    BY <1>1, <2>1 DEF Keys!AnthropicModel
  <2> QED
    BY <2>2
<1>5. Good(Keys!OpenRouterModel(p, id), "openrouter-images")
  BY <1>1 DEF Keys!OpenRouterModel
<1>6. \E api \in ProviderApis(p.kind) : Good(Keys!ModelOf(p, method, id), api)
  <2> HIDE DEF Good
  <2>0. p.kind \in {"openai", "anthropic", "openrouter", "github-copilot"}
    BY DEF IsProvider, Keys!Kinds
  <2>1. CASE method = "embedding_model"
    BY <1>1, <2>0, <2>1 DEF Keys!ModelOf, Keys!Methods, ProviderApis, Keys!OpenAiApi
  <2>2. CASE method = "image_model"
    BY <1>1, <2>0, <2>2 DEF Keys!ModelOf, Keys!Methods, ProviderApis, Keys!OpenAiApi
  <2>3. CASE method = "model" /\ p.kind = "openai"
    BY <1>2, <2>3 DEF Keys!ModelOf, ProviderApis, IsProvider
  <2>4. CASE method = "model" /\ p.kind = "github-copilot"
    <3>1. Keys!DefaultApi(id) \in Keys!CopilotApi \ {"by model"}
      BY DEF Keys!DefaultApi, Keys!CopilotApi
    <3> QED
      BY <1>3, <2>4, <3>1 DEF Keys!ModelOf, ProviderApis, IsProvider
  <2>5. CASE method = "model" /\ p.kind = "anthropic"
    BY <1>4, <2>5 DEF Keys!ModelOf, ProviderApis
  <2>6. CASE method = "model" /\ p.kind = "openrouter"
    BY <1>5, <2>6 DEF Keys!ModelOf, ProviderApis
  <2>7. method \in {"model", "image_model", "embedding_model"}
    BY <2>0 DEF Keys!Methods
  <2> QED
    BY <2>0, <2>1, <2>2, <2>3, <2>4, <2>5, <2>6, <2>7
<1>7. PICK m, api : m = Keys!ModelOf(p, method, id) /\ api \in ProviderApis(p.kind) /\ Good(m, api)
  BY <1>6
<1>8. PICK authorized : authorized = [m EXCEPT !.authorization = auth]
  OBVIOUS
<1>9. /\ authorized.kind = "model" /\ authorized.provider = p.id /\ authorized.api = api
      /\ authorized.can = Keys!Capability(api) /\ authorized.authorization = auth
  BY <1>7, <1>8
<1> QED
  BY <1>7, <1>8, <1>9 DEF IsModelOf

\* What the wrapper of a provider makes of a call's options.
IsSetting(o) ==
  /\ Plainly(o)
  /\ o.key \in Keys!OrNone("options", Keys!Forms)
  /\ o.headers \in [Keys!Names -> Keys!OrNone("header", {"removed", "empty", "plain"})]
  /\ IsEnv(o)

Unheard(o) == o.headers["authorization"] = Keys!None

\* the options of which a key, and perhaps one header, was replaced
Keyed(o, d, key, token) ==
  /\ Plainly(d) /\ d.cancelled = o.cancelled /\ d.key = key
  /\ d.headers = IF token = Keys!None THEN o.headers ELSE [o.headers EXCEPT !["authorization"] = token]
  /\ token # Keys!None => Unheard(o)

\* The key and the token that the environment adds.
LEMMA WithEnv ==
  ASSUME NEW o, IsSetting(o)
  PROVE  LET added == model.provider = "anthropic" /\ Unheard(o) /\ Keys!IsBlank(o.key)
             token == IF added THEN EnvToken(o) ELSE Keys!None
             key == IF Keys!IsBlank(o.key) /\ ~ Keys!Bearing(o) /\ EnvKey(o) # Keys!None
                    THEN EnvKey(o) ELSE o.key
         IN  Keyed(o, Keys!WithEnvApiKey(model.provider, o), key, token)
<1> DEFINE added == model.provider = "anthropic" /\ Unheard(o) /\ Keys!IsBlank(o.key)
           token == IF added THEN EnvToken(o) ELSE Keys!None
           key == IF Keys!IsBlank(o.key) /\ ~ Keys!Bearing(o) /\ EnvKey(o) # Keys!None
                  THEN EnvKey(o) ELSE o.key
           d == Keys!WithEnvApiKey(model.provider, o)
           bearing == IF model.provider = "anthropic" /\ Unheard(o) /\ EnvToken(o) # Keys!None
                      THEN [o EXCEPT !.headers["authorization"] = EnvToken(o)] ELSE o
<1>0. Plainly(o) /\ "authorization" \in Keys!Names /\ DOMAIN o.headers = Keys!Names
  BY DEF IsSetting, Keys!Names
<1>1. d = IF ~ Keys!IsBlank(o.key) THEN o
          ELSE IF model.provider = "anthropic" /\ Keys!Overrides(bearing, "authorization") THEN bearing
          ELSE IF EnvKey(o) = Keys!None THEN bearing
          ELSE [bearing EXCEPT !.key = EnvKey(o)]
  BY DEF Keys!WithEnvApiKey, EnvKey, EnvToken, Unheard, Keys!Overrides
<1>2. /\ Plainly(bearing) /\ bearing.key = o.key /\ bearing.cancelled = o.cancelled
      /\ bearing.headers = IF model.provider = "anthropic" /\ Unheard(o) /\ EnvToken(o) # Keys!None
                           THEN [o.headers EXCEPT !["authorization"] = EnvToken(o)] ELSE o.headers
  BY <1>0 DEF Plainly
<1>3. model.provider = "anthropic" =>
        (Keys!Overrides(bearing, "authorization") <=> Keys!Bearing(o))
  BY <1>0, <1>2 DEF Keys!Overrides, Keys!Bearing, Keys!EnvBearer, EnvToken, Unheard
<1>4. model.provider # "anthropic" => ~ Keys!Bearing(o)
  BY DEF Keys!Bearing
<1> HIDE DEF bearing, d
<1>5. ASSUME ~ Keys!IsBlank(o.key)
      PROVE  Keyed(o, d, key, token)
  <2>1. d = o /\ key = o.key /\ token = Keys!None
    BY <1>1, <1>5
  <2> HIDE DEF key, token
  <2> QED
    BY <1>0, <2>1 DEF Keyed
<1>6. ASSUME Keys!IsBlank(o.key) /\ (Keys!Bearing(o) \/ EnvKey(o) = Keys!None)
      PROVE  Keyed(o, d, key, token)
  <2>1. d = bearing /\ key = o.key
    BY <1>1, <1>3, <1>4, <1>6
  <2>2. /\ bearing.headers = IF token = Keys!None THEN o.headers
                             ELSE [o.headers EXCEPT !["authorization"] = token]
        /\ token # Keys!None => Unheard(o)
    BY <1>2, <1>6
  <2> HIDE DEF key, token
  <2> QED
    BY <1>2, <2>1, <2>2 DEF Keyed
<1>7. ASSUME Keys!IsBlank(o.key) /\ ~ Keys!Bearing(o) /\ EnvKey(o) # Keys!None
      PROVE  Keyed(o, d, key, token)
  <2>1. d = [bearing EXCEPT !.key = EnvKey(o)] /\ key = EnvKey(o)
    BY <1>1, <1>3, <1>4, <1>7
  <2>2. /\ Plainly(d) /\ d.key = EnvKey(o) /\ d.headers = bearing.headers
        /\ d.cancelled = bearing.cancelled
    BY <1>2, <2>1 DEF Plainly
  <2>3. /\ bearing.headers = IF token = Keys!None THEN o.headers
                             ELSE [o.headers EXCEPT !["authorization"] = token]
        /\ token # Keys!None => Unheard(o)
    BY <1>2, <1>7
  <2> HIDE DEF key, token
  <2> QED
    BY <1>2, <2>1, <2>2, <2>3 DEF Keyed
<1>8. Keyed(o, d, key, token)
  BY <1>5, <1>6, <1>7, Zenon
<1> QED
  BY <1>8 DEF d

\* A key of its own making that a provider without key is given.
Fixed == {Keys!Secret("fixed", "empty"), Keys!Secret("fixed", "plain")}

\* Each wrapper puts the provider's key, or one without content, in the place
\* of a key without content, and for Anthropic the provider's token in the place
\* of no key at all.
LEMMA WithKey ==
  ASSUME NEW p, IsProvider(p), NEW api \in ProviderApis(p.kind), NEW o, Plainly(o),
         DOMAIN o.headers = Keys!Names
  PROVE  LET d == Keys!WithApiKey(p, api, o)
         IN  \E key, token :
               /\ Keyed(o, d, key, token)
               /\ ~ Keys!IsBlank(o.key) => key = o.key
               /\ Keys!IsBlank(o.key) =>
                    \/ key = p.key
                    \/ p.kind # "anthropic" /\ p.key = Keys!None /\ (key = o.key \/ (Keys!AllowsMissingKey(p) /\ key \in Fixed))
               /\ token # Keys!None =>
                    token = p.token /\ ~ Keys!IsBlank(p.token) /\ key = Keys!None
               /\ p.kind = "anthropic" /\ key = Keys!None /\ Unheard(o) /\ ~ Keys!IsBlank(p.token) =>
                    token = p.token
<1> DEFINE d == Keys!WithApiKey(p, api, o)
           Given(key, token) ==
             /\ Keyed(o, d, key, token)
             /\ ~ Keys!IsBlank(o.key) => key = o.key
             /\ Keys!IsBlank(o.key) =>
                  \/ key = p.key
                  \/ p.kind # "anthropic" /\ p.key = Keys!None /\ (key = o.key \/ (Keys!AllowsMissingKey(p) /\ key \in Fixed))
             /\ token # Keys!None =>
                  token = p.token /\ ~ Keys!IsBlank(p.token) /\ key = Keys!None
             /\ p.kind = "anthropic" /\ key = Keys!None /\ Unheard(o) /\ ~ Keys!IsBlank(p.token) =>
                  token = p.token
<1>1. ASSUME NEW key
      PROVE  /\ Plainly(Keys!OrElse(o, key)) /\ Keys!OrElse(o, key).cancelled = o.cancelled
             /\ Keys!OrElse(o, key).headers = o.headers
             /\ Keys!OrElse(o, key).key = IF Keys!IsBlank(o.key) THEN key ELSE o.key
  BY DEF Keys!OrElse, Plainly
<1>2. ASSUME NEW key, d = Keys!OrElse(o, key), p.kind # "anthropic",
             \/ key = p.key
             \/ p.kind # "anthropic" /\ p.key = Keys!None /\ (key = o.key \/ (Keys!AllowsMissingKey(p) /\ key \in Fixed))
      PROVE  \E k, token : Given(k, token)
  <2>1. PICK k : k = IF Keys!IsBlank(o.key) THEN key ELSE o.key
    OBVIOUS
  <2>2. Keyed(o, d, k, Keys!None)
    BY <1>1, <1>2, <2>1 DEF Keyed
  <2>3. Given(k, Keys!None)
    BY <1>2, <2>1, <2>2
  <2> QED
    BY <2>3
<1>3. ASSUME NEW none \in Fixed
      PROVE  LET key == IF p.key = Keys!None /\ Keys!AllowsMissingKey(p) THEN none
                        ELSE IF p.key = Keys!None THEN o.key ELSE p.key
             IN  \/ key = p.key
                 \/ p.key = Keys!None /\ (key = o.key \/ (Keys!AllowsMissingKey(p) /\ key \in Fixed))
  BY <1>3
<1>4. ASSUME p.kind = "openai"
      PROVE  \E k, token : Given(k, token)
  <2>1. d \in {Keys!WithEmbeddingsKey(p, o), Keys!WithImagesKey(p, o), Keys!WithOpenAiKey(p, o)}
    BY <1>4 DEF ProviderApis, Keys!OpenAiApi, Keys!WithApiKey, Keys!Capability
  <2>2. CASE d = Keys!WithEmbeddingsKey(p, o)
    BY <1>2, <1>4, <2>2 DEF Keys!WithEmbeddingsKey
  <2>3. CASE d = Keys!WithImagesKey(p, o)
    BY <1>2, <1>3, <1>4, <2>3 DEF Keys!WithImagesKey, Fixed
  <2>4. CASE d = Keys!WithOpenAiKey(p, o)
    BY <1>2, <1>3, <1>4, <2>4 DEF Keys!WithOpenAiKey, Fixed
  <2> QED
    BY <2>1, <2>2, <2>3, <2>4
<1>5. ASSUME p.kind = "openrouter"
      PROVE  \E k, token : Given(k, token)
  <2>1. d = Keys!OrElse(o, p.key)
    BY <1>5 DEF ProviderApis, Keys!WithApiKey, Keys!WithOpenRouterKey
  <2> QED
    BY <1>2, <1>5, <2>1
<1>6. ASSUME p.kind = "github-copilot"
      PROVE  \E k, token : Given(k, token)
  <2>1. \/ d = Keys!OrElse(o, p.key)
        \/ d = Keys!WithEmbeddingsKey(p, o)
    BY <1>6 DEF ProviderApis, Keys!CopilotApi, Keys!WithApiKey, Keys!WithCopilotKey, Keys!Capability
  <2> QED
    BY <1>2, <1>6, <2>1 DEF Keys!WithEmbeddingsKey
<1>7. ASSUME p.kind = "anthropic"
      PROVE  \E k, token : Given(k, token)
  <2>1. d = Keys!WithAnthropicKey(p, o)
    BY <1>7 DEF ProviderApis, Keys!WithApiKey, Keys!Capability
  <2>2. PICK keyed : keyed = Keys!OrElse(o, p.key)
    OBVIOUS
  <2>3. PICK k : k = IF Keys!IsBlank(o.key) THEN p.key ELSE o.key
    OBVIOUS
  <2>4. Plainly(keyed) /\ keyed.cancelled = o.cancelled /\ keyed.headers = o.headers /\ keyed.key = k
    BY <1>1, <2>2, <2>3
  <2>5. d = IF k = Keys!None /\ Unheard(o) /\ ~ Keys!IsBlank(p.token)
            THEN [keyed EXCEPT !.headers["authorization"] = p.token] ELSE keyed
    BY <2>1, <2>2, <2>4 DEF Keys!WithAnthropicKey, Keys!Overrides, Unheard
  <2> HIDE DEF d
  <2>6. CASE k = Keys!None /\ Unheard(o) /\ ~ Keys!IsBlank(p.token)
    <3>1. p.token # Keys!None
      BY <2>6, Secrets DEF Keys!IsBlank
    <3>2. Keyed(o, d, k, p.token)
      BY <2>4, <2>5, <2>6, <3>1 DEF Keyed, Plainly
    <3>3. Given(k, p.token)
      BY <2>3, <2>6, <3>2
    <3> QED
      BY <3>3
  <2>7. CASE ~ (k = Keys!None /\ Unheard(o) /\ ~ Keys!IsBlank(p.token))
    <3>1. Keyed(o, d, k, Keys!None)
      BY <2>4, <2>5, <2>7 DEF Keyed
    <3>2. Given(k, Keys!None)
      BY <2>3, <2>7, <3>1
    <3> QED
      BY <3>2
  <2> QED
    BY <2>6, <2>7
<1>8. p.kind \in {"openai", "openrouter", "github-copilot", "anthropic"}
  BY DEF IsProvider, Keys!Kinds
<1>9. \E key, token : Given(key, token)
  BY <1>4, <1>5, <1>6, <1>7, <1>8
<1> QED
  BY <1>9

\* The first key and the first token of a call.
LEMMA FirstOfKeys ==
  ASSUME NEW o, IsProvider(provider)
  PROVE  /\ Keys!First(Keys!Keys(o)) =
              IF ~ Keys!IsBlank(o.key) THEN o.key
              ELSE IF model.can = "language" /\ ~ Keys!Bearing(o) /\ ~ Keys!IsBlank(EnvKey(o)) THEN EnvKey(o)
              ELSE Keys!Content(provider.key)
         /\ {o.key, provider.key} \subseteq Keys!Range(Keys!Keys(o))
         /\ model.can = "language" /\ ~ Keys!Bearing(o) => EnvKey(o) \in Keys!Range(Keys!Keys(o))
         /\ \A s \in Keys!Range(Keys!Keys(o)) :
              \/ s \in {o.key, provider.key}
              \/ s = EnvKey(o) /\ ~ Keys!Bearing(o)
<1>2. CASE model.can = "language" /\ ~ Keys!Bearing(o)
  <2>1. Keys!Keys(o) = <<o.key, EnvKey(o), provider.key>>
    BY <1>2 DEF Keys!Keys, EnvKey
  <2>2. Keys!Range(Keys!Keys(o)) = {o.key, EnvKey(o), provider.key}
    BY <2>1 DEF Keys!Range
  <2> QED
    BY <1>2, <2>1, <2>2, FirstOfThree DEF Keys!Content
<1>3. CASE ~ (model.can = "language" /\ ~ Keys!Bearing(o))
  <2>1. Keys!Keys(o) = <<o.key, provider.key>>
    BY <1>3 DEF Keys!Keys
  <2>2. Keys!Range(Keys!Keys(o)) = {o.key, provider.key}
    BY <2>1 DEF Keys!Range
  <2> QED
    BY <1>3, <2>1, <2>2, FirstOfTwo DEF Keys!Content
<1> QED
  BY <1>2, <1>3

\* The first bearer token of a call, and those there can be.
LEMMA FirstOfTokens ==
  ASSUME NEW o
  PROVE  /\ Keys!First(Keys!Tokens(o)) =
              IF model.provider = "anthropic" /\ ~ Keys!IsBlank(EnvToken(o)) THEN EnvToken(o)
              ELSE Keys!Content(provider.token)
         /\ \A s \in Keys!Range(Keys!Tokens(o)) :
              s \in {Keys!None, provider.token} \/ (model.provider = "anthropic" /\ s = EnvToken(o))
<1>1. PICK token : token = IF model.provider = "anthropic" THEN EnvToken(o) ELSE Keys!None
  OBVIOUS
<1>2. Keys!Tokens(o) = <<token, provider.token>>
  BY <1>1 DEF Keys!Tokens, Keys!EnvBearer, EnvToken
<1>3. Keys!Range(Keys!Tokens(o)) = {token, provider.token}
  BY <1>2 DEF Keys!Range
<1>4. Keys!First(Keys!Tokens(o)) = IF ~ Keys!IsBlank(token) THEN token ELSE Keys!Content(provider.token)
  BY <1>2, FirstOfTwo DEF Keys!Content
<1>5. Keys!IsBlank(Keys!None)
  BY Secrets DEF Keys!IsBlank
<1> QED
  BY <1>1, <1>3, <1>4, <1>5

\* The options after the environment: what was added to them.
LEMMA Environment ==
  ASSUME NEW o, IsSetting(o), IsProvider(provider), IsModelOf(provider, model), NEW e,
         \/ model.can = "language" /\ e = Keys!WithEnvApiKey(model.provider, o)
         \/ model.can # "language" /\ e = o
  PROVE  \E env, token, key :
           /\ env \in EnvKeys \cup {Keys!None} /\ token \in EnvTokens \cup {Keys!None}
           /\ Keyed(o, e, key, token)
           /\ key = IF Keys!IsBlank(o.key) /\ env # Keys!None THEN env ELSE o.key
           /\ Keys!First(Keys!Keys(o)) =
                IF ~ Keys!IsBlank(o.key) THEN o.key ELSE IF ~ Keys!IsBlank(env) THEN env
                ELSE Keys!Content(provider.key)
           /\ env = Keys!None \/ env \in Keys!Range(Keys!Keys(o))
           /\ token = IF model.provider = "anthropic" /\ Unheard(o) /\ Keys!IsBlank(o.key)
                      THEN EnvToken(o) ELSE Keys!None
           /\ Keys!Bearing(o) => env = Keys!None
<1>1. PICK env \in EnvKeys \cup {Keys!None} :
        env = IF model.can = "language" /\ ~ Keys!Bearing(o) THEN EnvKey(o) ELSE Keys!None
  BY EnvKeyFound DEF EnvKey, IsSetting
<1>2. PICK token \in EnvTokens \cup {Keys!None} :
        token = IF model.provider = "anthropic" /\ Unheard(o) /\ Keys!IsBlank(o.key)
                THEN EnvToken(o) ELSE Keys!None
  BY EnvValues DEF EnvToken, IsSetting
<1>3. PICK key : key = IF Keys!IsBlank(o.key) /\ env # Keys!None THEN env ELSE o.key
  OBVIOUS
<1>4. Keyed(o, e, key, token)
  <2>1. CASE model.can = "language" /\ e = Keys!WithEnvApiKey(model.provider, o)
    <3>1. key = IF Keys!IsBlank(o.key) /\ ~ Keys!Bearing(o) /\ EnvKey(o) # Keys!None
                THEN EnvKey(o) ELSE o.key
      BY <1>1, <1>3, <2>1
    <3>2. \A k, t : /\ k = IF Keys!IsBlank(o.key) /\ ~ Keys!Bearing(o) /\ EnvKey(o) # Keys!None
                           THEN EnvKey(o) ELSE o.key
                    /\ t = IF model.provider = "anthropic" /\ Unheard(o) /\ Keys!IsBlank(o.key)
                           THEN EnvToken(o) ELSE Keys!None
                    => Keyed(o, e, k, t)
      BY <2>1, WithEnv
    <3> QED
      BY <1>2, <3>1, <3>2
  <2>2. CASE model.can # "language" /\ e = o
    <3>1. model.provider # "anthropic"
      BY <2>2 DEF IsProvider, IsModelOf, ProviderApis, Keys!Capability, Keys!Kinds
    <3>2. key = o.key /\ token = Keys!None
      BY <1>1, <1>2, <1>3, <2>2, <3>1
    <3> QED
      BY <2>2, <3>2 DEF Keyed, IsSetting
  <2> QED
    BY <2>1, <2>2
<1>5. /\ Keys!First(Keys!Keys(o)) =
           IF ~ Keys!IsBlank(o.key) THEN o.key ELSE IF ~ Keys!IsBlank(env) THEN env
           ELSE Keys!Content(provider.key)
      /\ env = Keys!None \/ env \in Keys!Range(Keys!Keys(o))
  <2>1. Keys!IsBlank(Keys!None)
    BY Secrets DEF Keys!IsBlank
  <2> QED
    BY <1>1, <2>1, FirstOfKeys
<1> QED
  BY <1>1, <1>2, <1>3, <1>4, <1>5

\* What a call's options have become where they meet the client.
Dispatched(o, d) ==
  /\ Plainly(d) /\ d.cancelled = o.cancelled /\ DOMAIN d.headers = Keys!Names
  /\ Keys!First(Keys!Keys(o)) # Keys!None => d.key = Keys!First(Keys!Keys(o))
  /\ Keys!First(Keys!Keys(o)) = Keys!None =>
       \/ d.key \in Keys!Range(Keys!Keys(o)) /\ Keys!IsBlank(d.key)
       \/ d.key \in Fixed /\ Keys!AllowsMissingKey(provider)
  /\ Keys!Bearing(o) => d.key \notin EnvKeys
  /\ \A h \in Keys!Names : h # "authorization" \/ ~ Unheard(o) => d.headers[h] = o.headers[h]
  /\ Unheard(o) /\ d.headers["authorization"] # Keys!None =>
       /\ Keys!IsBlank(o.key)
       /\ \/ /\ model.provider = "anthropic"
             /\ d.headers["authorization"] = EnvToken(o)
          \/ /\ d.headers["authorization"] = provider.token /\ ~ Keys!IsBlank(provider.token)
             /\ Keys!First(Keys!Keys(o)) = Keys!None /\ ~ Keys!Bearing(o)
  /\ /\ Unheard(o) /\ Keys!First(Keys!Keys(o)) = Keys!None
     /\ \/ model.provider = "anthropic" /\ EnvToken(o) # Keys!None
        \/ provider.key = Keys!None /\ ~ Keys!IsBlank(provider.token)
     => d.headers["authorization"] # Keys!None

\* The entry point and the wrapper together make of the options what is said above.
LEMMA OptionsDispatched ==
  ASSUME NEW o, IsSetting(o), IsProvider(provider), IsModelOf(provider, model), NEW e,
         \/ model.can = "language" /\ e = Keys!WithEnvApiKey(model.provider, o)
         \/ model.can # "language" /\ e = o
  PROVE  Dispatched(o, Keys!WithApiKey(provider, model.api, e))
<1>1. PICK env, token, key :
           /\ env \in EnvKeys \cup {Keys!None} /\ token \in EnvTokens \cup {Keys!None}
           /\ Keyed(o, e, key, token)
           /\ key = IF Keys!IsBlank(o.key) /\ env # Keys!None THEN env ELSE o.key
           /\ Keys!First(Keys!Keys(o)) =
                IF ~ Keys!IsBlank(o.key) THEN o.key ELSE IF ~ Keys!IsBlank(env) THEN env
                ELSE Keys!Content(provider.key)
           /\ env = Keys!None \/ env \in Keys!Range(Keys!Keys(o))
           /\ token = IF model.provider = "anthropic" /\ Unheard(o) /\ Keys!IsBlank(o.key)
                      THEN EnvToken(o) ELSE Keys!None
           /\ Keys!Bearing(o) => env = Keys!None
  BY Environment
<1>2. PICK first : first = Keys!First(Keys!Keys(o))
  OBVIOUS
<1>3. PICK d : d = Keys!WithApiKey(provider, model.api, e)
  OBVIOUS
<1>4. /\ DOMAIN o.headers = Keys!Names /\ "authorization" \in Keys!Names
      /\ Plainly(e) /\ e.key = key /\ e.cancelled = o.cancelled
      /\ e.headers = IF token = Keys!None THEN o.headers
                     ELSE [o.headers EXCEPT !["authorization"] = token]
      /\ token # Keys!None => Unheard(o)
  BY <1>1 DEF Keyed, IsSetting, Keys!Names
<1>5. DOMAIN e.headers = Keys!Names
  BY <1>4
<1>6. PICK k, t :
        /\ Keyed(e, d, k, t)
        /\ ~ Keys!IsBlank(key) => k = key
        /\ Keys!IsBlank(key) =>
             \/ k = provider.key
             \/ /\ provider.kind # "anthropic" /\ provider.key = Keys!None
                /\ k = key \/ (Keys!AllowsMissingKey(provider) /\ k \in Fixed)
        /\ t # Keys!None => t = provider.token /\ ~ Keys!IsBlank(provider.token) /\ k = Keys!None
        /\ provider.kind = "anthropic" /\ k = Keys!None /\ Unheard(e) /\ ~ Keys!IsBlank(provider.token) =>
             t = provider.token
  <2>1. model.api \in ProviderApis(provider.kind)
    BY DEF IsModelOf
  <2> QED
    BY <1>3, <1>4, <1>5, <2>1, WithKey
<1>7. /\ Plainly(d) /\ d.key = k /\ d.cancelled = e.cancelled
      /\ d.headers = IF t = Keys!None THEN e.headers ELSE [e.headers EXCEPT !["authorization"] = t]
      /\ t # Keys!None => Unheard(e)
  BY <1>6 DEF Keyed
<1>8. /\ Keys!IsBlank(Keys!None)
      /\ \A s \in EnvKeys : s \notin {o.key, provider.key} /\ s \notin Fixed
      /\ {o.key, provider.key} \subseteq Keys!Range(Keys!Keys(o))
  <2>1. Keys!IsBlank(Keys!None)
    BY Secrets DEF Keys!IsBlank
  <2>2. \A s \in EnvKeys : s.from \in {"scoped", "process"}
    BY Secrets
  <2>3. o.key.from \in {"nowhere", "options"}
    BY Secrets DEF IsSetting
  <2>4. provider.key.from \in {"nowhere", "builder"}
    BY Secrets DEF IsProvider, HeldKeys
  <2>5. \A s \in Fixed : s.from = "fixed"
    BY DEF Fixed, Keys!Secret, Keys!Variable
  <2>6. \A s \in EnvKeys : s \notin {o.key, provider.key} /\ s \notin Fixed
    BY <2>2, <2>3, <2>4, <2>5
  <2> QED
    BY <2>1, <2>6, FirstOfKeys
<1>9. first # Keys!None => k = first
  <2>1. Keys!IsBlank(key) => Keys!IsBlank(o.key) /\ Keys!IsBlank(env)
    BY <1>1, <1>8
  <2>2. ~ Keys!IsBlank(key) => key = first
    BY <1>1, <1>2, <1>8
  <2>3. Keys!IsBlank(key) /\ first # Keys!None => first = provider.key
    BY <1>1, <1>2, <2>1 DEF Keys!Content
  <2> QED
    BY <1>6, <2>2, <2>3
<1>10. first = Keys!None =>
         /\ Keys!IsBlank(o.key) /\ Keys!IsBlank(key) /\ Keys!IsBlank(provider.key)
         /\ \/ k \in Keys!Range(Keys!Keys(o)) /\ Keys!IsBlank(k)
            \/ k \in Fixed /\ Keys!AllowsMissingKey(provider)
  <2>1. first = Keys!None => Keys!IsBlank(o.key) /\ Keys!IsBlank(env)
    BY <1>1, <1>2, <1>8
  <2>2. first = Keys!None => key \in Keys!Range(Keys!Keys(o)) /\ Keys!IsBlank(key)
    BY <1>1, <1>8, <2>1
  <2>3. first = Keys!None => Keys!IsBlank(provider.key)
    BY <1>1, <1>2, <2>1, <1>8 DEF Keys!Content
  <2> QED
    BY <1>6, <1>8, <2>1, <2>2, <2>3
<1>11. Keys!Bearing(o) => k \notin EnvKeys
  <2>1. Keys!Bearing(o) => key = o.key
    BY <1>1
  <2>2. Keys!Bearing(o) => k \in {o.key, provider.key} \cup Fixed
    BY <1>6, <2>1
  <2> QED
    BY <1>8, <2>2
<1>12. \A h \in Keys!Names : h # "authorization" \/ ~ Unheard(o) => d.headers[h] = o.headers[h]
  <2>1. ~ Unheard(o) => token = Keys!None /\ t = Keys!None
    BY <1>4, <1>7 DEF Unheard
  <2> QED
    BY <1>4, <1>5, <1>7, <2>1
<1>13. ASSUME Unheard(o)
       PROVE  d.headers["authorization"] = IF token # Keys!None THEN token ELSE t
  <2>1. token # Keys!None => t = Keys!None
    BY <1>4, <1>7 DEF Unheard
  <2> QED
    BY <1>4, <1>5, <1>7, <1>13, <2>1 DEF Unheard
<1>14. ASSUME t # Keys!None
       PROVE  /\ token = Keys!None /\ Keys!IsBlank(o.key) /\ first = Keys!None
              /\ t = provider.token /\ ~ Keys!IsBlank(t)
              /\ Unheard(o) => ~ Keys!Bearing(o)
  <2>1. token = Keys!None
    BY <1>4, <1>7, <1>14 DEF Unheard
  <2>2. k = Keys!None /\ t = provider.token /\ ~ Keys!IsBlank(t)
    BY <1>6, <1>14
  <2>3. first = Keys!None
    BY <1>9, <2>2
  <2>4. Keys!IsBlank(o.key)
    BY <1>10, <2>3
  <2>5. Unheard(o) => ~ Keys!Bearing(o)
    BY <1>1, <2>1, <2>4 DEF Keys!Bearing, Keys!EnvBearer, Keys!Overrides, Unheard, EnvToken
  <2> QED
    BY <2>1, <2>2, <2>3, <2>4, <2>5
<1>15. ASSUME Unheard(o), first = Keys!None,
              \/ model.provider = "anthropic" /\ EnvToken(o) # Keys!None
              \/ provider.key = Keys!None /\ ~ Keys!IsBlank(provider.token)
       PROVE  d.headers["authorization"] # Keys!None
  <2>1. CASE token # Keys!None
    BY <1>13, <1>15, <2>1
  <2>2. CASE token = Keys!None
    <3>1. provider.key = Keys!None /\ ~ Keys!IsBlank(provider.token)
      BY <1>1, <1>10, <1>15, <2>2
    <3>2. provider.kind = "anthropic" /\ provider.token # Keys!None
      BY <1>8, <3>1 DEF IsProvider
    <3>3. Unheard(e)
      BY <1>4, <1>15, <2>2 DEF Unheard
    <3>4. Keys!IsBlank(key)
      BY <1>10, <1>15
    <3>5. k = Keys!None
      BY <1>6, <3>1, <3>2, <3>4
    <3>6. t = provider.token
      BY <1>6, <3>1, <3>2, <3>3, <3>5
    <3> QED
      BY <1>13, <1>15, <2>2, <3>2, <3>6
  <2> QED
    BY <2>1, <2>2
<1>16. ASSUME Unheard(o), d.headers["authorization"] # Keys!None
       PROVE  /\ Keys!IsBlank(o.key)
              /\ \/ model.provider = "anthropic" /\ d.headers["authorization"] = EnvToken(o)
                 \/ /\ d.headers["authorization"] = provider.token /\ ~ Keys!IsBlank(provider.token)
                    /\ first = Keys!None /\ ~ Keys!Bearing(o)
  <2>1. CASE token # Keys!None
    BY <1>1, <1>13, <1>16, <2>1
  <2>2. CASE token = Keys!None
    BY <1>13, <1>14, <1>16, <2>2
  <2> QED
    BY <2>1, <2>2
<1>17. DOMAIN d.headers = Keys!Names
  BY <1>5, <1>7
<1>18. /\ Keys!First(Keys!Keys(o)) # Keys!None => d.key = Keys!First(Keys!Keys(o))
       /\ Keys!First(Keys!Keys(o)) = Keys!None =>
            \/ d.key \in Keys!Range(Keys!Keys(o)) /\ Keys!IsBlank(d.key)
            \/ d.key \in Fixed /\ Keys!AllowsMissingKey(provider)
       /\ Keys!Bearing(o) => d.key \notin EnvKeys
  <2>1. d.key = k
    BY <1>7
  <2> HIDE DEF Fixed
  <2> QED
    BY <1>2, <1>9, <1>10, <1>11, <2>1
<1>19. Plainly(d) /\ d.cancelled = o.cancelled
  BY <1>4, <1>7
<1>20. Dispatched(o, d)
  BY <1>2, <1>12, <1>15, <1>16, <1>17, <1>18, <1>19 DEF Dispatched
<1> QED
  BY <1>3, <1>20

\* A key, where there is one, has a form, and what is first has content.
IsKey(s) ==
  \/ s = Keys!None
  \/ /\ s.form \in Keys!Forms
     /\ s.from \in {"options", "scoped", "process", "builder", "fixed"}

\* The first key has content, and what a client gets is a key or none.
LEMMA FirstIsKey ==
  ASSUME NEW o, IsSetting(o), IsProvider(provider)
  PROVE  /\ Keys!First(Keys!Keys(o)) = Keys!None \/ ~ Keys!IsBlank(Keys!First(Keys!Keys(o)))
         /\ \A d : Dispatched(o, d) => IsKey(d.key)
<1>1. IsKey(o.key) /\ IsKey(provider.key)
  BY Secrets DEF IsSetting, IsProvider, HeldKeys, IsKey
<1>2. IsKey(EnvKey(o)) /\ IsKey(Keys!None)
  BY EnvKeyFound, Secrets DEF EnvKey, IsKey, IsSetting, EnvForms, Keys!Forms
<1>3. \A s \in Fixed : IsKey(s)
  BY DEF Fixed, IsKey, Keys!Secret, Keys!Variable, Keys!Forms
<1>4. Keys!Content(provider.key) \in {Keys!None, provider.key}
      /\ (Keys!Content(provider.key) = Keys!None \/ ~ Keys!IsBlank(provider.key))
  BY DEF Keys!Content
<1>5. PICK first : first = Keys!First(Keys!Keys(o))
  OBVIOUS
<1>6. /\ first = IF ~ Keys!IsBlank(o.key) THEN o.key
                 ELSE IF model.can = "language" /\ ~ Keys!Bearing(o) /\ ~ Keys!IsBlank(EnvKey(o)) THEN EnvKey(o)
                 ELSE Keys!Content(provider.key)
      /\ \A s \in Keys!Range(Keys!Keys(o)) : s \in {o.key, provider.key, EnvKey(o)}
  BY <1>5, FirstOfKeys
<1>7. first = Keys!None \/ ~ Keys!IsBlank(first)
  BY <1>2, <1>4, <1>6
<1>8. IsKey(first)
  BY <1>1, <1>2, <1>4, <1>6 DEF IsKey
<1>9. ASSUME NEW d, Dispatched(o, d) PROVE IsKey(d.key)
  <2>1. CASE first # Keys!None
    BY <1>5, <1>8, <1>9, <2>1 DEF Dispatched
  <2>2. CASE first = Keys!None
    BY <1>1, <1>2, <1>3, <1>5, <1>6, <1>9, <2>2 DEF Dispatched
  <2> QED
    BY <2>1, <2>2
<1> QED
  BY <1>5, <1>7, <1>9

\* The key a client comes to: a key with content is never passed over, and a
\* client that has none says so or was told to do without.
LEMMA KeyOfClient ==
  ASSUME NEW o, IsSetting(o), IsProvider(provider), IsModelOf(provider, model),
         NEW d, Dispatched(o, d)
  PROVE  LET key == Keys!ClientApiKey(provider, model.api, d)
             first == Keys!First(Keys!Keys(o))
         IN  /\ key \in {Keys!None, Keys!MissingKey, Keys!Secret("unused", "plain"), d.key}
             /\ ~ Keys!IsBlank(d.key) => key = d.key
             /\ key = Keys!MissingKey /\ model.can = "language" =>
                  ~ Keys!Gives(d, "authorization") /\ ~ Keys!Gives(d, "cf-aig-authorization")
             /\ key # Keys!MissingKey =>
                  \/ ~ Keys!IsBlank(key)
                  \/ Keys!AllowsMissingKey(provider)
                  \/ d.key # Keys!None /\ Keys!IsBlank(d.key)
                  \/ \E h \in Keys!Names : Keys!Gives(d, h)
<1>1. PICK key : key = Keys!ClientApiKey(provider, model.api, d)
  OBVIOUS
<1>2. /\ IsKey(d.key) /\ DOMAIN d.headers = Keys!Names
      /\ "authorization" \in Keys!Names /\ "cf-aig-authorization" \in Keys!Names
  BY FirstIsKey DEF Dispatched, Keys!Names
<1>3. /\ Keys!MissingKey.form = "missing" /\ Keys!Secret("unused", "plain").form = "plain"
      /\ Keys!IsBlank(Keys!None)
  BY DEF Keys!MissingKey, Keys!IsBlank, Keys!None, Keys!Secret, Keys!Variable
<1>4. d.key # Keys!MissingKey /\ Keys!None # Keys!MissingKey
      /\ Keys!Secret("unused", "plain") # Keys!MissingKey
      /\ ~ Keys!IsBlank(Keys!Secret("unused", "plain"))
  <2>1. Keys!None.form = "none"
    BY Secrets
  <2>2. d.key.form # "missing"
    BY <1>2, <2>1 DEF IsKey, Keys!Forms
  <2> QED
    BY <1>3, <2>1, <2>2 DEF Keys!IsBlank
<1> DEFINE Proper ==
             /\ key \in {Keys!None, Keys!MissingKey, Keys!Secret("unused", "plain"), d.key}
             /\ ~ Keys!IsBlank(d.key) => key = d.key
             /\ key = Keys!MissingKey /\ model.can = "language" =>
                  ~ Keys!Gives(d, "authorization") /\ ~ Keys!Gives(d, "cf-aig-authorization")
             /\ key # Keys!MissingKey =>
                  \/ ~ Keys!IsBlank(key)
                  \/ Keys!AllowsMissingKey(provider)
                  \/ d.key # Keys!None /\ Keys!IsBlank(d.key)
                  \/ \E h \in Keys!Names : Keys!Gives(d, h)
<1>5. ASSUME key = Keys!AnthropicKey(d)
      PROVE  Proper
  <2>1. key = IF Keys!IsBlank(d.key) /\ ~ \E h \in Keys!Names : Keys!Gives(d, h)
              THEN Keys!MissingKey ELSE Keys!Content(d.key)
    BY <1>2, <1>5 DEF Keys!AnthropicKey
  <2>2. CASE Keys!IsBlank(d.key) /\ ~ \E h \in Keys!Names : Keys!Gives(d, h)
    BY <1>2, <2>1, <2>2
  <2>3. CASE ~ (Keys!IsBlank(d.key) /\ ~ \E h \in Keys!Names : Keys!Gives(d, h))
    BY <1>4, <2>1, <2>3 DEF Keys!Content
  <2> QED
    BY <2>2, <2>3
<1>6. ASSUME key = Keys!GivenOrUnused(d)
      PROVE  Proper
  <2>1. CASE d.key # Keys!None
    <3>1. key = d.key
      BY <1>6, <2>1 DEF Keys!GivenOrUnused
    <3> QED
      BY <1>4, <2>1, <3>1
  <2>2. CASE d.key = Keys!None /\ (Keys!Gives(d, "authorization") \/ Keys!Gives(d, "cf-aig-authorization"))
    BY <1>3, <1>4, <1>6, <2>2 DEF Keys!GivenOrUnused
  <2>3. CASE d.key = Keys!None /\ ~ (Keys!Gives(d, "authorization") \/ Keys!Gives(d, "cf-aig-authorization"))
    BY <1>3, <1>6, <2>3 DEF Keys!GivenOrUnused
  <2> QED
    BY <2>1, <2>2, <2>3
<1>7. ASSUME key = Keys!ImagesKey(d) /\ model.can # "language"
      PROVE  Proper
  BY <1>4, <1>7 DEF Keys!ImagesKey
<1>8. ASSUME key = Keys!EmbeddingsKey(provider, d) /\ model.can # "language"
      PROVE  Proper
  BY <1>4, <1>8 DEF Keys!EmbeddingsKey, Keys!Content
<1>9. \/ key = Keys!AnthropicKey(d)
      \/ key = Keys!GivenOrUnused(d)
      \/ key = Keys!ImagesKey(d) /\ model.can # "language"
      \/ key = Keys!EmbeddingsKey(provider, d) /\ model.can # "language"
  <2>1. model.api \in {"anthropic-messages", "openai-completions", "openai-responses",
                       "openai-images", "openrouter-images", "openai-embeddings"}
    BY DEF IsModelOf, IsProvider, ProviderApis, Keys!OpenAiApi, Keys!CopilotApi, Keys!Kinds
  <2>2. model.can = Keys!Capability(model.api)
    BY DEF IsModelOf
  <2> QED
    BY <1>1, <2>1, <2>2
    DEF Keys!ClientApiKey, Keys!CompletionsKey, Keys!ResponsesKey, Keys!Capability
<1>10. Proper
  BY <1>5, <1>6, <1>7, <1>8, <1>9
<1> QED
  BY <1>1, <1>10

\* A header is the caller's or the environment's if there is one, and otherwise
\* the model's own, the key or nothing; a key with content is in one of them.
LEMMA HeadersSent ==
  ASSUME NEW p, IsProvider(p), NEW m, IsModelOf(p, m), NEW key,
         NEW d, DOMAIN d.headers = Keys!Names,
         NEW sent, sent = Keys!Headers(m, key, d)
  PROVE  /\ DOMAIN sent = Keys!Names
         /\ \A h \in Keys!Names : d.headers[h] # Keys!None =>
              sent[h] = IF d.headers[h] = Keys!Removed THEN Keys!None ELSE d.headers[h]
         /\ \A h \in Keys!Names : d.headers[h] = Keys!None =>
              sent[h] \in {m.authorization, key, Keys!None, Keys!Secret("nowhere", "empty")}
         /\ ~ Keys!IsBlank(key) =>
              \E h \in Keys!Names : d.headers[h] # Keys!None \/ ~ Keys!IsBlank(sent[h])
<1> DEFINE bearer == IF key = Keys!None THEN Keys!Secret("nowhere", "empty") ELSE key
           computed == [h \in Keys!Names |->
                          IF h = "authorization" /\ m.authorization # Keys!None THEN m.authorization
                          ELSE IF h \in Keys!KeyHeaders(m, key) THEN bearer ELSE Keys!None]
<1>2. sent = [h \in Keys!Names |-> Keys!Applied(computed[h], d.headers[h])]
  BY DEF Keys!Headers
<1>3. Keys!None # Keys!Removed
  BY DEF Keys!None, Keys!Removed, Keys!Secret, Keys!Variable
<1>4. ASSUME NEW h \in Keys!Names
      PROVE  /\ d.headers[h] # Keys!None =>
                  sent[h] = IF d.headers[h] = Keys!Removed THEN Keys!None ELSE d.headers[h]
             /\ d.headers[h] = Keys!None => sent[h] = computed[h]
  BY <1>2, <1>3 DEF Keys!Applied
<1>5. \A h \in Keys!Names :
        computed[h] \in {m.authorization, key, Keys!None, Keys!Secret("nowhere", "empty")}
  OBVIOUS
<1>6. ASSUME ~ Keys!IsBlank(key)
      PROVE  \E h \in Keys!Names : d.headers[h] # Keys!None \/ ~ Keys!IsBlank(sent[h])
  <2>1. key # Keys!None /\ key.form # "empty"
    BY <1>6, Secrets DEF Keys!IsBlank
  <2>2. m.api \in {"anthropic-messages", "openai-completions", "openai-responses",
                   "openai-images", "openrouter-images", "openai-embeddings"}
    BY DEF IsModelOf, IsProvider, ProviderApis, Keys!OpenAiApi, Keys!CopilotApi, Keys!Kinds
  <2>3. PICK h \in {"authorization", "x-api-key"} : h \in Keys!KeyHeaders(m, key)
    <3>1. Keys!KeyHeaders(m, key) \in {{"authorization"}, {"x-api-key"}}
      BY <2>1, <2>2
      DEF Keys!KeyHeaders, Keys!AnthropicHeader, Keys!CompletionsHeader, Keys!ResponsesHeader,
          Keys!ImagesHeader, Keys!OpenRouterHeader, Keys!EmbeddingsHeader
    <3> QED
      BY <3>1
  <2>4. h \in Keys!Names
    BY DEF Keys!Names
  <2>5. computed[h] = IF h = "authorization" /\ m.authorization # Keys!None THEN m.authorization ELSE key
    BY <2>1, <2>3, <2>4
  <2>6. m.authorization = Keys!None \/ ~ Keys!IsBlank(m.authorization)
    BY Secrets DEF IsModelOf, Keys!IsBlank
  <2> QED
    BY <1>4, <1>6, <2>4, <2>5, <2>6
<1> HIDE DEF computed
<1> QED
  BY <1>2, <1>4, <1>5, <1>6

\* What CredentialsInOrder says of a request, and of the refusal for want of a
\* key.
SentWell(o, sent) ==
  /\ ~ o.cancelled
  /\ \A h \in Keys!Names : Keys!Overrides(o, h) => sent[h] = Keys!Applied(Keys!None, o.headers[h])
  /\ \A s \in Keys!Range(Keys!Keys(o)) :
       ~ Keys!IsBlank(s) /\ (\E h \in Keys!Names : sent[h] = s) => s = Keys!First(Keys!Keys(o))
  /\ \A s \in Keys!Range(Keys!Tokens(o)) :
       ~ Keys!IsBlank(s) /\ (\E h \in Keys!Names : sent[h] = s) =>
         s = Keys!First(Keys!Tokens(o)) /\ Keys!IsBlank(o.key)
  /\ ~ Keys!IsBlank(provider.token) /\ (\E h \in Keys!Names : sent[h] = provider.token) =>
       Keys!First(Keys!Keys(o)) = Keys!None /\ ~ Keys!Bearing(o)
  /\ Keys!Bearing(o) /\ ~ Keys!IsBlank(Keys!EnvApiKey("anthropic", o)) =>
       ~ \E h \in Keys!Names : sent[h] = Keys!EnvApiKey("anthropic", o)
  /\ /\ model.can = "language" /\ ~ Keys!Bearing(o)
     /\ ~ Keys!IsBlank(provider.key) /\ (\E h \in Keys!Names : sent[h] = provider.key)
     => \A v \in Keys!Offered(o) : Keys!Hidden(v, o)
  /\ \/ \E h \in Keys!Names : ~ Keys!IsBlank(sent[h])
     \/ Keys!AllowsMissingKey(provider)
     \/ \E s \in Keys!Range(Keys!Keys(o)) \cup {Keys!EnvBearer(o)} : s.form \in {"empty", "blank"}
     \/ \E h \in Keys!Names : Keys!Overrides(o, h)

RefusedWell(o) ==
  /\ Keys!First(Keys!Keys(o)) = Keys!None
  /\ model.can = "language" =>
       /\ ~ Keys!Gives(o, "authorization") /\ ~ Keys!Gives(o, "cf-aig-authorization")
       /\ Keys!Bearing(o) \/ \A v \in Keys!Offered(o) : Keys!Hidden(v, o)
       /\ \/ Keys!Overrides(o, "authorization")
          \/ /\ Keys!EnvBearer(o) = Keys!None
             /\ Keys!IsBlank(provider.token) \/ provider.key # Keys!None

\* A secret in a header that is neither the caller's own header nor the model's
\* is the first key, or the token that was added.
LEMMA SecretSent ==
  ASSUME NEW o, IsSetting(o), IsProvider(provider), IsModelOf(provider, model),
         NEW d, Dispatched(o, d), NEW key, key # Keys!MissingKey,
         key = Keys!ClientApiKey(provider, model.api, d),
         NEW h \in Keys!Names, NEW s, s = Keys!Headers(model, key, d)[h],
         ~ Keys!IsBlank(s), s.from \in {"options", "scoped", "process", "builder", "token"}
  PROVE  \/ s = d.key /\ s = Keys!First(Keys!Keys(o))
         \/ /\ Unheard(o) /\ s # Keys!None /\ Keys!IsBlank(o.key)
            /\ \/ model.provider = "anthropic" /\ s = EnvToken(o)
               \/ /\ s = provider.token /\ Keys!First(Keys!Keys(o)) = Keys!None
                  /\ ~ Keys!Bearing(o)
<1>1. s # Keys!None /\ s.from \notin {"nowhere", "header", "model", "unused", "fixed"}
  BY Secrets DEF Keys!IsBlank
<1>2. PICK first, sent : first = Keys!First(Keys!Keys(o)) /\ sent = Keys!Headers(model, key, d)
  OBVIOUS
<1>3. DOMAIN d.headers = Keys!Names
  BY DEF Dispatched
<1>4. /\ d.headers[h] # Keys!None =>
           s = IF d.headers[h] = Keys!Removed THEN Keys!None ELSE d.headers[h]
      /\ d.headers[h] = Keys!None =>
           s \in {model.authorization, key, Keys!None, Keys!Secret("nowhere", "empty")}
  <2>1. /\ \A x \in Keys!Names : d.headers[x] # Keys!None =>
             sent[x] = IF d.headers[x] = Keys!Removed THEN Keys!None ELSE d.headers[x]
        /\ \A x \in Keys!Names : d.headers[x] = Keys!None =>
             sent[x] \in {model.authorization, key, Keys!None, Keys!Secret("nowhere", "empty")}
    BY <1>2, <1>3, HeadersSent
  <2>2. s = sent[h]
    BY <1>2
  <2> QED
    BY <2>1, <2>2
<1>5. CASE d.headers[h] = Keys!None
  <2>1. model.authorization.from \in {"nowhere", "model"}
    BY Secrets DEF IsModelOf
  <2>2. Keys!Secret("nowhere", "empty").from = "nowhere"
    BY DEF Keys!Secret, Keys!Variable
  <2>3. s = key
    BY <1>1, <1>4, <1>5, <2>1, <2>2
  <2>4. key \in {Keys!None, Keys!MissingKey, Keys!Secret("unused", "plain"), d.key}
    BY KeyOfClient
  <2>5. Keys!Secret("unused", "plain").from = "unused"
    BY DEF Keys!Secret, Keys!Variable
  <2>6. s = d.key
    BY <1>1, <2>3, <2>4, <2>5
  <2>7. \A f \in Fixed : f.from = "fixed"
    BY DEF Fixed, Keys!Secret, Keys!Variable
  <2>8. first = Keys!None => Keys!IsBlank(d.key) \/ d.key \in Fixed
    BY <1>2 DEF Dispatched
  <2>9. first # Keys!None
    BY <1>1, <2>6, <2>7, <2>8
  <2> QED
    BY <1>2, <2>6, <2>9 DEF Dispatched
<1>6. CASE d.headers[h] # Keys!None
  <2>1. s = d.headers[h]
    BY <1>1, <1>4, <1>6
  <2>2. o.headers[h].from \in {"nowhere", "header"}
    BY Secrets DEF IsSetting
  <2>3. s # o.headers[h]
    BY <1>1, <2>2
  <2>4. h = "authorization" /\ Unheard(o)
    BY <2>1, <2>3 DEF Dispatched
  <2> QED
    BY <1>1, <1>2, <2>1, <2>4 DEF Dispatched
<1> QED
  BY <1>5, <1>6

\* A request that goes out is as the property says.
LEMMA RequestInOrder ==
  ASSUME NEW o, IsSetting(o), IsProvider(provider), IsModelOf(provider, model),
         NEW d, Dispatched(o, d), ~ d.cancelled, NEW key, key # Keys!MissingKey,
         key = Keys!ClientApiKey(provider, model.api, d),
         NEW sent, sent = Keys!Headers(model, key, d)
  PROVE  SentWell(o, sent)
<1>1. PICK first, given :
        first = Keys!First(Keys!Keys(o)) /\ given = Keys!First(Keys!Tokens(o))
  OBVIOUS
<1>2. DOMAIN d.headers = Keys!Names /\ d.cancelled = o.cancelled
  BY DEF Dispatched
<1>3. /\ \A h \in Keys!Names : d.headers[h] # Keys!None =>
           sent[h] = IF d.headers[h] = Keys!Removed THEN Keys!None ELSE d.headers[h]
      /\ ~ Keys!IsBlank(key) =>
           \E h \in Keys!Names : d.headers[h] # Keys!None \/ ~ Keys!IsBlank(sent[h])
  BY <1>2, HeadersSent
<1> DEFINE Carried(s) == \E h \in Keys!Names : sent[h] = s
           KeyPlaces == {"options", "scoped", "process", "builder", "token"}
<1>4. ASSUME NEW s, Carried(s), ~ Keys!IsBlank(s), s.from \in KeyPlaces
      PROVE  \/ s = d.key /\ s = first
             \/ /\ s # Keys!None /\ Keys!IsBlank(o.key)
                /\ \/ model.provider = "anthropic" /\ s = EnvToken(o)
                   \/ s = provider.token /\ first = Keys!None /\ ~ Keys!Bearing(o)
  <2>1. PICK h \in Keys!Names : sent[h] = s
    BY <1>4
  <2> QED
    BY <1>1, <1>4, <2>1, SecretSent
<1>5. /\ \A s \in EnvKeys : s.from \in {"scoped", "process"} /\ s.name # "ANTHROPIC_AUTH_TOKEN"
      /\ \A s \in EnvTokens : s.from \in {"scoped", "process"} /\ s.name = "ANTHROPIC_AUTH_TOKEN"
      /\ o.key = Keys!None \/ o.key.from = "options"
      /\ provider.key = Keys!None \/ provider.key.from = "builder"
      /\ provider.token = Keys!None \/ provider.token.from = "token"
           \/ (provider.token.from = "builder" /\ provider.key = Keys!None)
      /\ Keys!IsBlank(Keys!None)
      /\ EnvToken(o) \in EnvTokens \cup {Keys!None} /\ EnvKey(o) \in EnvKeys \cup {Keys!None}
      /\ \A s \in EnvTokens : s.form \in EnvForms
  <2>1. provider.token = Keys!None \/ provider.token.from = "token"
           \/ (provider.token.from = "builder" /\ provider.key = Keys!None)
    <3>1. CASE provider.token \in HeldKeys
      BY <3>1, Secrets DEF IsProvider, HeldKeys
    <3>2. CASE provider.token \in Keys!OrNone("token", Keys!Forms)
      BY <3>2, Secrets
    <3> QED
      BY <3>1, <3>2 DEF IsProvider, HeldTokens
  <2>2. EnvToken(o) \in EnvTokens \cup {Keys!None} /\ EnvKey(o) \in EnvKeys \cup {Keys!None}
    BY EnvValues, EnvKeyFound DEF IsSetting, EnvToken, EnvKey
  <2> QED
    BY <2>1, <2>2, Secrets DEF IsSetting, IsProvider, HeldKeys, Keys!IsBlank
<1>6. ~ o.cancelled
  BY <1>2
<1>7. ASSUME NEW h \in Keys!Names, Keys!Overrides(o, h)
      PROVE  sent[h] = Keys!Applied(Keys!None, o.headers[h])
  <2>1. o.headers[h] # Keys!None
    BY <1>7 DEF Keys!Overrides
  <2>2. d.headers[h] = o.headers[h]
    BY <2>1 DEF Dispatched, Unheard
  <2> QED
    BY <1>3, <2>1, <2>2 DEF Keys!Applied
<1>8. \A s \in Keys!Range(Keys!Keys(o)) :
        \/ s \in {o.key, provider.key}
        \/ s \in EnvKeys \cup {Keys!None} /\ ~ Keys!Bearing(o)
  BY <1>5, FirstOfKeys
<1>9. ASSUME NEW s \in Keys!Range(Keys!Keys(o)), ~ Keys!IsBlank(s), Carried(s)
      PROVE  s = first
  <2>1. s \in {o.key, provider.key} \cup EnvKeys /\ s # Keys!None
    BY <1>5, <1>8, <1>9
  <2>2. s.from \in KeyPlaces
    BY <1>5, <2>1
  <2>3. s # EnvToken(o) /\ s # provider.token
    <3>1. CASE s = o.key
      BY <1>5, <2>1, <3>1
    <3>2. CASE s = provider.key
      BY <1>5, <2>1, <3>2
    <3>3. CASE s \in EnvKeys
      BY <1>5, <2>1, <3>3
    <3> QED
      BY <2>1, <3>1, <3>2, <3>3
  <2> HIDE DEF Carried, KeyPlaces
  <2> QED
    BY <1>4, <1>9, <2>2, <2>3
<1>10. ASSUME NEW s \in {provider.token} \cup EnvTokens, ~ Keys!IsBlank(s), Carried(s)
       PROVE  /\ Keys!IsBlank(o.key)
              /\ s \in EnvTokens => model.provider = "anthropic" /\ s = EnvToken(o)
              /\ s = provider.token => first = Keys!None /\ ~ Keys!Bearing(o)
  <2>1. s # Keys!None /\ s.from \in KeyPlaces
    BY <1>5, <1>10
  <2>2. s \notin {o.key, provider.key} \cup EnvKeys
    BY <1>5, <1>10, <2>1
  <2>3. s # first
    BY <1>1, <1>5, <2>1, <2>2, FirstOfKeys DEF Keys!Content
  <2>4. ~ (s = provider.token /\ s \in EnvTokens)
    BY <1>5, <2>1
  <2> HIDE DEF Carried, KeyPlaces
  <2> QED
    BY <1>4, <1>5, <1>10, <2>1, <2>3, <2>4
<1>11. ASSUME NEW s \in Keys!Range(Keys!Tokens(o)), ~ Keys!IsBlank(s), Carried(s)
       PROVE  s = given /\ Keys!IsBlank(o.key)
  <2>1. s = provider.token \/ (s \in EnvTokens /\ s = EnvToken(o))
    BY <1>5, <1>11, FirstOfTokens
  <2>2. given = IF model.provider = "anthropic" /\ ~ Keys!IsBlank(EnvToken(o)) THEN EnvToken(o)
                ELSE Keys!Content(provider.token)
    BY <1>1, FirstOfTokens
  <2> HIDE DEF Carried
  <2>3. CASE s = provider.token
    <3>1. Keys!IsBlank(o.key) /\ ~ Keys!Bearing(o)
      BY <1>10, <1>11, <2>3
    <3>2. model.provider = "anthropic" => EnvToken(o) = Keys!None
      BY <3>1 DEF Keys!Bearing, Keys!EnvBearer, EnvToken
    <3> QED
      BY <1>5, <1>11, <2>2, <2>3, <3>1, <3>2 DEF Keys!Content
  <2>4. CASE s \in EnvTokens /\ s = EnvToken(o)
    BY <1>10, <1>11, <2>2, <2>4
  <2> QED
    BY <2>1, <2>3, <2>4
<1>12. ASSUME Keys!Bearing(o), ~ Keys!IsBlank(Keys!EnvApiKey("anthropic", o))
       PROVE  ~ Carried(Keys!EnvApiKey("anthropic", o))
  <2>1. PICK s \in EnvKeys : s = Keys!EnvApiKey("anthropic", o)
    BY <1>5, <1>12, EnvKeyFound DEF IsSetting
  <2>2. ~ Keys!IsBlank(s) /\ s.from \in KeyPlaces
    BY <1>5, <1>12, <2>1
  <2>3. s # provider.token /\ s # EnvToken(o)
    BY <1>5, <1>12, <2>1, <2>2
  <2>4. s # d.key
    BY <1>12 DEF Dispatched
  <2> HIDE DEF Carried, KeyPlaces
  <2> QED
    BY <1>4, <2>1, <2>2, <2>3, <2>4
<1>13. ASSUME model.can = "language", ~ Keys!Bearing(o), ~ Keys!IsBlank(provider.key), Carried(provider.key)
       PROVE  \A v \in Keys!Offered(o) : Keys!Hidden(v, o)
  <2>1. provider.key = first
    <3>1. provider.key \in Keys!Range(Keys!Keys(o))
      BY FirstOfKeys
    <3> HIDE DEF Carried
    <3> QED
      BY <1>9, <1>13, <3>1
  <2>2. provider.key \notin {o.key, EnvKey(o)}
    BY <1>5, <1>13
  <2>3. Keys!IsBlank(EnvKey(o))
    BY <1>1, <1>13, <2>1, <2>2, FirstOfKeys
  <2> QED
    BY <2>3, HiddenAlone DEF IsSetting
<1>14. \/ \E h \in Keys!Names : ~ Keys!IsBlank(sent[h])
       \/ Keys!AllowsMissingKey(provider)
       \/ \E s \in Keys!Range(Keys!Keys(o)) \cup {Keys!EnvBearer(o)} : s.form \in {"empty", "blank"}
       \/ \E h \in Keys!Names : Keys!Overrides(o, h)
  <2>1. \/ ~ Keys!IsBlank(key)
        \/ Keys!AllowsMissingKey(provider)
        \/ d.key # Keys!None /\ Keys!IsBlank(d.key)
        \/ \E h \in Keys!Names : Keys!Gives(d, h)
    BY KeyOfClient
  <2>2. ASSUME NEW h \in Keys!Names, d.headers[h] # Keys!None
        PROVE  ~ Keys!IsBlank(sent[h]) \/ Keys!Overrides(o, h) \/ Keys!EnvBearer(o).form = "blank"
    <3>1. CASE o.headers[h] # Keys!None
      BY <3>1 DEF Keys!Overrides
    <3>2. CASE o.headers[h] = Keys!None
      <4>1. h = "authorization" /\ Unheard(o)
        BY <2>2, <3>2 DEF Dispatched
      <4>2. \/ model.provider = "anthropic" /\ d.headers[h] = EnvToken(o)
            \/ d.headers[h] = provider.token /\ ~ Keys!IsBlank(provider.token)
        BY <2>2, <4>1 DEF Dispatched
      <4>3. Keys!Removed.from = "header"
        BY DEF Keys!Removed, Keys!Secret, Keys!Variable
      <4>4. d.headers[h] # Keys!Removed
        BY <1>5, <2>2, <4>2, <4>3
      <4>5. sent[h] = d.headers[h]
        BY <1>3, <2>2, <4>4
      <4>6. CASE model.provider = "anthropic" /\ d.headers[h] = EnvToken(o)
        <5>1. EnvToken(o).form \in EnvForms /\ EnvToken(o) = Keys!EnvBearer(o)
          BY <1>5, <2>2, <4>6 DEF Keys!EnvBearer, EnvToken
        <5> QED
          BY <4>5, <4>6, <5>1 DEF EnvForms, Keys!IsBlank
      <4> QED
        BY <4>2, <4>5, <4>6
    <3> QED
      BY <3>1, <3>2
  <2>3. CASE ~ Keys!IsBlank(key)
    BY <1>3, <2>2, <2>3
  <2>4. CASE d.key # Keys!None /\ Keys!IsBlank(d.key)
    <3>1. IsKey(d.key)
      BY FirstIsKey
    <3>2. d.key.form \in {"empty", "blank"}
      BY <2>4, <3>1 DEF IsKey, Keys!IsBlank, Keys!Forms
    <3>3. first = Keys!None
      BY <1>1, <2>4, FirstIsKey DEF Dispatched
    <3>4. d.key \in Keys!Range(Keys!Keys(o)) \/ Keys!AllowsMissingKey(provider)
      BY <1>1, <3>3 DEF Dispatched
    <3> QED
      BY <3>2, <3>4
  <2>5. CASE \E h \in Keys!Names : Keys!Gives(d, h)
    <3>1. \E h \in Keys!Names : d.headers[h] # Keys!None
      BY <2>5 DEF Keys!Gives, Keys!Overrides
    <3> QED
      BY <2>2, <3>1
  <2> QED
    BY <2>1, <2>3, <2>4, <2>5
<1>15. ~ Keys!IsBlank(provider.token) /\ Carried(provider.token) => first = Keys!None /\ ~ Keys!Bearing(o)
  BY <1>10
<1> QED
  BY <1>1, <1>6, <1>7, <1>9, <1>11, <1>12, <1>13, <1>14, <1>15 DEF SentWell

\* A call is refused for want of a key only when the property allows it.
LEMMA RefusalInOrder ==
  ASSUME NEW o, IsSetting(o), IsProvider(provider), IsModelOf(provider, model),
         NEW d, Dispatched(o, d),
         Keys!ClientApiKey(provider, model.api, d) = Keys!MissingKey
  PROVE  RefusedWell(o)
<1>1. PICK first : first = Keys!First(Keys!Keys(o))
  OBVIOUS
<1>2. IsKey(d.key)
  BY FirstIsKey
<1>3. Keys!IsBlank(d.key)
  <2>1. ~ Keys!IsBlank(d.key) => d.key = Keys!MissingKey
    BY KeyOfClient
  <2>2. Keys!MissingKey.form = "missing"
    BY DEF Keys!MissingKey, Keys!Secret, Keys!Variable
  <2>3. Keys!None.form = "none"
    BY Secrets
  <2>4. d.key # Keys!MissingKey
    BY <1>2, <2>2, <2>3 DEF IsKey, Keys!Forms
  <2> QED
    BY <2>1, <2>4
<1>4. first = Keys!None
  BY <1>1, <1>3, FirstIsKey DEF Dispatched
<1>5. ASSUME model.can = "language", NEW h \in {"authorization", "cf-aig-authorization"}
      PROVE  ~ Keys!Gives(o, h)
  <2>1. ~ Keys!Gives(d, h)
    BY <1>5, KeyOfClient
  <2>2. CASE h = "authorization" /\ Unheard(o)
    BY <2>2 DEF Unheard, Keys!Gives, Keys!Overrides
  <2>3. CASE h # "authorization" \/ ~ Unheard(o)
    <3>1. d.headers[h] = o.headers[h]
      BY <2>3 DEF Dispatched, Keys!Names
    <3> QED
      BY <2>1, <3>1 DEF Keys!Gives, Keys!Overrides
  <2> QED
    BY <2>2, <2>3
<1>6. ASSUME model.can = "language", ~ Keys!Bearing(o)
      PROVE  \A v \in Keys!Offered(o) : Keys!Hidden(v, o)
  <2>1. Keys!IsBlank(Keys!None) /\ IsEnv(o)
    BY Secrets DEF Keys!IsBlank, IsSetting
  <2>2. Keys!IsBlank(EnvKey(o))
    BY <1>1, <1>4, <1>6, <2>1, FirstOfKeys
  <2> QED
    BY <2>1, <2>2, HiddenAlone
<1>7. ASSUME model.can = "language", Unheard(o),
             Keys!EnvBearer(o) # Keys!None \/ (~ Keys!IsBlank(provider.token) /\ provider.key = Keys!None)
      PROVE  FALSE
  <2>1. d.headers["authorization"] # Keys!None
    BY <1>1, <1>4, <1>7 DEF Dispatched, Keys!EnvBearer, EnvToken
  <2>2. d.headers["authorization"] \in {EnvToken(o), provider.token}
    BY <1>7, <2>1 DEF Dispatched
  <2>3. EnvToken(o) \in EnvTokens \cup {Keys!None}
    BY EnvValues DEF EnvToken, IsSetting
  <2>4. \A s \in EnvTokens \cup {Keys!None} : s.from # "header"
    BY Secrets
  <2>5. provider.token.from # "header"
    BY Secrets DEF IsProvider, HeldTokens, HeldKeys
  <2>6. d.headers["authorization"].from # "header"
    BY <2>2, <2>3, <2>4, <2>5
  <2>7. Keys!Gives(d, "authorization")
    BY <2>1, <2>6 DEF Keys!Gives, Keys!Overrides
  <2> QED
    BY <1>7, <2>7, KeyOfClient
<1>8. model.can = "language" =>
        \/ Keys!Overrides(o, "authorization")
        \/ /\ Keys!EnvBearer(o) = Keys!None
           /\ Keys!IsBlank(provider.token) \/ provider.key # Keys!None
  BY <1>7 DEF Unheard, Keys!Overrides
<1> QED
  BY <1>1, <1>4, <1>5, <1>6, <1>8 DEF RefusedWell

\* What a client looks at.
Obstacles == {"cancelled", "key", "payload", "hook", "header"}

IsOrder(order) ==
  /\ DOMAIN order \subseteq 1..6
  /\ \A i \in DOMAIN order : order[i] \in Obstacles
  /\ \A obstacle \in {"cancelled", "key"} : \E i \in DOMAIN order : order[i] = obstacle

\* Every client looks at the token and at the key, by stream_simple too.
LEMMA Orders ==
  ASSUME NEW api, api \in {"anthropic-messages", "openai-completions", "openai-responses",
                           "openai-images", "openrouter-images", "openai-embeddings"}
  PROVE  IsOrder(Keys!Order(api)) /\ IsOrder(<<"key">> \o Keys!Order(api))
<1>1. PICK order : order = Keys!Order(api)
  OBVIOUS
<1> DEFINE StreamOrder == <<"cancelled", "key", "payload", "hook", "header">>
           ImageOrder == <<"key", "payload", "hook", "header", "cancelled">>
           PlainOrder == <<"key", "hook", "header", "cancelled">>
<1>2. order \in {StreamOrder, ImageOrder, PlainOrder}
  BY <1>1 DEF Keys!Order, Keys!AnthropicOrder, Keys!CompletionsOrder, Keys!ResponsesOrder,
    Keys!ImagesOrder, Keys!OpenRouterOrder, Keys!EmbeddingsOrder
<1>3. /\ DOMAIN StreamOrder = 1..5 /\ Len(StreamOrder) = 5 /\ StreamOrder \in Seq(Obstacles)
      /\ StreamOrder[1] = "cancelled" /\ StreamOrder[2] = "key"
  BY DEF Obstacles
<1>4. /\ DOMAIN ImageOrder = 1..5 /\ Len(ImageOrder) = 5 /\ ImageOrder \in Seq(Obstacles)
      /\ ImageOrder[1] = "key" /\ ImageOrder[5] = "cancelled"
  BY DEF Obstacles
<1>5. /\ DOMAIN PlainOrder = 1..4 /\ Len(PlainOrder) = 4 /\ PlainOrder \in Seq(Obstacles)
      /\ PlainOrder[1] = "key" /\ PlainOrder[4] = "cancelled"
  BY DEF Obstacles
<1> HIDE DEF StreamOrder, ImageOrder, PlainOrder
<1>6. PICK n \in {4, 5}, i \in 1..5, j \in 1..5 :
        /\ order \in Seq(Obstacles) /\ Len(order) = n /\ DOMAIN order = 1..n
        /\ i <= n /\ j <= n /\ order[i] = "cancelled" /\ order[j] = "key"
  BY <1>2, <1>3, <1>4, <1>5
<1>7. IsOrder(order)
  <2>1. \A k \in DOMAIN order : order[k] \in Obstacles
    BY <1>6, ElementOfSeq
  <2> QED
    BY <1>6, <2>1 DEF IsOrder
<1>8. PICK simple : simple = <<"key">> \o order
  OBVIOUS
<1>9. /\ simple \in Seq(Obstacles) /\ Len(simple) = n + 1
      /\ \A k \in 1..n : simple[k + 1] = order[k]
  <2>1. <<"key">> \in Seq(Obstacles) /\ Len(<<"key">>) = 1
    BY DEF Obstacles
  <2> HIDE DEF Obstacles
  <2> QED
    BY <1>6, <1>8, <2>1, ConcatProperties
<1>10. IsOrder(simple)
  <2>1. DOMAIN simple = 1..(n + 1)
    BY <1>6, <1>9, LenProperties
  <2>2. \A k \in DOMAIN simple : simple[k] \in Obstacles
    BY <1>6, <1>9, <2>1, ElementOfSeq
  <2>3. simple[i + 1] = "cancelled" /\ simple[j + 1] = "key"
    BY <1>6, <1>9
  <2>4. i + 1 \in DOMAIN simple /\ j + 1 \in DOMAIN simple
    BY <1>6, <2>1
  <2> QED
    BY <1>6, <2>1, <2>2, <2>3, <2>4 DEF IsOrder
<1> QED
  BY <1>1, <1>7, <1>8, <1>10

\* What a client comes to: a request if nothing stands in its way, and a refusal
\* by what does.
LEMMA Preparing ==
  ASSUME NEW p, NEW m, NEW order, IsOrder(order), NEW o, NEW d, NEW context,
         NEW key, key = Keys!ClientApiKey(p, m.api, d)
  PROVE  LET out == Keys!Prepared(p, m, order, o, d, context)
         IN  \/ /\ out.kind = "sent" /\ out.asked = o /\ out.headers = Keys!Headers(m, key, d)
                /\ ~ d.cancelled /\ key # Keys!MissingKey
             \/ /\ out.kind \in Obstacles /\ out.asked = o
                /\ out.kind = "key" => key = Keys!MissingKey
<1> DEFINE met == {i \in DOMAIN order : Keys!Stands(order[i], key, d)}
<1>1. PICK out : out = Keys!Prepared(p, m, order, o, d, context)
  OBVIOUS
<1>2. out = IF met = {} THEN Keys!Sent(m, key, o, d, context)
            ELSE Keys!Refused(order[Keys!Firstly(met)], o)
  BY <1>1 DEF Keys!Prepared
<1>3. CASE met = {}
  <2>1. \A obstacle \in {"cancelled", "key"} : ~ Keys!Stands(obstacle, key, d)
    BY <1>3 DEF IsOrder
  <2>2. ~ d.cancelled /\ key # Keys!MissingKey
    BY <2>1 DEF Keys!Stands
  <2>3. out.kind = "sent" /\ out.asked = o /\ out.headers = Keys!Headers(m, key, d)
    BY <1>2, <1>3 DEF Keys!Sent
  <2> QED
    BY <1>1, <2>2, <2>3
<1>4. CASE met # {}
  <2>1. met \subseteq 1..6
    BY DEF IsOrder
  <2> HIDE DEF met
  <2>2. \E i \in met : \A j \in met : i <= j
    <3>1. \A i \in met : i \in {1, 2, 3, 4, 5, 6}
      BY <2>1
    <3> QED
      BY <1>4, <3>1
  <2>3. Keys!Firstly(met) \in met
    BY <2>2 DEF Keys!Firstly
  <2>4. PICK i \in met : out = Keys!Refused(order[i], o)
    BY <1>2, <1>4, <2>3
  <2>5. order[i] \in Obstacles /\ Keys!Stands(order[i], key, d)
    BY <2>4 DEF met, IsOrder
  <2>6. out.kind = order[i] /\ out.asked = o
    BY <2>4 DEF Keys!Refused
  <2>7. out.kind = "key" => key = Keys!MissingKey
    BY <2>5, <2>6 DEF Keys!Stands
  <2> QED
    BY <1>1, <2>5, <2>6, <2>7
<1> QED
  BY <1>3, <1>4

\* The settings the constants give.
LEMMA KnownSettings ==
  /\ \A o \in Settings : IsSetting(o)
  /\ \A b \in Builders :
       /\ b.key \in HeldKeys /\ b.token \in Keys!OrNone("token", Keys!Forms)
       /\ b.id \in {"default", "own"}
       /\ b = [key |-> b.key, token |-> b.token, url |-> b.url, id |-> b.id, api |-> b.api]
  /\ \A auth \in ModelAuth : auth \in Keys!OrNone("model", {"plain"})
<1>1. Keys!Fit
  BY AccessAssumption
<1>2. \A o \in Settings : IsSetting(o)
  <2> SUFFICES ASSUME NEW o \in Settings PROVE IsSetting(o)
    OBVIOUS
  <2>1. o \in [key : Keys!OrNone("options", Keys!Forms),
               headers : [Keys!Names -> Keys!OrNone("header", {"removed", "empty", "plain"})],
               scoped : [Keys!Variables -> Keys!Values], process : [Keys!Variables -> Keys!Values],
               hook : {"none", "replaces", "fails"}, cancelled : BOOLEAN, unfit : BOOLEAN, broken : BOOLEAN]
    BY <1>1 DEF Keys!Fit
  <2> QED
    BY <2>1 DEF IsSetting, Plainly, IsEnv
<1>3. \A b \in Builders :
        /\ b.key \in HeldKeys /\ b.token \in Keys!OrNone("token", Keys!Forms)
        /\ b.id \in {"default", "own"}
        /\ b = [key |-> b.key, token |-> b.token, url |-> b.url, id |-> b.id, api |-> b.api]
  <2> SUFFICES ASSUME NEW b \in Builders
               PROVE  /\ b.key \in HeldKeys /\ b.token \in Keys!OrNone("token", Keys!Forms)
                      /\ b.id \in {"default", "own"}
                      /\ b = [key |-> b.key, token |-> b.token, url |-> b.url, id |-> b.id, api |-> b.api]
    OBVIOUS
  <2>1. b \in [key : Keys!OrNone("builder", Keys!Forms), token : Keys!OrNone("token", Keys!Forms),
               url : {"default", "own"}, id : {"default", "own"}, api : STRING]
    BY <1>1 DEF Keys!Fit
  <2> QED
    BY <2>1 DEF HeldKeys
<1>4. \A auth \in ModelAuth : auth \in Keys!OrNone("model", {"plain"})
  BY <1>1 DEF Keys!Fit
<1> QED
  BY <1>2, <1>3, <1>4

\* What the two properties say of a request is a matter of the provider and the
\* model alone.
LEMMA InOrderStays ==
  ASSUME UNCHANGED <<provider, model>>, NEW o, outcome'.asked = o, IsSetting(o),
         \/ /\ outcome'.kind = "sent"
            /\ DOMAIN outcome'.headers = Keys!Names /\ SentWell(o, outcome'.headers)
         \/ outcome'.kind = "key" /\ RefusedWell(o)
         \/ outcome'.kind \notin {"sent", "key"}
  PROVE  Keys!CredentialsInOrder'
<1>1. DOMAIN o.headers = Keys!Names /\ "authorization" \in Keys!Names
  BY DEF IsSetting, Keys!Names
<1>2. /\ (Keys!Bearing(o))' <=> Keys!Bearing(o)
      /\ (Keys!EnvBearer(o))' = Keys!EnvBearer(o) /\ (Keys!Offered(o))' = Keys!Offered(o)
  BY DEF Keys!Bearing, Keys!EnvBearer, Keys!Offered
<1>3. Keys!Keys(o)' = Keys!Keys(o) /\ Keys!Tokens(o)' = Keys!Tokens(o)
  BY <1>2 DEF Keys!Keys, Keys!Tokens
<1>4. CASE outcome'.kind = "sent" /\ SentWell(o, outcome'.headers)
             /\ DOMAIN outcome'.headers = Keys!Names
  <2>1. \A s : (Keys!Carries(s))' <=> \E h \in Keys!Names : outcome'.headers[h] = s
    BY <1>4 DEF Keys!Carries
  <2>2. /\ ~ o.cancelled
        /\ \A h \in DOMAIN o.headers :
             Keys!Overrides(o, h) => outcome'.headers[h] = Keys!Applied(Keys!None, o.headers[h])
        /\ \/ \E h \in DOMAIN o.headers : ~ Keys!IsBlank(outcome'.headers[h])
           \/ Keys!AllowsMissingKey(provider')
           \/ \E s \in Keys!Range(Keys!Keys(o)') \cup {(Keys!EnvBearer(o))'} :
                s.form \in {"empty", "blank"}
           \/ \E h \in DOMAIN o.headers : Keys!Overrides(o, h)
    BY <1>1, <1>2, <1>3, <1>4 DEF SentWell
  <2>3. /\ \A s \in Keys!Range(Keys!Keys(o)') :
             ~ Keys!IsBlank(s) /\ (Keys!Carries(s))' => s = Keys!First(Keys!Keys(o)')
        /\ \A s \in Keys!Range(Keys!Tokens(o)') :
             ~ Keys!IsBlank(s) /\ (Keys!Carries(s))' =>
               s = Keys!First(Keys!Tokens(o)') /\ Keys!IsBlank(o.key)
    BY <1>3, <1>4, <2>1 DEF SentWell
  <2>4. /\ ~ Keys!IsBlank(provider.token') /\ (Keys!Carries(provider.token))' =>
             Keys!First(Keys!Keys(o)') = Keys!None /\ ~ (Keys!Bearing(o))'
        /\ (Keys!Bearing(o))' /\ ~ Keys!IsBlank(Keys!EnvApiKey("anthropic", o)) =>
             ~ (Keys!Carries(Keys!EnvApiKey("anthropic", o)))'
        /\ /\ model'.can = "language" /\ ~ (Keys!Bearing(o))'
           /\ ~ Keys!IsBlank(provider.key') /\ (Keys!Carries(provider.key))'
           => \A v \in (Keys!Offered(o))' : Keys!Hidden(v, o)
    <3>1. (Keys!Carries(provider.token))' <=> \E h \in Keys!Names : outcome'.headers[h] = provider.token
      BY <1>4 DEF Keys!Carries
    <3>2. (Keys!Carries(Keys!EnvApiKey("anthropic", o)))'
            <=> \E h \in Keys!Names : outcome'.headers[h] = Keys!EnvApiKey("anthropic", o)
      BY <1>4 DEF Keys!Carries
    <3>3. (Keys!Carries(provider.key))' <=> \E h \in Keys!Names : outcome'.headers[h] = provider.key
      BY <1>4 DEF Keys!Carries
    <3> QED
      BY <1>2, <1>3, <1>4, <3>1, <3>2, <3>3 DEF SentWell
  <2>5. outcome'.kind # "key"
    BY <1>4
  <2> QED
    BY <2>2, <2>3, <2>4, <2>5 DEF Keys!CredentialsInOrder
<1>5. CASE outcome'.kind = "key" /\ RefusedWell(o)
  BY <1>1, <1>2, <1>3, <1>5 DEF RefusedWell, Keys!CredentialsInOrder
<1>6. CASE outcome'.kind \notin {"sent", "key"}
  BY <1>6 DEF Keys!CredentialsInOrder
<1> QED
  BY <1>4, <1>5, <1>6

\* A call ends in a request or a refusal that is in order.
LEMMA CallInOrder ==
  ASSUME AccessInv, Keys!Call
  PROVE  Keys!CredentialsInOrder' /\ UNCHANGED <<provider, model>> /\ model.kind = "model"
<1>1. UNCHANGED <<provider, model>> /\ model.kind = "model"
  BY DEF Keys!Call
<1>2. IsProvider(provider) /\ IsModelOf(provider, model)
  BY <1>1 DEF AccessInv
<1>3. model.api \in {"anthropic-messages", "openai-completions", "openai-responses",
                     "openai-images", "openrouter-images", "openai-embeddings"}
  BY <1>2 DEF IsModelOf, IsProvider, ProviderApis, Keys!OpenAiApi, Keys!CopilotApi, Keys!Kinds
<1>4. PICK o \in Settings :
        \/ \E context \in Contexts : Keys!Stream(o, context) \/ Keys!StreamSimple(o, context)
        \/ \E can \in {"image", "embedding"} : Keys!GenerateOrEmbed(o, can)
  BY DEF Keys!Call
<1>5. IsSetting(o)
  BY KnownSettings
<1>6. ASSUME NEW e, NEW order, NEW context, IsOrder(order),
             \/ model.can = "language" /\ e = Keys!WithEnvApiKey(model.provider, o)
             \/ model.can # "language" /\ e = o,
             outcome' = Keys!Prepared(provider, model, order, o,
                                      Keys!WithApiKey(provider, model.api, e), context)
      PROVE  Keys!CredentialsInOrder'
  <2>1. PICK d : d = Keys!WithApiKey(provider, model.api, e)
    OBVIOUS
  <2>2. Dispatched(o, d)
    BY <1>2, <1>5, <1>6, <2>1, OptionsDispatched
  <2>3. PICK key, sent : /\ key = Keys!ClientApiKey(provider, model.api, d)
                         /\ sent = Keys!Headers(model, key, d)
    OBVIOUS
  <2>4. outcome' = Keys!Prepared(provider, model, order, o, d, context)
    BY <1>6, <2>1
  <2>5. \/ /\ outcome'.kind = "sent" /\ outcome'.asked = o /\ outcome'.headers = sent
           /\ ~ d.cancelled /\ key # Keys!MissingKey
        \/ /\ outcome'.kind \in Obstacles /\ outcome'.asked = o
           /\ outcome'.kind = "key" => key = Keys!MissingKey
    BY <1>6, <2>3, <2>4, Preparing
  <2>6. CASE /\ outcome'.kind = "sent" /\ outcome'.asked = o /\ outcome'.headers = sent
             /\ ~ d.cancelled /\ key # Keys!MissingKey
    <3>1. SentWell(o, sent)
      BY <1>2, <1>5, <2>2, <2>3, <2>6, RequestInOrder
    <3>2. DOMAIN d.headers = Keys!Names
      BY <2>2 DEF Dispatched
    <3>3. DOMAIN sent = Keys!Names
      BY <1>2, <2>3, <3>2, HeadersSent
    <3> QED
      BY <1>1, <1>5, <2>6, <3>1, <3>3, InOrderStays
  <2>7. CASE /\ outcome'.kind \in Obstacles /\ outcome'.asked = o
             /\ outcome'.kind = "key" => key = Keys!MissingKey
    <3>1. key = Keys!MissingKey => RefusedWell(o)
      BY <1>2, <1>5, <2>2, <2>3, RefusalInOrder
    <3>2. outcome'.kind # "sent"
      BY <2>7 DEF Obstacles
    <3> QED
      BY <1>1, <1>5, <2>7, <3>1, <3>2, InOrderStays
  <2> QED
    BY <2>5, <2>6, <2>7
<1>7. outcome' = [kind |-> "UnsupportedCapability"] => Keys!CredentialsInOrder'
  BY DEF Keys!CredentialsInOrder
<1>8. ASSUME NEW context, Keys!Stream(o, context)
      PROVE  Keys!CredentialsInOrder'
  <2>1. CASE model.can = "language"
    BY <1>3, <1>6, <1>8, <2>1, Orders DEF Keys!Stream
  <2>2. CASE model.can # "language"
    BY <1>7, <1>8, <2>2 DEF Keys!Stream
  <2> QED
    BY <2>1, <2>2
<1>9. ASSUME NEW context, Keys!StreamSimple(o, context)
      PROVE  Keys!CredentialsInOrder'
  <2>1. CASE model.can = "language"
    BY <1>3, <1>6, <1>9, <2>1, Orders DEF Keys!StreamSimple
  <2>2. CASE model.can # "language"
    BY <1>7, <1>9, <2>2 DEF Keys!StreamSimple
  <2> QED
    BY <2>1, <2>2
<1>10. ASSUME NEW can \in {"image", "embedding"}, Keys!GenerateOrEmbed(o, can)
       PROVE  Keys!CredentialsInOrder'
  <2>1. CASE model.can = can
    <3>1. outcome' = Keys!Prepared(provider, model, Keys!Order(model.api), o,
                                   Keys!WithApiKey(provider, model.api, o), Keys!Bare)
      BY <1>10, <2>1 DEF Keys!GenerateOrEmbed
    <3>2. model.can # "language"
      BY <2>1
    <3> QED
      BY <1>3, <1>6, <3>1, <3>2, Orders
  <2>2. CASE model.can # can
    BY <1>7, <1>10, <2>2 DEF Keys!GenerateOrEmbed
  <2> QED
    BY <2>1, <2>2
<1> QED
  BY <1>1, <1>4, <1>8, <1>9, <1>10

\* Every step on the way to a provider keeps the invariant.
LEMMA AccessStep ==
  ASSUME AccessInv, [Keys!Next]_Keys!vars
  PROVE  AccessInv'
<1>1. CASE Keys!Build
  <2>1. /\ provider.kind = "nothing" /\ UNCHANGED <<model, outcome>>
        /\ \E kind \in Keys!Kinds, b \in Builders :
             /\ b.api \in Keys!Apis(kind)
             /\ kind # "anthropic" => b.token = Keys!None
             /\ provider' = Keys!Built(kind, b)
    BY <1>1 DEF Keys!Build, Keys!Nothing
  <2>2. IsProvider(provider') /\ provider'.kind \in Keys!Kinds
    <3>1. PICK kind \in Keys!Kinds, b \in Builders :
             /\ b.api \in Keys!Apis(kind)
             /\ kind # "anthropic" => b.token = Keys!None
             /\ provider' = Keys!Built(kind, b)
      BY <2>1
    <3>2. b.token \in HeldTokens /\ (b.token \in HeldKeys => b.token = Keys!None)
      BY KnownSettings, Secrets DEF HeldTokens, HeldKeys
    <3> QED
      BY <3>1, <3>2, KnownSettings, BuiltIsProvider
  <2> QED
    BY <2>1, <2>2 DEF AccessInv, Keys!CredentialsInOrder, Keys!Kinds, Keys!Nothing, IsProvider
<1>2. CASE Keys!BuildFromEnv
  <2>1. provider.kind = "nothing" /\ UNCHANGED <<model, outcome>>
    BY <1>2 DEF Keys!BuildFromEnv, Keys!Nothing
  <2>2. PICK kind \in Keys!Kinds, b \in Builders, o \in Settings :
          b.api \in Keys!Apis(kind) /\ b.id = "default" /\ provider' = Keys!FromEnv(kind, b, o)
    BY <1>2 DEF Keys!BuildFromEnv
  <2>3. \/ provider' = [kind |-> "MissingApiKey"]
        \/ IsProvider(provider') /\ provider'.kind \in Keys!Kinds
    BY <2>2, KnownSettings, EnvIsProvider DEF IsSetting
  <2> QED
    BY <2>1, <2>3 DEF AccessInv, Keys!CredentialsInOrder, Keys!Kinds, Keys!Nothing, IsProvider
<1>3. CASE Keys!BuildModel
  <2>1. /\ provider.kind \in Keys!Kinds /\ model = Keys!Nothing /\ UNCHANGED <<provider, outcome>>
    BY <1>3 DEF Keys!BuildModel, AccessInv
  <2>2. PICK method \in Keys!Methods(provider.kind), id \in Ids, auth \in ModelAuth :
          \/ model' = [Keys!ModelOf(provider, method, id) EXCEPT !.authorization = auth]
          \/ model' = [kind |-> "UnsupportedCapability"]
    BY <1>3 DEF Keys!BuildModel
  <2>3. model'.kind = "model" => IsModelOf(provider, model')
    BY <2>1, <2>2, KnownSettings, MadeIsModel DEF AccessInv
  <2>4. outcome = Keys!Nothing
    BY <2>1 DEF AccessInv, Keys!Nothing
  <2> QED
    BY <2>1, <2>3, <2>4 DEF AccessInv, Keys!CredentialsInOrder, Keys!Nothing
<1>4. CASE Keys!Call
  BY <1>4, CallInOrder DEF AccessInv
<1>5. CASE UNCHANGED Keys!vars
  <2>1. UNCHANGED <<provider, model, outcome>>
    BY <1>5 DEF Keys!vars
  <2> QED
    BY <2>1 DEF AccessInv, Keys!CredentialsInOrder, Keys!Carries, Keys!Keys, Keys!Tokens, Keys!Bearing,
      Keys!EnvBearer, Keys!Offered
<1> QED
  BY <1>1, <1>2, <1>3, <1>4, <1>5 DEF Keys!Next

\* There is no provider at the start.
LEMMA AccessInitial ==
  ASSUME MCInit
  PROVE  AccessInv
<1>1. Keys!Init
  BY DEF MCInit, OthersRest
<1> QED
  BY <1>1 DEF Keys!Init, Keys!Nothing, AccessInv, Keys!CredentialsInOrder, Keys!Kinds

\* A request carries the first of the credentials there are, whichever of the
\* entry point, the wrapper and the client adds them, where a variable of spaces
\* hides the ones after it; and a call is refused for want of a key only if none
\* with content is left but those that spaces hide, and no bearer token but one
\* that a header replaces or a key without content stands before.
THEOREM FirstCredentialIsSent == MCSpec => []CredentialsInOrder
<1>1. AccessInv => CredentialsInOrder
  BY DEF AccessInv, CredentialsInOrder
<1>2. AccessInv /\ [MCNext]_<<vars, budgetVars, optionVars, accessVars, toolVars, accountVars>>
        => AccessInv'
  BY AccessSteps, AccessStep
<1> QED
  BY <1>1, <1>2, AccessInitial, PTL DEF MCSpec

-----------------------------------------------------------------------------
(* TokenBudget.                                                            *)

\* What the messages in some places weigh.
Weight(ms, places) == Cardinality(Budget!TokensOf(ms, places))

\* There are finitely many places, and the messages in them have sizes.
HasSizes(ms, places) == IsFiniteSet(places) /\ \A k \in places : ms[k].size \in Nat

\* The tokens of finitely many messages are finitely many.
LEMMA TokensFinite ==
  ASSUME NEW ms, NEW places, HasSizes(ms, places)
  PROVE  IsFiniteSet(Budget!TokensOf(ms, places)) /\ Weight(ms, places) \in Nat
<1> DEFINE Of(k) == {k} \X (1..ms[k].size)
           family == {Of(k) : k \in places}
           f == [k \in places |-> Of(k)]
<1>1. f \in Surjection(places, family)
  BY DEF Surjection
<1>2. IsFiniteSet(family)
  BY <1>1, FS_Surjection DEF HasSizes
<1>3. \A T \in family : IsFiniteSet(T)
  <2> SUFFICES ASSUME NEW k \in places PROVE IsFiniteSet(Of(k))
    OBVIOUS
  <2>1. IsFiniteSet({k})
    BY FS_Singleton
  <2>2. IsFiniteSet(1..ms[k].size)
    BY FS_Interval DEF HasSizes
  <2> QED
    BY <2>1, <2>2, FS_Product
<1>4. Budget!TokensOf(ms, places) = UNION family
  BY DEF Budget!TokensOf
<1>5. IsFiniteSet(UNION family)
  BY <1>2, <1>3, FS_UNION
<1> QED
  BY <1>4, <1>5, FS_CardinalityType DEF Weight

\* What is in one place is counted once.
LEMMA WeightOfOne ==
  ASSUME NEW ms, NEW k, ms[k].size \in Nat
  PROVE  Weight(ms, {k}) = ms[k].size
<1> DEFINE S == {k}
           T == 1..ms[k].size
<1>1. Budget!TokensOf(ms, {k}) = S \X T
  BY DEF Budget!TokensOf
<1>2. IsFiniteSet(S) /\ Cardinality(S) = 1
  BY FS_Singleton
<1>3. IsFiniteSet(T) /\ Cardinality(T) = ms[k].size
  <2> DEFINE n == ms[k].size
  <2> HIDE DEF n
  <2>1. n \in Nat
    BY DEF n
  <2>2. IsFiniteSet(1..n) /\ Cardinality(1..n) = n
    BY <2>1, FS_Interval
  <2> QED
    BY <2>2 DEF n
<1> HIDE DEF S, T
<1>4. Cardinality(S \X T) = Cardinality(S) * Cardinality(T)
  BY <1>2, <1>3, FS_Product
<1>5. Cardinality(S \X T) = ms[k].size
  BY <1>2, <1>3, <1>4
<1> QED
  BY <1>1, <1>5 DEF Weight

\* Messages in different places weigh what they weigh together.
LEMMA WeightOfBoth ==
  ASSUME NEW ms, NEW A, NEW B, HasSizes(ms, A), HasSizes(ms, B), A \cap B = {}
  PROVE  HasSizes(ms, A \cup B) /\ Weight(ms, A \cup B) = Weight(ms, A) + Weight(ms, B)
<1> DEFINE Of(k) == {k} \X (1..ms[k].size)
           a == Budget!TokensOf(ms, A)
           b == Budget!TokensOf(ms, B)
<1>1. Budget!TokensOf(ms, A \cup B) = a \cup b
  BY DEF Budget!TokensOf
<1>2. a \cap b = {}
  <2>1. \A t \in a : t[1] \in A
    BY DEF Budget!TokensOf
  <2>2. \A t \in b : t[1] \in B
    BY DEF Budget!TokensOf
  <2> HIDE DEF a, b
  <2> QED
    BY <2>1, <2>2
<1>3. IsFiniteSet(a) /\ IsFiniteSet(b) /\ Cardinality(a) \in Nat /\ Cardinality(b) \in Nat
  BY TokensFinite DEF Weight
<1> HIDE DEF a, b
<1>4. Cardinality(a \cup b) = Cardinality(a) + Cardinality(b)
  BY <1>2, <1>3, FS_Union, FS_EmptySet
<1>5. HasSizes(ms, A \cup B)
  BY FS_Union DEF HasSizes
<1> QED
  BY <1>1, <1>4, <1>5 DEF Weight, a, b

\* Fewer messages do not weigh more.
LEMMA WeightOfSome ==
  ASSUME NEW ms, NEW A, NEW B, HasSizes(ms, B), A \subseteq B
  PROVE  HasSizes(ms, A) /\ Weight(ms, A) <= Weight(ms, B)
<1>1. Budget!TokensOf(ms, A) \subseteq Budget!TokensOf(ms, B)
  BY DEF Budget!TokensOf
<1>2. IsFiniteSet(Budget!TokensOf(ms, B))
  BY TokensFinite
<1>3. Weight(ms, A) <= Weight(ms, B)
  BY <1>1, <1>2, FS_Subset DEF Weight
<1>4. HasSizes(ms, A)
  BY FS_Subset DEF HasSizes
<1> QED
  BY <1>3, <1>4

\* A token has the place of its message.
LEMMA TokenOf ==
  ASSUME NEW ms, NEW places, NEW t
  PROVE  t \in Budget!TokensOf(ms, places)
           <=> \E k \in places : \E n \in 1..ms[k].size : t = <<k, n>>
<1>1. t \in Budget!TokensOf(ms, places) <=> \E k \in places : t \in {k} \X (1..ms[k].size)
  BY DEF Budget!TokensOf
<1>2. \A k : t \in {k} \X (1..ms[k].size) <=> \E n \in 1..ms[k].size : t = <<k, n>>
  OBVIOUS
<1> QED
  BY <1>1, <1>2

\* Messages are in other places.
Moved(ms, A, d, more, B) ==
  /\ A \subseteq Int /\ B \subseteq Int /\ d \in Int
  /\ \A k \in A : k + d \in B /\ ms[k].size = more[k + d].size
  /\ \A k \in B : k - d \in A

\* There they weigh the same.
LEMMA WeightMoved ==
  ASSUME NEW ms, NEW A, NEW d, NEW more, NEW B, Moved(ms, A, d, more, B), HasSizes(more, B)
  PROVE  HasSizes(ms, A) /\ Weight(ms, A) = Weight(more, B)
<1>0. /\ A \subseteq Int /\ B \subseteq Int /\ d \in Int
      /\ \A k \in A : k + d \in B /\ ms[k].size = more[k + d].size
      /\ \A k \in B : k - d \in A
  BY DEF Moved
<1>01. \A t : t \in Budget!TokensOf(ms, A) <=> \E k \in A : \E n \in 1..ms[k].size : t = <<k, n>>
  BY ONLY TokenOf
<1>02. \A t : t \in Budget!TokensOf(more, B) <=> \E k \in B : \E n \in 1..more[k].size : t = <<k, n>>
  <2> TAKE t
  <2> QED
    BY TokenOf
<1> DEFINE a == Budget!TokensOf(ms, A)
           b == Budget!TokensOf(more, B)
           f == [t \in b |-> <<t[1] - d, t[2]>>]
<1>1. \A t : t \in a <=> \E k \in A : \E n \in 1..ms[k].size : t = <<k, n>>
  BY <1>01 DEF a
<1>2. \A t : t \in b <=> \E k \in B : \E n \in 1..more[k].size : t = <<k, n>>
  BY <1>02 DEF b
<1> HIDE DEF a, b
<1>3. \A k \in A : k + d \in B /\ (k + d) - d = k
  BY <1>0
<1>4. \A k \in B : k - d \in A /\ (k - d) + d = k /\ ms[k - d].size = more[k].size
  BY <1>0
<1>5. f \in [b -> a]
  <2> SUFFICES ASSUME NEW t \in b PROVE <<t[1] - d, t[2]>> \in a
    OBVIOUS
  <2>10. PICK k \in B : \E n \in 1..more[k].size : t = <<k, n>>
    BY <1>2
  <2>1. PICK n \in 1..more[k].size : t = <<k, n>>
    BY <2>10
  <2> QED
    BY <1>0, <1>1, <1>4, <2>1
<1>6. \A t, u \in b : f[t] = f[u] => t = u
  <2> SUFFICES ASSUME NEW t \in b, NEW u \in b, <<t[1] - d, t[2]>> = <<u[1] - d, u[2]>>
               PROVE  t = u
    OBVIOUS
  <2>10. PICK k \in B : \E n \in 1..more[k].size : t = <<k, n>>
    BY <1>2
  <2>1. PICK n \in 1..more[k].size : t = <<k, n>>
    BY <2>10
  <2>20. PICK l \in B : \E m \in 1..more[l].size : u = <<l, m>>
    BY <1>2
  <2>2. PICK m \in 1..more[l].size : u = <<l, m>>
    BY <2>20
  <2>3. k - d = l - d /\ n = m
    BY <1>0, <2>1, <2>2
  <2> QED
    BY <1>0, <2>1, <2>2, <2>3
<1>7. \A t \in a : \E u \in b : f[u] = t
  <2> SUFFICES ASSUME NEW t \in a PROVE \E u \in b : <<u[1] - d, u[2]>> = t
    OBVIOUS
  <2>10. PICK k \in A : \E n \in 1..ms[k].size : t = <<k, n>>
    BY <1>1
  <2>1. PICK n \in 1..ms[k].size : t = <<k, n>>
    BY <2>10
  <2>2. <<k + d, n>> \in b
    BY <1>0, <1>2, <1>3, <2>1
  <2> QED
    BY <1>3, <2>1, <2>2
<1>8. f \in Injection(b, a) /\ f \in Surjection(b, a)
  <2> HIDE DEF f
  <2> QED
    BY <1>5, <1>6, <1>7 DEF Injection, IsInjective, Surjection
<1>81. f \in Bijection(b, a)
  BY <1>8 DEF Bijection
<1>9. IsFiniteSet(b)
  BY TokensFinite DEF b
<1> HIDE DEF f
<1>10. ExistsBijection(b, a)
  BY <1>81 DEF ExistsBijection
<1>11. Cardinality(a) = Cardinality(b)
  BY <1>9, <1>10, FS_Bijection
<1>12. IsFiniteSet(A)
  <2> DEFINE g == [k \in B |-> k - d]
  <2>1. g \in Surjection(B, A)
    BY <1>3, <1>4 DEF Surjection
  <2>2. IsFiniteSet(B)
    BY DEF HasSizes
  <2> HIDE DEF g
  <2> QED
    BY <2>1, <2>2, FS_Surjection
<1>13. \A k \in A : ms[k].size \in Nat
  BY <1>0 DEF HasSizes
<1> QED
  BY <1>11, <1>12, <1>13 DEF Weight, HasSizes, a, b

\* What a message of the context can be.
Entry ==
  [role : {"user", "result", "assistant"}, size : Nat, at : Nat, usage : Nat, good : BOOLEAN,
   adds : SUBSET Loadable]

\* An answer that has told what it was sent.
Tells(m) == m.role = "assistant" /\ m.good /\ m.usage > 0

\* Of the messages before one, and that one, those that are not dated later.
NoLater(ms, k) == {j \in 1..k : ms[j].at <= ms[k].at}

\* The tools that came after a message.
BroughtAfter(ms, ts, k) == {t \in ts : \E j \in (k + 1)..Len(ms) : t \in ms[j].adds}

\* What there still is of the context that a message closed.
Worth(ms, ts, k) ==
  PromptSize + Budget!ToolTokens(ts \ BroughtAfter(ms, ts, k)) + Weight(ms, NoLater(ms, k))

\* Nothing that was told is less than what there still is.
UsageCovers(ms, ts) ==
  \A k \in 1..Len(ms) : Tells(ms[k]) => ms[k].usage >= Worth(ms, ts, k)

\* What the last answer that counts has told is what there still is.
UsageIsRight(ms, ts) ==
  \A k \in 1..Len(ms) :
    Budget!Counts(ms, k) /\ (\A j \in (k + 1)..Len(ms) : ~Budget!Counts(ms, j)) =>
      ms[k].usage = Worth(ms, ts, k)

\* What is known of the context.
Counted ==
  /\ window \in Nat /\ tools \subseteq Loadable /\ clock \in Nat /\ dropped \in BOOLEAN
  /\ sized \in Seq(Entry)
  /\ \A k \in 1..Len(sized) : sized[k].at <= clock
  /\ UsageCovers(sized, tools)
  /\ ~dropped => UsageIsRight(sized, tools)

RequestType ==
  request \in [api : Budget!Apis, size : Nat, estimate : Nat, max : Nat, budget : Nat]

\* What is known of the request.
Requested ==
  /\ RequestType
  /\ Budget!Sent => request.size = Budget!ContextSize
  /\ AnswerFits

BudgetInv == Counted /\ Requested

\* The module counts as the library does.
LEMMA CountedAlike ==
  ASSUME NEW S
  PROVE  /\ Budget!Cardinality(S) = Cardinality(S)
         /\ Budget!IsFiniteSet(S) <=> IsFiniteSet(S)
<1>1. Budget!Cardinality(S) = Cardinality(S)
  BY DEF Budget!Cardinality, Cardinality
<1>2. Budget!IsFiniteSet(S) <=> IsFiniteSet(S)
  BY DEF Budget!IsFiniteSet, IsFiniteSet
<1> QED
  BY <1>1, <1>2

\* A set of numbers up to n that is not empty has a greatest one.
LEMMA Latest ==
  ASSUME NEW n \in Nat, NEW S \in SUBSET (1..n), S # {}
  PROVE  Budget!Max(S) \in S /\ \A k \in S : Budget!Max(S) >= k
<1> DEFINE R == {p \in Nat \X Nat : p[1] < p[2]}
           T == {m \in Nat : n - m \in S}
<1>1. IsWellFoundedOn(R, Nat)
  BY NatLessThanWellFounded DEF OpToRel
<1>2. \A y, x \in Nat : <<y, x>> \notin R => x <= y
  OBVIOUS
<1> HIDE DEF R
<1>3. T # {} /\ T \subseteq Nat
  <2>1. PICK k \in S : TRUE
    OBVIOUS
  <2>2. n - k \in Nat /\ n - (n - k) = k
    OBVIOUS
  <2>3. n - k \in T
    BY <2>1, <2>2
  <2> QED
    BY <2>3
<1>4. PICK x \in T : \A y \in T : <<y, x>> \notin R
  BY <1>1, <1>3, WFMin
<1>5. n - x \in S
  OBVIOUS
<1>6. ASSUME NEW k \in S PROVE n - x >= k
  <2>1. n - k \in Nat /\ n - (n - k) = k
    OBVIOUS
  <2>2. n - k \in T
    BY <2>1
  <2>3. x <= n - k
    BY <1>2, <1>4, <2>1, <2>2
  <2> QED
    BY <2>3
<1> HIDE DEF T
<1>7. \E m \in S : \A k \in S : m >= k
  BY <1>5, <1>6
<1> QED
  BY <1>7 DEF Budget!Max

\* The sizes of messages are numbers, wherever they are.
LEMMA SizesKnown ==
  ASSUME NEW ms \in Seq(Entry), NEW places, places \subseteq 1..Len(ms)
  PROVE  HasSizes(ms, places) /\ Weight(ms, places) \in Nat
<1>1. IsFiniteSet(1..Len(ms))
  BY FS_Interval
<1>2. IsFiniteSet(places)
  BY <1>1, FS_Subset
<1>3. ASSUME NEW k \in places PROVE ms[k].size \in Nat
  <2>1. ms[k] \in Entry
    BY ElementOfSeq
  <2> QED
    BY <2>1 DEF Entry
<1>4. HasSizes(ms, places)
  BY <1>2, <1>3 DEF HasSizes
<1> QED
  BY <1>4, TokensFinite

\* So many of each of two kinds are so many of both.
LEMMA Distributed ==
  ASSUME NEW a \in Nat, NEW b \in Nat, NEW c \in Nat
  PROVE  c * a \in Nat /\ c * b \in Nat /\ c * (a + b) = c * a + c * b
OBVIOUS

\* Some of the tools and the others are all of them.
LEMMA ToolsInTwo ==
  ASSUME NEW ts, ts \subseteq Loadable, NEW some, some \subseteq ts
  PROVE  /\ Budget!ToolTokens(ts) \in Nat /\ Budget!ToolTokens(some) \in Nat
         /\ Budget!ToolTokens(ts \ some) \in Nat
         /\ Budget!ToolTokens(ts) = Budget!ToolTokens(ts \ some) + Budget!ToolTokens(some)
<1>1. IsFiniteSet(Loadable) /\ ToolSize \in Nat
  BY BudgetAssumption, CountedAlike DEF Budget!Fit
<1>2. IsFiniteSet(ts)
  BY <1>1, FS_Subset
<1>3. IsFiniteSet(some) /\ IsFiniteSet(ts \ some)
  <2>1. ts \ some \subseteq ts
    OBVIOUS
  <2> QED
    BY <1>2, <2>1, FS_Subset
<1>4. Cardinality(ts \ some) \in Nat /\ Cardinality(some) \in Nat
  BY <1>3, FS_CardinalityType
<1>5. Cardinality(ts) = Cardinality(ts \ some) + Cardinality(some)
  <2> DEFINE all == (ts \ some) \cup some
             both == (ts \ some) \cap some
  <2>1. all = ts /\ both = {}
    OBVIOUS
  <2>2. Cardinality(all) = Cardinality(ts \ some) + Cardinality(some) - Cardinality(both)
    BY <1>3, FS_Union
  <2>3. Cardinality(both) = 0
    BY <2>1, FS_EmptySet
  <2> HIDE DEF all, both
  <2> QED
    BY <1>4, <2>1, <2>2, <2>3
<1> DEFINE a == Cardinality(ts \ some)
           b == Cardinality(some)
<1>6. /\ ToolSize * a \in Nat /\ ToolSize * b \in Nat
      /\ ToolSize * (a + b) = ToolSize * a + ToolSize * b
  <2> HIDE DEF a, b
  <2>1. a \in Nat /\ b \in Nat
    BY <1>4 DEF a, b
  <2> QED
    BY <1>1, <2>1, Distributed
<1> QED
  BY <1>5, <1>6, CountedAlike DEF Budget!ToolTokens

\* The last messages weigh the same as a sequence of their own.
LEMMA TrailingWeight ==
  ASSUME NEW ms \in Seq(Entry), NEW last \in 0..Len(ms), NEW rest, rest = SubSeq(ms, last + 1, Len(ms))
  PROVE  Budget!SizeOf(rest) = Weight(ms, (last + 1)..Len(ms))
<1>1. rest \in Seq(Entry) /\ DOMAIN rest = 1..(Len(ms) - last)
  BY LenProperties
<1>2. \A k \in 1..(Len(ms) - last) : rest[k] = ms[k + last]
  BY SubSeqProperties
<1> DEFINE A == 1..(Len(ms) - last)
           B == (last + 1)..Len(ms)
<1>4. A \subseteq Int /\ B \subseteq Int /\ B \subseteq 1..Len(ms) /\ last \in Int
  BY LenProperties
<1>3. HasSizes(ms, B)
  <2> HIDE DEF A, B
  <2> QED
    BY <1>4, SizesKnown
<1>5. \A k \in A : k + last \in B /\ rest[k].size = ms[k + last].size
  BY <1>2
<1>6. \A k \in B : k - last \in A
  OBVIOUS
<1> HIDE DEF A, B
<1>8. Moved(rest, A, last, ms, B)
  BY <1>4, <1>5, <1>6 DEF Moved
<1>7. Weight(rest, A) = Weight(ms, B)
  BY <1>3, <1>8, WeightMoved
<1> QED
  BY <1>1, <1>7, CountedAlike DEF Budget!SizeOf, Weight, A, B

\* What a message is worth is a number.
LEMMA WorthIsNumber ==
  ASSUME NEW ms \in Seq(Entry), NEW ts, ts \subseteq Loadable, NEW k \in 1..Len(ms)
  PROVE  /\ Worth(ms, ts, k) \in Nat
         /\ Budget!ToolTokens(ts \ BroughtAfter(ms, ts, k)) \in Nat
         /\ Weight(ms, NoLater(ms, k)) \in Nat
<1>1. BroughtAfter(ms, ts, k) \subseteq ts /\ NoLater(ms, k) \subseteq 1..Len(ms)
  BY DEF BroughtAfter, NoLater
<1>2. Budget!ToolTokens(ts \ BroughtAfter(ms, ts, k)) \in Nat
  BY <1>1, ToolsInTwo
<1>3. Weight(ms, NoLater(ms, k)) \in Nat
  BY <1>1, SizesKnown
<1>4. PromptSize \in Nat
  BY BudgetAssumption DEF Budget!Fit
<1> QED
  BY <1>2, <1>3, <1>4 DEF Worth

\* The size of a context is a number, and what is before some message and what
\* is after it make all of it.
LEMMA SizeInTwo ==
  ASSUME NEW ms \in Seq(Entry), NEW last \in 0..Len(ms)
  PROVE  /\ Budget!SizeOf(ms) \in Nat
         /\ Weight(ms, 1..last) \in Nat /\ Weight(ms, (last + 1)..Len(ms)) \in Nat
         /\ Budget!SizeOf(ms) = Weight(ms, 1..last) + Weight(ms, (last + 1)..Len(ms))
<1> DEFINE A == 1..last
           B == (last + 1)..Len(ms)
<1>1. A \subseteq 1..Len(ms) /\ B \subseteq 1..Len(ms) /\ A \cap B = {} /\ A \cup B = 1..Len(ms)
  BY LenProperties
<1>2. Budget!SizeOf(ms) = Weight(ms, 1..Len(ms))
  BY CountedAlike DEF Budget!SizeOf, Weight
<1> HIDE DEF A, B
<1>3. HasSizes(ms, A) /\ Weight(ms, A) \in Nat /\ HasSizes(ms, B) /\ Weight(ms, B) \in Nat
  BY <1>1, SizesKnown
<1>4. Weight(ms, A \cup B) = Weight(ms, A) + Weight(ms, B)
  BY <1>1, <1>3, WeightOfBoth
<1>5. Budget!SizeOf(ms) = Weight(ms, A) + Weight(ms, B)
  BY <1>1, <1>2, <1>4
<1>6. Budget!SizeOf(ms) \in Nat
  BY <1>3, <1>5
<1> QED
  BY <1>3, <1>5, <1>6 DEF A, B

ContextOf(ms, ts) == PromptSize + Budget!ToolTokens(ts) + Budget!SizeOf(ms)

\* The size of a context is a number.
LEMMA ContextIsNumber ==
  ASSUME NEW ms \in Seq(Entry), NEW ts, ts \subseteq Loadable
  PROVE  /\ ContextOf(ms, ts) \in Nat /\ PromptSize \in Nat /\ PromptSize <= ContextOf(ms, ts)
         /\ Budget!ToolTokens(ts) \in Nat /\ Budget!SizeOf(ms) \in Nat
<1>1. Budget!SizeOf(ms) \in Nat
  <2>1. 0 \in 0..Len(ms)
    BY LenProperties
  <2> QED
    BY <2>1, SizeInTwo
<1>2. PromptSize \in Nat
  BY BudgetAssumption DEF Budget!Fit
<1>3. Budget!ToolTokens(ts) \in Nat
  BY ToolsInTwo
<1> QED
  BY <1>1, <1>2, <1>3 DEF ContextOf

\* The estimate counts the context, and nothing else when the last answer that
\* counts has not told more than there still is.
LEMMA EstimateFits ==
  ASSUME NEW ms \in Seq(Entry), NEW ts, ts \subseteq Loadable, UsageCovers(ms, ts)
  PROVE  /\ Budget!Estimate(ms, ts) \in Nat
         /\ ContextOf(ms, ts) <= Budget!Estimate(ms, ts)
         /\ UsageIsRight(ms, ts) => Budget!Estimate(ms, ts) = ContextOf(ms, ts)
<1> DEFINE counted == {k \in DOMAIN ms : Budget!Counts(ms, k)}
           est == Budget!Estimate(ms, ts)
<1>0. ContextOf(ms, ts) \in Nat
  BY ContextIsNumber
<1>1. CASE counted = {}
  <2>1. est = ContextOf(ms, ts)
    BY <1>1 DEF Budget!Estimate, ContextOf
  <2> QED
    BY <1>0, <2>1
<1>2. CASE counted # {}
  <2> DEFINE last == Budget!Max(counted)
             rest == SubSeq(ms, last + 1, Len(ms))
             added == {t \in ts : \E m \in Budget!ToSet(rest) : t \in m.adds}
             size == Budget!SizeOf(rest)
             new == Budget!ToolTokens(added)
             old == Budget!ToolTokens(ts \ added)
             usage == ms[last].usage
             front == Weight(ms, 1..last)
  <2>1. est = usage + size + new
    BY <1>2 DEF Budget!Estimate
  <2>2. last \in 1..Len(ms) /\ Budget!Counts(ms, last) /\ \A k \in counted : last >= k
    <3>1. Len(ms) \in Nat /\ counted \subseteq 1..Len(ms)
      BY LenProperties
    <3>2. last \in counted /\ \A k \in counted : last >= k
      <4> HIDE DEF counted
      <4> QED
        BY <1>2, <3>1, Latest
    <3> QED
      BY <3>1, <3>2
  <2> HIDE DEF last, counted
  <2>3. \A k \in (last + 1)..Len(ms) : ~Budget!Counts(ms, k)
    <3> SUFFICES ASSUME NEW k \in (last + 1)..Len(ms), Budget!Counts(ms, k) PROVE FALSE
      OBVIOUS
    <3>1. k \in DOMAIN ms /\ k > last
      BY <2>2, LenProperties
    <3>2. k \in counted
      BY <3>1 DEF counted
    <3> QED
      BY <2>2, <3>1, <3>2
  <2>4. added = BroughtAfter(ms, ts, last) /\ added \subseteq ts
    <3>1. Budget!ToSet(rest) = {ms[j] : j \in (last + 1)..Len(ms)}
      <4>1. rest \in Seq(Entry) /\ DOMAIN rest = 1..(Len(ms) - last)
            /\ \A k \in 1..(Len(ms) - last) : rest[k] = ms[k + last]
        BY <2>2, LenProperties, SubSeqProperties
      <4>2. \A j \in (last + 1)..Len(ms) : j - last \in 1..(Len(ms) - last) /\ (j - last) + last = j
        BY <2>2, LenProperties
      <4>3. \A k \in 1..(Len(ms) - last) : k + last \in (last + 1)..Len(ms)
        BY <2>2, LenProperties
      <4> HIDE DEF rest
      <4> QED
        BY <4>1, <4>2, <4>3 DEF Budget!ToSet
    <3> HIDE DEF rest
    <3> QED
      BY <3>1 DEF BroughtAfter
  <2>5. NoLater(ms, last) = 1..last
    <3>1. \A j \in 1..(last - 1) : ms[j].at <= ms[last].at
      BY <2>2 DEF Budget!Counts
    <3>2. ms[last].at <= ms[last].at
      <4>1. ms[last] \in Entry
        BY <2>2, ElementOfSeq
      <4> QED
        BY <4>1 DEF Entry
    <3> QED
      BY <2>2, <3>1, <3>2 DEF NoLater
  <2>6. size = Weight(ms, (last + 1)..Len(ms))
    <3>1. last \in 0..Len(ms)
      BY <2>2
    <3> QED
      BY <3>1, TrailingWeight
  <2>7. /\ Budget!SizeOf(ms) = front + size /\ front \in Nat /\ size \in Nat
    <3>1. last \in 0..Len(ms)
      BY <2>2
    <3> QED
      BY <2>6, <3>1, SizeInTwo
  <2>8. Budget!ToolTokens(ts) = old + new /\ old \in Nat /\ new \in Nat
    BY <2>4, ToolsInTwo
  <2>9. Worth(ms, ts, last) = PromptSize + old + front
    BY <2>4, <2>5 DEF Worth
  <2>10. Tells(ms[last]) /\ usage \in Nat
    <3>1. ms[last] \in Entry
      BY <2>2, ElementOfSeq
    <3> QED
      BY <2>2, <3>1 DEF Budget!Counts, Tells, Entry
  <2>11. usage >= Worth(ms, ts, last)
    BY <2>2, <2>10 DEF UsageCovers
  <2>12. UsageIsRight(ms, ts) => usage = Worth(ms, ts, last)
    BY <2>2, <2>3 DEF UsageIsRight
  <2>13. PromptSize \in Nat
    BY ContextIsNumber
  <2> HIDE DEF size, new, old, usage, front, added, rest, est
  <2>14. ContextOf(ms, ts) = PromptSize + (old + new) + (front + size)
    BY <2>7, <2>8 DEF ContextOf
  <2>15. est \in Nat /\ ContextOf(ms, ts) <= est
    BY <2>1, <2>7, <2>8, <2>9, <2>10, <2>11, <2>13, <2>14
  <2>16. UsageIsRight(ms, ts) => est = ContextOf(ms, ts)
    BY <2>1, <2>7, <2>8, <2>9, <2>10, <2>12, <2>13, <2>14
  <2> QED
    BY <2>15, <2>16 DEF est
<1> QED
  BY <1>1, <1>2

\* What is assumed of the constants.
LEMMA Constants ==
  /\ MaxTokens \in Nat \ {0} /\ Requests \subseteq Nat \ {0} /\ Budgets \subseteq Nat
  /\ Safety \in Nat /\ Reserve \in Nat /\ Floor \in Nat \ {0}
  /\ PromptSize \in Nat /\ Sizes \subseteq Nat /\ Windows \subseteq Nat
  /\ IsFiniteSet(Loadable)
BY BudgetAssumption, CountedAlike DEF Budget!Fit, Budget!Positive

\* A request that was clamped leaves room for its answer.
LEMMA ClampFits ==
  ASSUME window \in Nat, NEW max \in Nat \ {0}, NEW estimate \in Nat,
         NEW clamped, clamped = Budget!Clamp(max, estimate)
  PROVE  /\ clamped \in Nat \ {0}
         /\ window # 0 /\ clamped > 1 => estimate + clamped + Safety <= window
BY Constants DEF Budget!Clamp, Budget!Least, Budget!Less, Budget!Atop

\* A request leaves room in the window, and for an answer.
Leaves(estimate, max, budget) ==
  /\ estimate \in Nat /\ max \in Nat \ {0} /\ budget \in Nat
  /\ window # 0 /\ max > 1 => estimate + max + Safety <= window
  /\ budget > 0 => budget + Reserve <= max

\* So does what is asked for, with a budget for thinking or without.
LEMMA AskFits ==
  ASSUME window \in Nat, NEW requested \in Nat \ {0}, NEW budget \in Nat,
         NEW estimate \in Nat, estimate = Budget!Estimate(sized, tools),
         NEW ask, ask = Budget!Ask(requested, budget)
  PROVE  ask.estimate = estimate /\ Leaves(estimate, ask.max, ask.budget)
<1> DEFINE base == Budget!Clamp(requested, estimate)
           adjusted == Budget!Adjusted(base, budget)
           max == Budget!Clamp(adjusted.max, estimate)
<1>1. base \in Nat \ {0} /\ (window # 0 /\ base > 1 => estimate + base + Safety <= window)
  BY ClampFits
<1>2. CASE budget = 0
  <2>1. ask = [estimate |-> estimate, max |-> base, budget |-> 0]
    BY <1>2 DEF Budget!Ask
  <2> HIDE DEF base
  <2> QED
    BY <1>1, <2>1 DEF Leaves
<1>3. CASE budget # 0
  <2>1. ask = [estimate |-> estimate, max |-> max,
               budget |-> Budget!Least(adjusted.budget, Budget!Less(max, Reserve))]
    BY <1>3 DEF Budget!Ask
  <2> HIDE DEF base
  <2>2. adjusted.max \in Nat \ {0} /\ adjusted.budget \in Nat
    BY <1>1, Constants DEF Budget!Adjusted, Budget!Least, Budget!Less, Budget!Atop
  <2> HIDE DEF adjusted
  <2>3. max \in Nat \ {0} /\ (window # 0 /\ max > 1 => estimate + max + Safety <= window)
    BY <2>2, ClampFits
  <2> HIDE DEF max
  <2>4. Reserve \in Nat
    BY Constants
  <2> DEFINE thinking == Budget!Least(adjusted.budget, Budget!Less(max, Reserve))
  <2>5. thinking \in Nat /\ (thinking > 0 => thinking + Reserve <= max)
    BY <2>2, <2>3, <2>4 DEF Budget!Least, Budget!Less, Budget!Atop
  <2> HIDE DEF thinking
  <2>6. ask.estimate = estimate /\ ask.max = max /\ ask.budget = thinking
    BY <2>1 DEF thinking
  <2> QED
    BY <2>3, <2>5, <2>6 DEF Leaves
<1> QED
  BY <1>2, <1>3

\* A request is sent.
LEMMA Sending ==
  ASSUME BudgetInv, Budget!Send
  PROVE  BudgetInv'
<1>1. Counted /\ Requested
  BY DEF BudgetInv
<1>2. /\ UNCHANGED <<window, tools, sized, dropped>> /\ clock' = clock + 1
      /\ \E api \in Budget!Apis, requested \in Requests \cup {MaxTokens}, budget \in Budgets :
           request' = [api |-> api, estimate |-> Budget!Ask(requested, budget).estimate,
                       budget |-> Budget!Ask(requested, budget).budget,
                       max |-> IF api = "responses" THEN Budget!Atop(Budget!Ask(requested, budget).max, Floor)
                               ELSE Budget!Ask(requested, budget).max,
                       size |-> Budget!ContextSize]
  BY DEF Budget!Send
<1>3. PICK api \in Budget!Apis, requested \in Requests \cup {MaxTokens}, budget \in Budgets :
        request' = [api |-> api, estimate |-> Budget!Ask(requested, budget).estimate,
                    budget |-> Budget!Ask(requested, budget).budget,
                    max |-> IF api = "responses" THEN Budget!Atop(Budget!Ask(requested, budget).max, Floor)
                            ELSE Budget!Ask(requested, budget).max,
                    size |-> Budget!ContextSize]
  BY <1>2
<1>4. Counted'
  <2>1. \A k \in 1..Len(sized) : sized[k].at <= clock + 1
    <3> SUFFICES ASSUME NEW k \in 1..Len(sized) PROVE sized[k].at <= clock + 1
      OBVIOUS
    <3>1. sized[k] \in Entry /\ sized[k].at <= clock /\ clock \in Nat
      BY <1>1, ElementOfSeq DEF Counted
    <3>2. sized[k].at \in Nat
      BY <3>1 DEF Entry
    <3> QED
      BY <3>1, <3>2
  <2> QED
    BY <1>1, <1>2, <2>1 DEF Counted
<1> DEFINE ask == Budget!Ask(requested, budget)
           estimate == Budget!Estimate(sized, tools)
           most == IF api = "responses" THEN Budget!Atop(ask.max, Floor) ELSE ask.max
<1>5. /\ estimate \in Nat /\ ContextOf(sized, tools) <= estimate
      /\ ~dropped => estimate = ContextOf(sized, tools)
  BY <1>1, EstimateFits DEF Counted
<1>6. requested \in Nat \ {0} /\ budget \in Nat /\ Floor \in Nat \ {0} /\ Safety \in Nat /\ Reserve \in Nat
  BY Constants
<1> HIDE DEF estimate, ask
<1>7. ask.estimate = estimate /\ Leaves(estimate, ask.max, ask.budget)
  <2>1. window \in Nat
    BY <1>1 DEF Counted
  <2> QED
    BY <1>5, <1>6, <2>1, AskFits DEF ask, estimate
<1>8. Budget!ContextSize = ContextOf(sized, tools) /\ Budget!ContextSize \in Nat
  <2>1. Budget!ContextSize = ContextOf(sized, tools)
    BY DEF Budget!ContextSize, ContextOf
  <2> QED
    BY <1>1, <2>1, ContextIsNumber DEF Counted
<1>9. /\ request'.api = api /\ request'.estimate = estimate /\ request'.budget = ask.budget
      /\ request'.max = most /\ request'.size = Budget!ContextSize
  BY <1>3, <1>7 DEF ask
<1>10. /\ most \in Nat /\ most >= 1 /\ most >= ask.max
       /\ most > (IF api = "responses" THEN Floor ELSE 1) => most = ask.max /\ ask.max > 1
  BY <1>6, <1>7 DEF Leaves, Budget!Atop
<1> HIDE DEF most
<1>11. RequestType'
  <2>1. request' = [api |-> api, estimate |-> estimate, budget |-> ask.budget, max |-> most,
                    size |-> Budget!ContextSize]
    BY <1>3, <1>7 DEF ask, most
  <2> QED
    BY <1>7, <1>8, <1>10, <2>1 DEF Leaves, RequestType
<1>12. Budget!ContextSize' = Budget!ContextSize
  BY <1>2 DEF Budget!ContextSize
<1>13. Budget!EstimateIsRight'
  BY <1>2, <1>5, <1>8, <1>9 DEF Budget!EstimateIsRight
<1>14. Budget!ReplyFits'
  <2>1. window \in Nat
    BY <1>1 DEF Counted
  <2>2. (window # 0 /\ request'.max > (IF request'.api = "responses" THEN Floor ELSE 1)) =>
          request'.size + request'.max + Safety <= window
    BY <1>5, <1>6, <1>7, <1>8, <1>9, <1>10, <2>1 DEF Leaves
  <2>3. request'.max >= 1
    BY <1>9, <1>10
  <2>4. request'.budget > 0 => request'.budget + Reserve <= request'.max
    BY <1>6, <1>7, <1>9, <1>10 DEF Leaves
  <2> QED
    BY <1>2, <2>2, <2>3, <2>4 DEF Budget!ReplyFits
<1>15. Requested'
  BY <1>9, <1>11, <1>12, <1>13, <1>14 DEF Requested, AnswerFits
<1> QED
  BY <1>4, <1>15 DEF BudgetInv

\* A message joins a context, with the tools it brings.
Joins(ms, ts, m, new, all) ==
  /\ ms \in Seq(Entry) /\ ts \subseteq Loadable /\ m \in Entry
  /\ new = Append(ms, m) /\ all = ts \cup m.adds /\ m.adds \cap ts = {}

\* One message more: the others are worth what they were.
LEMMA Appended ==
  ASSUME NEW ms, NEW ts, NEW m, NEW new, NEW all, Joins(ms, ts, m, new, all)
  PROVE  /\ new \in Seq(Entry) /\ Len(new) = Len(ms) + 1 /\ new[Len(ms) + 1] = m
         /\ all \subseteq Loadable
         /\ \A k \in 1..Len(ms) :
              /\ new[k] = ms[k]
              /\ Worth(new, all, k) = Worth(ms, ts, k)
              /\ Budget!Counts(new, k) <=> Budget!Counts(ms, k)
<1> USE DEF Joins
<1>1. /\ new \in Seq(Entry) /\ Len(new) = Len(ms) + 1 /\ new[Len(ms) + 1] = m
      /\ Len(ms) \in Nat /\ \A k \in 1..Len(ms) : new[k] = ms[k]
  BY AppendProperties, LenProperties
<1>2. all \subseteq Loadable
  BY DEF Entry
<1>3. ASSUME NEW k \in 1..Len(ms)
      PROVE  Worth(new, all, k) = Worth(ms, ts, k) /\ (Budget!Counts(new, k) <=> Budget!Counts(ms, k))
  <2>1. \A j \in 1..k : new[j] = ms[j]
    BY <1>1
  <2>2. NoLater(new, k) = NoLater(ms, k)
    BY <2>1 DEF NoLater
  <2>3. Budget!Counts(new, k) <=> Budget!Counts(ms, k)
    <3>1. \A j \in 1..(k - 1) : new[j] = ms[j]
      BY <2>1
    <3> QED
      BY <1>1, <3>1 DEF Budget!Counts
  <2>4. all \ BroughtAfter(new, all, k) = ts \ BroughtAfter(ms, ts, k)
    <3>1. \A t : (\E j \in (k + 1)..Len(new) : t \in new[j].adds)
                   <=> (\E j \in (k + 1)..Len(ms) : t \in ms[j].adds) \/ t \in m.adds
      <4>1. \A j \in (k + 1)..Len(new) : j = Len(ms) + 1 \/ (j \in (k + 1)..Len(ms) /\ new[j] = ms[j])
        BY <1>1
      <4>2. \A j \in (k + 1)..Len(ms) : j \in (k + 1)..Len(new) /\ new[j] = ms[j]
        BY <1>1
      <4>3. Len(ms) + 1 \in (k + 1)..Len(new)
        BY <1>1
      <4> QED
        BY <1>1, <4>1, <4>2, <4>3
    <3> QED
      BY <3>1 DEF BroughtAfter
  <2> DEFINE P == NoLater(ms, k)
  <2>5. Weight(new, P) = Weight(ms, P)
    <3>1. P \subseteq 1..Len(ms)
      BY <1>1 DEF NoLater
    <3> HIDE DEF P
    <3>2. HasSizes(ms, P)
      BY <3>1, SizesKnown
    <3>3. P \subseteq Int /\ 0 \in Int /\ \A i \in P : i + 0 = i /\ i - 0 = i
      BY <3>1
    <3>4. Moved(new, P, 0, ms, P)
      BY <1>1, <3>1, <3>3 DEF Moved
    <3> QED
      BY <3>2, <3>4, WeightMoved
  <2>6. Worth(new, all, k) = Worth(ms, ts, k)
    BY <2>2, <2>4, <2>5 DEF Worth
  <2> QED
    BY <2>3, <2>6
<1> QED
  BY <1>1, <1>2, <1>3

\* One that tells nothing leaves the usage as right as it was.
LEMMA OneMore ==
  ASSUME NEW ms, NEW ts, NEW m, NEW new, NEW all, Joins(ms, ts, m, new, all),
         ~Tells(m), UsageCovers(ms, ts)
  PROVE  /\ UsageCovers(new, all)
         /\ UsageIsRight(ms, ts) => UsageIsRight(new, all)
<1>0. Len(ms) \in Nat
  BY LenProperties DEF Joins
<1>1. /\ Len(new) = Len(ms) + 1 /\ new[Len(ms) + 1] = m
      /\ \A k \in 1..Len(ms) : /\ new[k] = ms[k]
                               /\ Worth(new, all, k) = Worth(ms, ts, k)
                               /\ Budget!Counts(new, k) <=> Budget!Counts(ms, k)
  BY Appended
<1>2. \A k \in 1..Len(new) : k \in 1..Len(ms) \/ k = Len(ms) + 1
  BY <1>0, <1>1
<1>3. ~Budget!Counts(new, Len(ms) + 1)
  BY <1>1 DEF Budget!Counts, Tells
<1>4. UsageCovers(new, all)
  BY <1>1, <1>2 DEF UsageCovers
<1>5. ASSUME UsageIsRight(ms, ts) PROVE UsageIsRight(new, all)
  <2> SUFFICES ASSUME NEW k \in 1..Len(new), Budget!Counts(new, k),
                      \A j \in (k + 1)..Len(new) : ~Budget!Counts(new, j)
               PROVE  new[k].usage = Worth(new, all, k)
    BY DEF UsageIsRight
  <2>1. k \in 1..Len(ms)
    BY <1>2, <1>3
  <2>2. \A j \in (k + 1)..Len(ms) : j \in 1..Len(ms) /\ j \in (k + 1)..Len(new)
    BY <1>0, <1>1, <2>1
  <2>3. Budget!Counts(ms, k) /\ \A j \in (k + 1)..Len(ms) : ~Budget!Counts(ms, j)
    BY <1>1, <2>1, <2>2
  <2>4. ms[k].usage = Worth(ms, ts, k)
    BY <1>5, <2>1, <2>3 DEF UsageIsRight
  <2> QED
    BY <1>1, <2>1, <2>4
<1> QED
  BY <1>4, <1>5

\* An answer that tells what it was sent counts, and it is the last one.
LEMMA Answered ==
  ASSUME NEW ms \in Seq(Entry), NEW ts, ts \subseteq Loadable, NEW m \in Entry,
         NEW new, new = Append(ms, m), m.adds = {}, Tells(m), UsageCovers(ms, ts),
         \A k \in 1..Len(ms) : ms[k].at <= m.at,
         m.usage = ContextOf(ms, ts) + m.size
  PROVE  UsageCovers(new, ts) /\ UsageIsRight(new, ts)
<1> DEFINE n == Len(ms) + 1
<1>0. Len(ms) \in Nat /\ m.size \in Nat /\ m.at \in Nat
  BY LenProperties DEF Entry
<1>1. /\ new \in Seq(Entry) /\ Len(new) = n /\ new[n] = m
      /\ \A k \in 1..Len(ms) : new[k] = ms[k] /\ Worth(new, ts, k) = Worth(ms, ts, k)
  <2>1. Joins(ms, ts, m, new, ts)
    BY DEF Joins
  <2> QED
    BY <2>1, Appended
<1>2. \A k \in 1..Len(new) : k \in 1..Len(ms) \/ k = n
  BY <1>0, <1>1
<1>3. NoLater(new, n) = 1..n
  <2>1. \A j \in 1..n : new[j].at <= m.at
    BY <1>0, <1>1
  <2> QED
    BY <1>1, <2>1 DEF NoLater
<1>4. Budget!Counts(new, n)
  <2>1. \A j \in 1..(n - 1) : new[j].at <= m.at
    BY <1>0, <1>1
  <2> QED
    BY <1>1, <2>1 DEF Budget!Counts, Tells
<1>5. ts \ BroughtAfter(new, ts, n) = ts
  <2>1. (n + 1)..Len(new) = {}
    BY <1>0, <1>1
  <2> QED
    BY <2>1 DEF BroughtAfter
<1>6. Weight(new, 1..n) = Budget!SizeOf(ms) + m.size
  <2> DEFINE A == 1..Len(ms)
             B == {n}
  <2>1. A \cup B = 1..n /\ A \cap B = {} /\ A \subseteq 1..Len(ms) /\ A \subseteq 1..Len(new)
        /\ B \subseteq 1..Len(new) /\ A \subseteq Int
    BY <1>0, <1>1
  <2>2. Budget!SizeOf(ms) = Weight(ms, A)
    BY CountedAlike, LenProperties DEF Budget!SizeOf, Weight
  <2>3. Weight(new, B) = m.size
    <3>1. n = n /\ new[n].size = m.size /\ new[n].size \in Nat
      BY <1>0, <1>1
    <3> HIDE DEF n
    <3> QED
      BY <3>1, WeightOfOne DEF B
  <2>4. \A i \in A : i + 0 = i /\ i - 0 = i /\ new[i].size = ms[i].size
    BY <1>1
  <2> HIDE DEF A, B, n
  <2>5. HasSizes(ms, A) /\ HasSizes(new, A) /\ HasSizes(new, B)
    BY <1>1, <2>1, SizesKnown
  <2>6. Moved(new, A, 0, ms, A)
    BY <2>1, <2>4 DEF Moved
  <2>7. Weight(new, A) = Weight(ms, A)
    BY <2>5, <2>6, WeightMoved
  <2>8. Weight(new, A \cup B) = Weight(new, A) + Weight(new, B)
    BY <2>1, <2>5, WeightOfBoth
  <2> QED
    BY <2>1, <2>2, <2>3, <2>7, <2>8
<1>7. m.usage = Worth(new, ts, n)
  <2>1. Worth(new, ts, n) = PromptSize + Budget!ToolTokens(ts) + (Budget!SizeOf(ms) + m.size)
    BY <1>3, <1>5, <1>6 DEF Worth
  <2>2. PromptSize \in Nat /\ Budget!ToolTokens(ts) \in Nat /\ Budget!SizeOf(ms) \in Nat
    BY ContextIsNumber
  <2> QED
    BY <1>0, <2>1, <2>2 DEF ContextOf
<1>8. m.usage >= m.usage
  BY DEF Entry
<1>9. UsageCovers(new, ts)
  <2> SUFFICES ASSUME NEW k \in 1..Len(new), Tells(new[k]) PROVE new[k].usage >= Worth(new, ts, k)
    BY DEF UsageCovers
  <2>1. CASE k = n
    BY <1>1, <1>7, <1>8, <2>1
  <2>2. CASE k \in 1..Len(ms)
    BY <1>1, <2>2 DEF UsageCovers
  <2> QED
    BY <1>2, <2>1, <2>2
<1>10. UsageIsRight(new, ts)
  <2> SUFFICES ASSUME NEW k \in 1..Len(new), \A j \in (k + 1)..Len(new) : ~Budget!Counts(new, j)
               PROVE  new[k].usage = Worth(new, ts, k)
    BY DEF UsageIsRight
  <2>1. k = n
    <3>1. CASE k \in 1..Len(ms)
      <4>1. n \in (k + 1)..Len(new)
        BY <1>0, <1>1, <3>1
      <4> QED
        BY <1>4, <4>1
    <3> QED
      BY <1>2, <3>1
  <2> QED
    BY <1>1, <1>7, <2>1
<1> QED
  BY <1>9, <1>10

\* A message of the user or a result, which tells nothing of usage.
LEMMA Joining ==
  ASSUME BudgetInv, NEW m \in Entry, ~Tells(m), m.at = clock,
         ~Budget!Sent, UNCHANGED <<window, clock, request, dropped>>,
         m.adds \cap tools = {}, sized' = Append(sized, m), tools' = tools \cup m.adds
  PROVE  BudgetInv'
<1>1. Counted /\ Requested
  BY DEF BudgetInv
<1>2. Joins(sized, tools, m, sized', tools')
  BY <1>1 DEF Joins, Counted
<1>3. /\ sized' \in Seq(Entry) /\ Len(sized') = Len(sized) + 1 /\ sized'[Len(sized) + 1] = m
      /\ \A k \in 1..Len(sized) : sized'[k] = sized[k]
  BY ONLY <1>2, Appended
<1>30. tools' \subseteq Loadable
  BY <1>1 DEF Counted, Entry
<1>4. \A k \in 1..Len(sized') : sized'[k].at <= clock
  <2>1. Len(sized) \in Nat /\ clock \in Nat
    BY <1>1, LenProperties DEF Counted
  <2>2. \A k \in 1..Len(sized') : k \in 1..Len(sized) \/ k = Len(sized) + 1
    BY <1>3, <2>1
  <2> QED
    BY <1>1, <1>3, <2>1, <2>2 DEF Counted
<1>5. UsageCovers(sized', tools') /\ (UsageIsRight(sized, tools) => UsageIsRight(sized', tools'))
  <2>1. UsageCovers(sized, tools)
    BY <1>1 DEF Counted
  <2> QED
    BY <1>2, <2>1, OneMore
<1>6. Counted'
  BY <1>1, <1>3, <1>30, <1>4, <1>5 DEF Counted
<1>7. Requested'
  BY <1>1 DEF Requested, RequestType, AnswerFits, Budget!EstimateIsRight, Budget!ReplyFits, Budget!Sent
<1> QED
  BY <1>6, <1>7 DEF BudgetInv

\* A message is an entry, and tells nothing yet.
LEMMA Entering ==
  ASSUME NEW role \in {"user", "result", "assistant"}, NEW size \in Nat, NEW at \in Nat,
         NEW m, m = Budget!Message(role, size, at)
  PROVE  /\ m \in Entry
         /\ m.role = role /\ m.size = size /\ m.at = at /\ m.usage = 0 /\ m.adds = {} /\ m.good
         /\ ~Tells(m)
<1>1. m = [role |-> role, size |-> size, at |-> at, usage |-> 0, good |-> TRUE, adds |-> {}]
  BY DEF Budget!Message
<1>2. m \in Entry /\ ~Tells(m)
  BY <1>1 DEF Entry, Tells
<1>3. m.role = role /\ m.size = size /\ m.at = at /\ m.usage = 0 /\ m.adds = {} /\ m.good
  BY <1>1
<1> HIDE DEF Entry
<1> QED
  BY <1>2, <1>3

\* So is one that brings tools.
LEMMA Bringing ==
  ASSUME NEW m \in Entry, ~Tells(m), NEW more \in SUBSET Loadable,
         NEW brings, brings = [m EXCEPT !.adds = more]
  PROVE  brings \in Entry /\ ~Tells(brings) /\ brings.at = m.at /\ brings.adds = more
<1>1. brings \in Entry /\ brings.role = m.role /\ brings.at = m.at /\ brings.adds = more
        /\ brings.good = m.good /\ brings.usage = m.usage
  BY DEF Entry
<1> QED
  BY <1>1 DEF Tells

\* The user says something.
LEMMA UserJoins ==
  ASSUME BudgetInv, Budget!User
  PROVE  BudgetInv'
<1>1. PICK size \in Sizes : sized' = Append(sized, Budget!Message("user", size, clock))
  BY DEF Budget!User
<1>2. size \in Nat /\ clock \in Nat
  BY Constants DEF BudgetInv, Counted
<1> DEFINE m == Budget!Message("user", size, clock)
<1>3. m \in Entry /\ ~Tells(m) /\ m.at = clock /\ m.adds = {}
  BY <1>2, Entering
<1>4. /\ ~Budget!Sent /\ UNCHANGED <<window, clock, request, dropped>> /\ sized' = Append(sized, m)
      /\ tools' = tools
  BY <1>1 DEF Budget!User
<1> HIDE DEF m
<1>5. m.adds \cap tools = {} /\ tools' = tools \cup m.adds
  BY <1>3, <1>4
<1> QED
  BY <1>3, <1>4, <1>5, Joining

\* A tool has a result.
LEMMA ResultJoins ==
  ASSUME BudgetInv, Budget!Result
  PROVE  BudgetInv'
<1>1. PICK size \in Sizes, more \in SUBSET (Loadable \ tools) :
        /\ sized' = Append(sized, [Budget!Message("result", size, clock) EXCEPT !.adds = more])
        /\ tools' = tools \cup more
  BY DEF Budget!Result
<1>2. size \in Nat /\ clock \in Nat /\ more \in SUBSET Loadable
  BY Constants DEF BudgetInv, Counted
<1> DEFINE m == [Budget!Message("result", size, clock) EXCEPT !.adds = more]
<1>3. m \in Entry /\ ~Tells(m) /\ m.at = clock /\ m.adds = more
  <2> DEFINE plain == Budget!Message("result", size, clock)
  <2>1. plain \in Entry /\ ~Tells(plain) /\ plain.at = clock
    BY <1>2, Entering
  <2>2. m = [plain EXCEPT !.adds = more]
    OBVIOUS
  <2> HIDE DEF plain, m
  <2> QED
    BY <1>2, <2>1, <2>2, Bringing
<1>4. /\ ~Budget!Sent /\ UNCHANGED <<window, clock, request, dropped>> /\ sized' = Append(sized, m)
      /\ tools' = tools \cup m.adds
  BY <1>1, <1>3 DEF Budget!Result
<1> HIDE DEF m
<1>5. m.adds \cap tools = {}
  BY <1>3
<1> QED
  BY <1>3, <1>4, <1>5, Joining

\* However a server tells its usage, it is what it was sent and what it answered.
LEMMA UsageTold ==
  ASSUME NEW api \in Budget!Apis, NEW sent \in Nat, NEW cached \in BOOLEAN, NEW answer \in Nat,
         PromptSize \in Nat, PromptSize <= sent,
         NEW u, u = [prompt |-> sent, fresh |-> IF cached THEN 0 ELSE sent, answer |-> answer,
                     read |-> IF cached THEN PromptSize ELSE 0,
                     written |-> IF cached THEN sent - PromptSize ELSE 0,
                     total |-> IF cached THEN 0 ELSE sent + answer]
  PROVE  Budget!ContextTokens(api, u) = sent + answer
<1>1. /\ u.prompt = sent /\ u.answer = answer
      /\ cached => u.fresh = 0 /\ u.read = PromptSize /\ u.written = sent - PromptSize /\ u.total = 0
      /\ ~cached => u.fresh = sent /\ u.read = 0 /\ u.written = 0 /\ u.total = sent + answer
  OBVIOUS
<1>2. Budget!AnthropicInput(u) + u.read + u.written + u.answer = sent + answer
  BY <1>1 DEF Budget!AnthropicInput
<1>3. Budget!OpenAiInput(u) + u.read + u.written + u.answer = sent + answer
  BY <1>1 DEF Budget!OpenAiInput, Budget!Less, Budget!Atop
<1>4. Budget!Parts(api, u) = sent + answer
  BY <1>2, <1>3 DEF Budget!Parts
<1>5. Budget!TotalTokens(api, u) = sent + answer \/ Budget!TotalTokens(api, u) = 0
  BY <1>1, <1>4 DEF Budget!TotalTokens
<1> QED
  BY <1>4, <1>5 DEF Budget!ContextTokens

\* An answer comes, or breaks off.
LEMMA AnswerComes ==
  ASSUME BudgetInv, Budget!Answer
  PROVE  BudgetInv'
<1>1. Counted /\ Requested
  BY DEF BudgetInv
<1> DEFINE usage(size, good, cached) ==
             [prompt |-> request.size, fresh |-> IF cached THEN 0 ELSE request.size,
              answer |-> IF good THEN size ELSE 0,
              read |-> IF cached THEN PromptSize ELSE 0,
              written |-> IF cached THEN request.size - PromptSize ELSE 0,
              total |-> IF cached THEN 0 ELSE request.size + (IF good THEN size ELSE 0)]
           message(size, good, told, cached) ==
             [Budget!Message("assistant", size, clock) EXCEPT
                !.usage = IF told THEN Budget!ContextTokens(request.api, usage(size, good, cached)) ELSE 0,
                !.good = good]
<1>2. /\ Budget!Sent /\ request' = Budget!None /\ UNCHANGED <<window, tools, clock>>
      /\ \E size \in {s \in Sizes \cup {0} : s <= request.max}, good \in BOOLEAN, told \in BOOLEAN,
            cached \in BOOLEAN :
           /\ good => told /\ size > 0
           /\ sized' = Append(sized, message(size, good, told, cached))
           /\ dropped' = (dropped /\ ~good)
  BY DEF Budget!Answer
<1>3. PICK size \in Sizes \cup {0}, good \in BOOLEAN, told \in BOOLEAN, cached \in BOOLEAN :
        /\ good => told /\ size > 0
        /\ sized' = Append(sized, message(size, good, told, cached))
        /\ dropped' = (dropped /\ ~good)
  BY <1>2
<1> DEFINE m == message(size, good, told, cached)
           answer == IF good THEN size ELSE 0
<1>4. /\ size \in Nat /\ clock \in Nat /\ answer \in Nat /\ request.size \in Nat
      /\ request.api \in Budget!Apis /\ request.size = ContextOf(sized, tools)
      /\ PromptSize \in Nat /\ PromptSize <= request.size
  <2>0. size \in Nat
    BY Constants
  <2>1. clock \in Nat /\ answer \in Nat
    BY <1>1, <2>0 DEF Counted
  <2>2. request.size \in Nat /\ request.api \in Budget!Apis
    BY <1>1 DEF Requested, RequestType
  <2>3. request.size = ContextOf(sized, tools)
    BY <1>1, <1>2 DEF Requested, Budget!ContextSize, ContextOf
  <2>4. PromptSize \in Nat /\ PromptSize <= ContextOf(sized, tools)
    BY <1>1, ContextIsNumber DEF Counted
  <2> QED
    BY <2>0, <2>1, <2>2, <2>3, <2>4
<1>5. Budget!ContextTokens(request.api, usage(size, good, cached)) = request.size + answer
  BY <1>4, UsageTold
<1> DEFINE counted == IF told THEN request.size + answer ELSE 0
           plain == Budget!Message("assistant", size, clock)
<1>6. m = [plain EXCEPT !.usage = counted, !.good = good] /\ counted \in Nat
  <2> HIDE DEF usage, answer, plain
  <2>1. counted \in Nat
    BY <1>4
  <2>2. (IF told THEN Budget!ContextTokens(request.api, usage(size, good, cached)) ELSE 0) = counted
    BY <1>5
  <2> HIDE DEF counted
  <2>3. m = [plain EXCEPT !.usage = counted, !.good = good]
    BY <2>2 DEF plain
  <2> QED
    BY <2>1, <2>3
<1>7. /\ m \in Entry /\ m.adds = {} /\ m.at = clock /\ m.size = size
      /\ m.role = "assistant" /\ m.usage = counted /\ m.good = good
  <2>1. plain \in Entry /\ plain.adds = {} /\ plain.at = clock /\ plain.size = size
        /\ plain.role = "assistant"
    BY <1>4, Entering
  <2> HIDE DEF m, plain, counted
  <2> QED
    BY <1>6, <2>1 DEF Entry
<1>8. sized' = Append(sized, m)
  BY <1>3
<1> HIDE DEF m, plain, message, usage
<1>9. Joins(sized, tools, m, sized', tools')
  BY <1>1, <1>2, <1>7, <1>8 DEF Joins, Counted
<1>10. /\ sized' \in Seq(Entry) /\ Len(sized') = Len(sized) + 1 /\ sized'[Len(sized) + 1] = m
       /\ \A k \in 1..Len(sized) : sized'[k] = sized[k]
  BY <1>9, Appended
<1>11. \A k \in 1..Len(sized') : sized'[k].at <= clock
  <2>1. Len(sized) \in Nat /\ clock \in Nat
    BY <1>1, LenProperties DEF Counted
  <2>2. \A k \in 1..Len(sized') : k \in 1..Len(sized) \/ k = Len(sized) + 1
    BY <1>10, <2>1
  <2> QED
    BY <1>1, <1>7, <1>10, <2>1, <2>2 DEF Counted
<1>12. UsageCovers(sized', tools') /\ (~dropped' => UsageIsRight(sized', tools'))
  <2>1. CASE good
    <3>1. Tells(m) /\ m.usage = ContextOf(sized, tools) + m.size
      <4>1. told /\ size > 0 /\ answer = size
        BY <1>3, <2>1
      <4>2. m.usage = request.size + size
        BY <1>7, <4>1
      <4>3. m.usage > 0
        BY <1>4, <4>1, <4>2
      <4> QED
        BY <1>4, <1>7, <2>1, <4>2, <4>3 DEF Tells
    <3>2. UsageCovers(sized', tools) /\ UsageIsRight(sized', tools)
      BY <1>1, <1>7, <1>8, <3>1, Answered DEF Counted
    <3> QED
      BY <1>2, <3>2
  <2>2. CASE ~good
    <3>1. ~Tells(m) /\ dropped' = dropped
      BY <1>1, <1>3, <1>7, <2>2 DEF Tells, Counted
    <3>2. UsageCovers(sized', tools') /\ (UsageIsRight(sized, tools) => UsageIsRight(sized', tools'))
      BY <1>1, <1>9, <3>1, OneMore DEF Counted
    <3> QED
      BY <1>1, <3>1, <3>2 DEF Counted
  <2> QED
    BY <2>1, <2>2
<1>13. Counted'
  <2>1. dropped' \in BOOLEAN
    BY <1>3
  <2> QED
    BY <1>1, <1>2, <1>10, <1>11, <1>12, <2>1 DEF Counted
<1>14. Requested'
  <2>1. RequestType'
    BY <1>2 DEF RequestType, Budget!None, Budget!Apis
  <2>2. ~Budget!Sent'
    BY <1>2 DEF Budget!Sent
  <2>3. Budget!EstimateIsRight' /\ Budget!ReplyFits'
    BY <1>2, <2>2 DEF Budget!EstimateIsRight, Budget!ReplyFits, Budget!None
  <2> QED
    BY <2>1, <2>2, <2>3 DEF Requested, AnswerFits
<1> QED
  BY <1>13, <1>14 DEF BudgetInv

\* The oldest messages are gone; what is in their place, up to first, is newer
\* than the rest and tells nothing.
Shortens(ms, more, d, first) ==
  /\ ms \in Seq(Entry) /\ more \in Seq(Entry) /\ d \in Nat /\ first \in Nat \ {0}
  /\ Len(ms) = Len(more) + d
  /\ \A i \in first..Len(more) : more[i] = ms[i + d]
  /\ \A i \in 1..(first - 1) :
       ~Tells(more[i]) /\ \A j \in first..Len(more) : ~(more[i].at <= more[j].at)

\* What is left is worth no more than it was.
LEMMA Shortened ==
  ASSUME NEW ms, NEW more, NEW d, NEW first, Shortens(ms, more, d, first),
         NEW ts, ts \subseteq Loadable, UsageCovers(ms, ts)
  PROVE  UsageCovers(more, ts)
<1>1. Len(ms) \in Nat /\ Len(more) \in Nat
  BY LenProperties DEF Shortens
<1> SUFFICES ASSUME NEW j \in 1..Len(more), Tells(more[j])
             PROVE  more[j].usage >= Worth(more, ts, j)
  BY DEF UsageCovers
<1>2. j \in first..Len(more) /\ j + d \in 1..Len(ms) /\ more[j] = ms[j + d]
  BY <1>1 DEF Shortens
<1> DEFINE A == NoLater(more, j)
           B == {i \in 1..Len(ms) : i - d \in A}
           k == j + d
<1>3. \A i \in A : i \in first..j /\ i + d \in 1..k /\ more[i] = ms[i + d]
  BY <1>1, <1>2 DEF Shortens, NoLater
<1>4. A \subseteq 1..Len(more) /\ B \subseteq 1..Len(ms) /\ d \in Int
  BY <1>1 DEF NoLater, Shortens
<1>5. Moved(more, A, d, ms, B)
  <2>1. A \subseteq Int /\ B \subseteq Int
    BY <1>4
  <2>2. \A i \in A : i + d \in B /\ more[i].size = ms[i + d].size
    <3> SUFFICES ASSUME NEW i \in A PROVE i + d \in B /\ more[i].size = ms[i + d].size
      OBVIOUS
    <3>1. i + d \in 1..Len(ms) /\ (i + d) - d = i
      BY <1>1, <1>2, <1>3, <1>4
    <3> QED
      BY <1>3, <3>1
  <2>3. \A i \in B : i - d \in A
    OBVIOUS
  <2> HIDE DEF A, B
  <2> QED
    BY <1>4, <2>1, <2>2, <2>3 DEF Moved
<1>6. B \subseteq NoLater(ms, k)
  <2> SUFFICES ASSUME NEW i \in B PROVE i \in NoLater(ms, k)
    OBVIOUS
  <2>1. i - d \in A /\ (i - d) + d = i
    BY <1>4
  <2>2. i \in 1..k /\ more[i - d] = ms[i]
    BY <1>3, <2>1
  <2>3. more[i - d].at <= more[j].at
    BY <2>1 DEF NoLater
  <2> QED
    BY <1>2, <2>2, <2>3 DEF NoLater
<1>7. BroughtAfter(more, ts, j) = BroughtAfter(ms, ts, k)
  <2>1. \A i \in (j + 1)..Len(more) : i + d \in (k + 1)..Len(ms) /\ more[i] = ms[i + d]
    BY <1>1, <1>2 DEF Shortens
  <2>2. \A i \in (k + 1)..Len(ms) : i - d \in (j + 1)..Len(more) /\ (i - d) + d = i
    BY <1>1, <1>2 DEF Shortens
  <2>3. \A i \in (k + 1)..Len(ms) : i - d \in (j + 1)..Len(more) /\ more[i - d] = ms[i]
    BY <2>1, <2>2
  <2> HIDE DEF k
  <2> QED
    BY <2>1, <2>3 DEF BroughtAfter
<1> HIDE DEF A, B, k
<1>8. ms \in Seq(Entry) /\ more \in Seq(Entry) /\ k \in 1..Len(ms) /\ NoLater(ms, k) \subseteq 1..Len(ms)
  BY <1>1, <1>2 DEF Shortens, NoLater, k
<1>9. HasSizes(ms, NoLater(ms, k)) /\ HasSizes(ms, B) /\ Weight(ms, B) \in Nat
  BY <1>4, <1>8, SizesKnown
<1>10. Weight(more, A) = Weight(ms, B)
  BY <1>5, <1>9, WeightMoved
<1>11. Weight(ms, B) <= Weight(ms, NoLater(ms, k))
  BY <1>6, <1>9, WeightOfSome
<1>12. /\ Worth(ms, ts, k) \in Nat /\ Weight(ms, NoLater(ms, k)) \in Nat /\ PromptSize \in Nat
       /\ Budget!ToolTokens(ts \ BroughtAfter(ms, ts, k)) \in Nat
  BY <1>8, WorthIsNumber, Constants
<1>13. Worth(more, ts, j) <= Worth(ms, ts, k) /\ Worth(more, ts, j) \in Nat
  <2>1. Worth(more, ts, j) = PromptSize + Budget!ToolTokens(ts \ BroughtAfter(ms, ts, k)) + Weight(ms, B)
    BY <1>7, <1>10 DEF Worth, A
  <2>2. Worth(ms, ts, k)
          = PromptSize + Budget!ToolTokens(ts \ BroughtAfter(ms, ts, k)) + Weight(ms, NoLater(ms, k))
    BY DEF Worth
  <2> QED
    BY <1>9, <1>11, <1>12, <2>1, <2>2
<1>14. ms[k].usage >= Worth(ms, ts, k)
  BY <1>2, <1>8 DEF UsageCovers, k
<1>15. ms[k].usage \in Nat
  <2>1. ms[k] \in Entry
    BY <1>8, ElementOfSeq
  <2> QED
    BY <2>1 DEF Entry
<1> QED
  BY <1>2, <1>12, <1>13, <1>14, <1>15 DEF k

\* The oldest messages are dropped.
LEMMA Forgetting ==
  ASSUME BudgetInv, Budget!Forget
  PROVE  BudgetInv'
<1>1. Counted /\ Requested
  BY DEF BudgetInv
<1>2. PICK k \in 1..(Len(sized) - 1) : sized' = SubSeq(sized, k + 1, Len(sized))
  BY DEF Budget!Forget
<1>3. /\ ~Budget!Sent /\ dropped' = TRUE /\ UNCHANGED <<window, tools, clock, request>>
  BY DEF Budget!Forget
<1>4. sized \in Seq(Entry) /\ Len(sized) \in Nat /\ k \in Nat /\ k <= Len(sized)
  BY <1>1, LenProperties DEF Counted
<1>5. /\ sized' \in Seq(Entry) /\ Len(sized') = Len(sized) - k
      /\ \A i \in 1..Len(sized') : sized'[i] = sized[i + k] /\ i + k \in 1..Len(sized)
  <2>1. sized' \in Seq(Entry) /\ Len(sized') = Len(sized) - k
    BY <1>2, <1>4, SubSeqProperties
  <2>2. \A i \in 1..(Len(sized) - k) : sized'[i] = sized[i + k] /\ i + k \in 1..Len(sized)
    BY <1>2, <1>4, SubSeqProperties
  <2> QED
    BY <2>1, <2>2
<1>6. Shortens(sized, sized', k, 1)
  BY <1>4, <1>5 DEF Shortens
<1>7. UsageCovers(sized', tools)
  BY <1>1, <1>6, Shortened DEF Counted
<1>8. \A i \in 1..Len(sized') : sized'[i].at <= clock
  BY <1>1, <1>5 DEF Counted
<1>9. Counted'
  BY <1>1, <1>3, <1>5, <1>7, <1>8 DEF Counted
<1>10. Requested'
  BY <1>1, <1>3
     DEF Requested, RequestType, AnswerFits, Budget!EstimateIsRight, Budget!ReplyFits, Budget!Sent
<1> QED
  BY <1>9, <1>10 DEF BudgetInv

\* A summary takes the place of the oldest messages.
LEMMA Compacting ==
  ASSUME BudgetInv, Budget!Compact
  PROVE  BudgetInv'
<1>1. Counted /\ Requested
  BY DEF BudgetInv
<1>2. PICK k \in 1..Len(sized), size \in Sizes :
        sized' = <<Budget!Message("user", size, clock')>> \o SubSeq(sized, k + 1, Len(sized))
  BY DEF Budget!Compact
<1>3. /\ ~Budget!Sent /\ dropped' = FALSE /\ clock' = clock + 1
      /\ UNCHANGED <<window, tools, request>>
  BY DEF Budget!Compact
<1> DEFINE m == Budget!Message("user", size, clock')
           rest == SubSeq(sized, k + 1, Len(sized))
           d == k - 1
<1>4. sized \in Seq(Entry) /\ Len(sized) \in Nat /\ k \in Nat /\ k <= Len(sized) /\ d \in Nat
  BY <1>1, LenProperties DEF Counted
<1>5. clock \in Nat /\ clock' \in Nat /\ clock' = clock + 1 /\ size \in Nat
  BY <1>1, <1>3, Constants DEF Counted
<1>6. m \in Entry /\ ~Tells(m) /\ m.at = clock'
  BY <1>5, Entering
<1>7. /\ rest \in Seq(Entry) /\ Len(rest) = Len(sized) - k
      /\ \A i \in 1..(Len(sized) - k) : rest[i] = sized[i + k] /\ i + k \in 1..Len(sized)
  BY <1>4, SubSeqProperties
<1>8. sized' = <<m>> \o rest
  BY <1>2
<1> HIDE DEF m, rest
<1>9. /\ sized' \in Seq(Entry) /\ Len(sized') = Len(sized) - d /\ sized'[1] = m
      /\ \A i \in 2..Len(sized') : sized'[i] = sized[i + d] /\ i + d \in 1..Len(sized)
  <2>1. <<m>> \in Seq(Entry) /\ Len(<<m>>) = 1 /\ <<m>>[1] = m
    BY <1>6
  <2>2. /\ sized' \in Seq(Entry) /\ Len(sized') = 1 + Len(rest)
        /\ \A i \in 1..(1 + Len(rest)) : sized'[i] = IF i <= 1 THEN <<m>>[i] ELSE rest[i - 1]
    BY <1>7, <1>8, <2>1, ConcatProperties
  <2>3. Len(sized') = Len(sized) - d
    BY <1>4, <1>7, <2>2
  <2>4. sized'[1] = m
    BY <1>4, <1>7, <2>1, <2>2
  <2>5. \A i \in 2..Len(sized') : i - 1 \in 1..(Len(sized) - k) /\ (i - 1) + k = i + d
    BY <1>4, <2>3
  <2>6. \A i \in 2..Len(sized') : sized'[i] = rest[i - 1]
    BY <1>4, <1>7, <2>2
  <2> QED
    BY <1>7, <2>2, <2>3, <2>4, <2>5, <2>6
<1>10. \A i \in 2..Len(sized') : sized'[i].at <= clock /\ sized'[i].at \in Nat
  <2> SUFFICES ASSUME NEW i \in 2..Len(sized') PROVE sized'[i].at <= clock /\ sized'[i].at \in Nat
    OBVIOUS
  <2>1. sized'[i] = sized[i + d] /\ i + d \in 1..Len(sized)
    BY <1>9
  <2>2. sized[i + d] \in Entry /\ sized[i + d].at <= clock
    BY <1>1, <2>1, ElementOfSeq DEF Counted
  <2> QED
    BY <2>1, <2>2 DEF Entry
<1>11. \A i \in 1..Len(sized') : i = 1 \/ i \in 2..Len(sized')
  BY <1>4, <1>9
<1>12. Shortens(sized, sized', d, 2)
  <2>1. ASSUME NEW i \in 1..(2 - 1)
        PROVE  ~Tells(sized'[i]) /\ \A j \in 2..Len(sized') : ~(sized'[i].at <= sized'[j].at)
    BY <1>5, <1>6, <1>9, <1>10
  <2>2. Len(sized) = Len(sized') + d
    BY <1>4, <1>9
  <2> HIDE DEF d
  <2> QED
    BY <1>4, <1>9, <2>1, <2>2 DEF Shortens
<1>13. UsageCovers(sized', tools)
  BY <1>1, <1>12, Shortened DEF Counted
<1>14. \A i \in 1..Len(sized') : ~Budget!Counts(sized', i)
  <2> SUFFICES ASSUME NEW i \in 1..Len(sized'), Budget!Counts(sized', i) PROVE FALSE
    OBVIOUS
  <2>1. CASE i = 1
    BY <1>6, <1>9, <2>1 DEF Budget!Counts, Tells
  <2>2. CASE i \in 2..Len(sized')
    <3>1. 1 \in 1..(i - 1)
      BY <2>2
    <3>2. sized'[1].at <= sized'[i].at
      BY <3>1 DEF Budget!Counts
    <3> QED
      BY <1>5, <1>6, <1>9, <1>10, <2>2, <3>2
  <2> QED
    BY <1>11, <2>1, <2>2
<1>15. UsageIsRight(sized', tools)
  BY <1>14 DEF UsageIsRight
<1>16. \A i \in 1..Len(sized') : sized'[i].at <= clock'
  BY <1>5, <1>6, <1>9, <1>10, <1>11
<1>17. Counted'
  BY <1>1, <1>3, <1>5, <1>9, <1>13, <1>15, <1>16 DEF Counted
<1>18. Requested'
  BY <1>1, <1>3
     DEF Requested, RequestType, AnswerFits, Budget!EstimateIsRight, Budget!ReplyFits, Budget!Sent
<1> QED
  BY <1>17, <1>18 DEF BudgetInv

\* A step of the module is one of the budget, or leaves it alone.
LEMMA BudgetSteps ==
  ASSUME [MCNext]_<<vars, budgetVars, optionVars, accessVars, toolVars, accountVars>>
  PROVE  [Budget!Next]_Budget!vars
<1> USE DEF budgetVars, Budget!vars
<1>1. CASE MCNext
  BY <1>1, ZenonT(40) DEF MCNext
<1>2. CASE UNCHANGED <<vars, budgetVars, optionVars, accessVars, toolVars, accountVars>>
  BY <1>2
<1> QED
  BY <1>1, <1>2

\* Nothing has been said or asked at the start.
LEMMA BudgetInitial == MCInit => BudgetInv
<1> SUFFICES ASSUME MCInit PROVE BudgetInv
  OBVIOUS
<1>1. Budget!Init
  BY DEF MCInit, BudgetRests
<1>2. /\ window \in Nat /\ tools = {} /\ sized = <<>> /\ clock = 1 /\ request = Budget!None
      /\ dropped = FALSE
  BY <1>1, Constants DEF Budget!Init
<1>3. sized \in Seq(Entry) /\ Len(sized) = 0
  BY <1>2
<1>4. 1..Len(sized) = {}
  BY <1>3
<1>5. Counted
  BY <1>2, <1>3, <1>4 DEF Counted, UsageCovers, UsageIsRight
<1>6. RequestType
  BY <1>2 DEF RequestType, Budget!None, Budget!Apis
<1>7. ~Budget!Sent /\ Budget!EstimateIsRight /\ Budget!ReplyFits
  BY <1>2 DEF Budget!Sent, Budget!EstimateIsRight, Budget!ReplyFits, Budget!None
<1> QED
  BY <1>5, <1>6, <1>7 DEF BudgetInv, Requested, AnswerFits

\* Every step of a conversation keeps the invariant.
LEMMA BudgetStep ==
  ASSUME BudgetInv, [Budget!Next]_Budget!vars
  PROVE  BudgetInv'
<1>1. CASE Budget!User
  BY <1>1, UserJoins
<1>2. CASE Budget!Result
  BY <1>2, ResultJoins
<1>3. CASE Budget!Send
  BY <1>3, Sending
<1>4. CASE Budget!Answer
  BY <1>4, AnswerComes
<1>5. CASE Budget!Compact
  BY <1>5, Compacting
<1>6. CASE Budget!Forget
  BY <1>6, Forgetting
<1>7. CASE UNCHANGED Budget!vars
  BY <1>7 DEF BudgetInv, Counted, Requested, RequestType, AnswerFits, Budget!vars, Budget!Sent,
    Budget!ContextSize, Budget!EstimateIsRight, Budget!ReplyFits
<1> QED
  BY <1>1, <1>2, <1>3, <1>4, <1>5, <1>6, <1>7 DEF Budget!Next

\* The estimate of a request covers all that is sent with it, and only that
\* unless messages were dropped without a summary; and a request leaves room in
\* the window for its longest answer.
THEOREM RequestsLeaveRoom == MCSpec => []AnswerFits
<1>1. BudgetInv => AnswerFits
  BY DEF BudgetInv, Requested
<1>2. BudgetInv /\ [MCNext]_<<vars, budgetVars, optionVars, accessVars, toolVars, accountVars>>
        => BudgetInv'
  BY BudgetSteps, BudgetStep
<1> QED
  BY <1>1, <1>2, BudgetInitial, PTL DEF MCSpec

-----------------------------------------------------------------------------
(* RequestOptions.                                                         *)

\* What a run knows of its next request.
IsConfig(c) ==
  /\ c \in [model : Thinkers, settings : Configured,
            level : (Options!AllLevels \ {"off"}) \cup {Options!None}]

OptionsInv ==
  /\ config # Options!NoConfig => IsConfig(config)
  /\ asked # Options!NoRequest =>
       /\ IsConfig(config)
       /\ \E c \in Prompted :
            asked = Options!RequestFor(config.model, config.settings, config.level, c)

\* A step of the module is one of the options, or leaves them alone.
LEMMA OptionSteps ==
  ASSUME [MCNext]_<<vars, budgetVars, optionVars, accessVars, toolVars, accountVars>>
  PROVE  [Options!Next]_Options!vars
<1> USE DEF optionVars, Options!vars
<1>1. CASE MCNext
  BY <1>1, ZenonT(40) DEF MCNext
<1>2. CASE UNCHANGED <<vars, budgetVars, optionVars, accessVars, toolVars, accountVars>>
  BY <1>2
<1> QED
  BY <1>1, <1>2

\* The levels and their ranks.
LEMMA Ranks ==
  /\ Options!AllLevels = {"off", "minimal", "low", "medium", "high", "xhigh", "max"}
  /\ Options!Rank("off") = 1 /\ Options!Rank("minimal") = 2 /\ Options!Rank("low") = 3
  /\ Options!Rank("medium") = 4 /\ Options!Rank("high") = 5 /\ Options!Rank("xhigh") = 6
  /\ Options!Rank("max") = 7
<1>1. /\ DOMAIN Options!Levels = 1..7
      /\ Options!Levels[1] = "off" /\ Options!Levels[2] = "minimal" /\ Options!Levels[3] = "low"
      /\ Options!Levels[4] = "medium" /\ Options!Levels[5] = "high" /\ Options!Levels[6] = "xhigh"
      /\ Options!Levels[7] = "max"
  BY DEF Options!Levels
<1>2. \A n \in 1..7 : \/ n = 1 \/ n = 2 \/ n = 3 \/ n = 4 \/ n = 5 \/ n = 6 \/ n = 7
  OBVIOUS
<1>3. Options!AllLevels = {"off", "minimal", "low", "medium", "high", "xhigh", "max"}
  BY <1>1, <1>2 DEF Options!AllLevels, Options!ToSet
<1>4. Options!Rank("off") = 1 /\ Options!Rank("minimal") = 2 /\ Options!Rank("low") = 3
  BY <1>1, <1>2 DEF Options!Rank
<1>5. Options!Rank("medium") = 4 /\ Options!Rank("high") = 5
  BY <1>1, <1>2 DEF Options!Rank
<1>6. Options!Rank("xhigh") = 6 /\ Options!Rank("max") = 7
  BY <1>1, <1>2 DEF Options!Rank
<1> QED
  BY <1>3, <1>4, <1>5, <1>6

\* Some levels have a lowest and a highest.
LEMMA Extremes ==
  ASSUME NEW S, S \subseteq Options!AllLevels, S # {}
  PROVE  /\ Options!Lowest(S) \in S
         /\ \A l \in S : Options!Rank(Options!Lowest(S)) <= Options!Rank(l)
         /\ Options!Highest(S) \in S
         /\ \A l \in S : Options!Rank(l) <= Options!Rank(Options!Highest(S))
<1>1. \E l \in S : \A other \in S : Options!Rank(l) <= Options!Rank(other)
  <2>1. ASSUME "off" \in S
        PROVE  \A other \in S : Options!Rank("off") <= Options!Rank(other)
    BY <2>1, Ranks
  <2>2. ASSUME "minimal" \in S, "off" \notin S
        PROVE  \A other \in S : Options!Rank("minimal") <= Options!Rank(other)
    BY <2>2, Ranks
  <2>3. ASSUME "low" \in S, "off" \notin S, "minimal" \notin S
        PROVE  \A other \in S : Options!Rank("low") <= Options!Rank(other)
    BY <2>3, Ranks
  <2>4. ASSUME "medium" \in S, "off" \notin S, "minimal" \notin S, "low" \notin S
        PROVE  \A other \in S : Options!Rank("medium") <= Options!Rank(other)
    BY <2>4, Ranks
  <2>5. ASSUME "high" \in S, "off" \notin S, "minimal" \notin S, "low" \notin S, "medium" \notin S
        PROVE  \A other \in S : Options!Rank("high") <= Options!Rank(other)
    BY <2>5, Ranks
  <2>6. ASSUME "xhigh" \in S, "off" \notin S, "minimal" \notin S, "low" \notin S, "medium" \notin S, "high" \notin S
        PROVE  \A other \in S : Options!Rank("xhigh") <= Options!Rank(other)
    BY <2>6, Ranks
  <2>7. ASSUME "max" \in S, "off" \notin S, "minimal" \notin S, "low" \notin S, "medium" \notin S, "high" \notin S, "xhigh" \notin S
        PROVE  \A other \in S : Options!Rank("max") <= Options!Rank(other)
    BY <2>7, Ranks
  <2>8. \/ "off" \in S \/ "minimal" \in S \/ "low" \in S \/ "medium" \in S \/ "high" \in S
        \/ "xhigh" \in S \/ "max" \in S
    BY Ranks
  <2> QED
    BY <2>1, <2>2, <2>3, <2>4, <2>5, <2>6, <2>7, <2>8
<1>2. \E l \in S : \A other \in S : Options!Rank(other) <= Options!Rank(l)
  <2>1. ASSUME "max" \in S
        PROVE  \A other \in S : Options!Rank(other) <= Options!Rank("max")
    BY <2>1, Ranks
  <2>2. ASSUME "xhigh" \in S, "max" \notin S
        PROVE  \A other \in S : Options!Rank(other) <= Options!Rank("xhigh")
    BY <2>2, Ranks
  <2>3. ASSUME "high" \in S, "max" \notin S, "xhigh" \notin S
        PROVE  \A other \in S : Options!Rank(other) <= Options!Rank("high")
    BY <2>3, Ranks
  <2>4. ASSUME "medium" \in S, "max" \notin S, "xhigh" \notin S, "high" \notin S
        PROVE  \A other \in S : Options!Rank(other) <= Options!Rank("medium")
    BY <2>4, Ranks
  <2>5. ASSUME "low" \in S, "max" \notin S, "xhigh" \notin S, "high" \notin S, "medium" \notin S
        PROVE  \A other \in S : Options!Rank(other) <= Options!Rank("low")
    BY <2>5, Ranks
  <2>6. ASSUME "minimal" \in S, "max" \notin S, "xhigh" \notin S, "high" \notin S, "medium" \notin S, "low" \notin S
        PROVE  \A other \in S : Options!Rank(other) <= Options!Rank("minimal")
    BY <2>6, Ranks
  <2>7. ASSUME "off" \in S, "max" \notin S, "xhigh" \notin S, "high" \notin S, "medium" \notin S, "low" \notin S, "minimal" \notin S
        PROVE  \A other \in S : Options!Rank(other) <= Options!Rank("off")
    BY <2>7, Ranks
  <2>8. \/ "off" \in S \/ "minimal" \in S \/ "low" \in S \/ "medium" \in S \/ "high" \in S
        \/ "xhigh" \in S \/ "max" \in S
    BY Ranks
  <2> QED
    BY <2>1, <2>2, <2>3, <2>4, <2>5, <2>6, <2>7, <2>8
<1>3. /\ Options!Lowest(S) \in S
      /\ \A l \in S : Options!Rank(Options!Lowest(S)) <= Options!Rank(l)
  BY <1>1 DEF Options!Lowest
<1>4. /\ Options!Highest(S) \in S
      /\ \A l \in S : Options!Rank(l) <= Options!Rank(Options!Highest(S))
  BY <1>2 DEF Options!Highest
<1> QED
  BY <1>3, <1>4

\* What a model supports are levels.
LEMMA SupportedAreLevels ==
  ASSUME NEW m
  PROVE  Options!Supported(m) \subseteq Options!AllLevels
BY Ranks DEF Options!Supported

\* A level is clamped to one that the model has, itself if it has it, and to a
\* thought if the model has any.
LEMMA ClampedIsSupported ==
  ASSUME NEW m, NEW level \in Options!AllLevels \ {"off"}, Options!Thoughts(m) # {}
  PROVE  /\ Options!Clamped(m, level) \in Options!Thoughts(m)
         /\ level \in Options!Supported(m) => Options!Clamped(m, level) = level
<1> DEFINE above == Options!Above(m, level)
           below == Options!Below(m, level)
<1>1. above \subseteq Options!AllLevels /\ below \subseteq Options!AllLevels
  BY SupportedAreLevels DEF Options!Above, Options!Below
<1>2. \A k, l \in Options!AllLevels :
        /\ Options!Rank(l) \in 1..7
        /\ Options!Rank(k) = Options!Rank(l) => k = l
        /\ l # "off" => Options!Rank(l) > Options!Rank("off")
  BY Ranks
<1>3. PICK thought \in Options!Supported(m) : thought # "off"
  BY DEF Options!Thoughts
<1>4. thought \in above \/ thought \in below
  BY <1>2, <1>3, SupportedAreLevels DEF Options!Above, Options!Below
<1>5. CASE above # {}
  <2>1. /\ Options!Clamped(m, level) \in above
        /\ \A l \in above : Options!Rank(Options!Clamped(m, level)) <= Options!Rank(l)
    BY <1>1, <1>5, Extremes DEF Options!Clamped
  <2>2. Options!Clamped(m, level) \in Options!Supported(m)
        /\ Options!Rank(level) <= Options!Rank(Options!Clamped(m, level))
    BY <2>1 DEF Options!Above
  <2>3. Options!Clamped(m, level) # "off"
    BY <1>2, <2>2, SupportedAreLevels
  <2>4. level \in Options!Supported(m) => level \in above
    BY <1>2 DEF Options!Above
  <2>5. level \in Options!Supported(m) => Options!Clamped(m, level) = level
    BY <1>2, <2>1, <2>2, <2>4, SupportedAreLevels
  <2> QED
    BY <2>2, <2>3, <2>5 DEF Options!Thoughts
<1>6. CASE above = {}
  <2>1. thought \in below
    BY <1>4, <1>6
  <2>2. /\ Options!Clamped(m, level) \in below
        /\ \A l \in below : Options!Rank(l) <= Options!Rank(Options!Clamped(m, level))
    BY <1>1, <1>6, <2>1, Extremes DEF Options!Clamped
  <2>3. Options!Clamped(m, level) \in Options!Supported(m) /\ Options!Clamped(m, level) # "off"
    BY <1>2, <1>3, <2>1, <2>2, SupportedAreLevels DEF Options!Below
  <2>4. level \notin Options!Supported(m)
    BY <1>2, <1>6 DEF Options!Above
  <2> QED
    BY <2>3, <2>4 DEF Options!Thoughts
<1> QED
  BY <1>5, <1>6

\* Asking for more is never clamped to less.
LEMMA ClampedInOrder ==
  ASSUME NEW m, Options!Thoughts(m) # {},
         NEW less \in Options!AllLevels \ {"off"}, NEW level \in Options!AllLevels \ {"off"},
         Options!Rank(less) < Options!Rank(level)
  PROVE  Options!Rank(Options!Clamped(m, less)) <= Options!Rank(Options!Clamped(m, level))
<1>1. \A l \in Options!AllLevels : Options!Rank(l) \in 1..7
  BY Ranks
<1>2. Options!Clamped(m, less) \in Options!Supported(m)
      /\ Options!Clamped(m, level) \in Options!Supported(m)
  BY ClampedIsSupported DEF Options!Thoughts
<1>3. \A k \in Options!AllLevels :
        Options!Above(m, k) \subseteq Options!AllLevels /\ Options!Below(m, k) \subseteq Options!AllLevels
  BY SupportedAreLevels DEF Options!Above, Options!Below
<1>4. CASE Options!Above(m, level) # {}
  <2>1. Options!Clamped(m, level) \in Options!Above(m, level)
    BY <1>3, <1>4, Extremes DEF Options!Clamped
  <2>2. Options!Clamped(m, level) \in Options!Above(m, less)
    BY <1>1, <2>1, SupportedAreLevels DEF Options!Above
  <2> QED
    BY <1>3, <2>2, Extremes DEF Options!Clamped
<1>5. CASE Options!Above(m, level) = {}
  <2>1. Options!Clamped(m, less) \in Options!Below(m, level)
    BY <1>1, <1>2, <1>5, SupportedAreLevels DEF Options!Above, Options!Below
  <2> QED
    BY <1>3, <1>5, <2>1, Extremes DEF Options!Clamped
<1> QED
  BY <1>4, <1>5

\* What a request says of thinking at all: a name of the level, or its budget.
Says(m, told, level) ==
  \/ /\ told.budget = Options!None
     /\ told.effort \in {Options!None, Options!Wire(m, level)}
     /\ m.api = "anthropic" => m.adaptive /\ told.effort # Options!None
  \/ /\ m.api = "anthropic" /\ ~m.adaptive /\ told.effort = Options!None
     /\ told.budget = IF level \in {"xhigh", "max"} THEN "high" ELSE level

\* A request for a level that the model can be clamped to says the level that
\* it was clamped to.
LEMMA LevelIsSaid ==
  ASSUME NEW m, Options!IsModel(m), m.reasoning, Options!Thoughts(m) # {},
         NEW level \in Options!AllLevels \ {"off"}
  PROVE  /\ Says(m, Options!Thinking(m, level), Options!Clamped(m, level))
         /\ Options!Thinking(m, level).on # "off"
<1> DEFINE effort == Options!Clamped(m, level)
<1>1. effort \in Options!Thoughts(m)
  BY ClampedIsSupported
<1>2. effort \in Options!AllLevels /\ effort # "off" /\ effort # Options!None /\ level # Options!None
  BY <1>1, SupportedAreLevels, Ranks DEF Options!Thoughts, Options!None
<1>3. Options!Effort(m, level) = effort
  BY <1>2 DEF Options!Effort
<1>4. ~ Options!Refused(m, effort)
  BY <1>1 DEF Options!Thoughts, Options!Supported
<1> HIDE DEF effort
<1>5. CASE m.api = "anthropic"
  <2>1. Options!Thinking(m, level) = Options!AnthropicThinking(m, effort)
    BY <1>3, <1>5 DEF Options!Thinking
  <2>2. Options!AnthropicEffort(m, effort) # Options!None
    BY DEF Options!AnthropicEffort, Options!None
  <2> QED
    BY <1>2, <1>5, <2>1, <2>2
    DEF Options!AnthropicThinking, Options!Said, Says, Options!Wire, effort
<1>6. CASE m.api = "completions"
  <2>1. Options!Thinking(m, level) = Options!CompletionsThinking(m, effort)
    BY <1>3, <1>6 DEF Options!Thinking
  <2>2. Options!Wire(m, effort) = Options!Named(m, effort, effort)
    BY <1>6 DEF Options!Wire
  <2>3. CASE m.format = "template"
    <3>1. Options!Thinking(m, level) = Options!TemplateThinking(m, effort)
      BY <2>1, <2>3 DEF Options!CompletionsThinking
    <3> QED
      BY <1>2, <1>4, <1>6, <2>2, <3>1
      DEF Options!TemplateThinking, Options!Kwarg, Options!Switch, Options!Said, Says, effort
  <2>4. CASE m.format # "template"
    <3> DEFINE told == Options!CompletionsThinking(m, effort)
    <3>1. /\ told.budget = Options!None /\ told.on # "off"
          /\ told.effort \in {Options!None, Options!Named(m, effort, effort)}
      BY <1>2, <2>4 DEF Options!IsModel, Options!CompletionsThinking, Options!Switch, Options!Said,
        Options!Unsaid, Options!EffortBeside
    <3> QED
      BY <1>6, <2>1, <2>2, <3>1 DEF Says, effort
  <2> QED
    BY <2>3, <2>4
<1>7. CASE m.api = "responses"
  <2>1. Options!Thinking(m, level) = Options!ResponsesThinking(m, effort)
    BY <1>3, <1>7 DEF Options!Thinking
  <2> QED
    BY <1>2, <1>7, <2>1 DEF Options!ResponsesThinking, Options!Said, Says, Options!Wire, effort
<1> QED
  BY <1>5, <1>6, <1>7 DEF Options!IsModel

\* How much a request asks for that names a level: that of the lowest level of
\* the name.
LEMMA AmountOfName ==
  ASSUME NEW m, Options!NamesInOrder(m), NEW level \in Options!Thoughts(m), NEW told,
         told.budget = Options!None, told.on # "off", told.effort = Options!Wire(m, level)
  PROVE  \E lowest \in Options!Thoughts(m) :
           /\ Options!Amount(m, told) = Options!Rank(lowest)
           /\ Options!Wire(m, lowest) = Options!Wire(m, level)
           /\ \A other \in Options!Thoughts(m) :
                Options!Wire(m, other) = Options!Wire(m, level)
                  => Options!Rank(lowest) <= Options!Rank(other)
<1> DEFINE same == {l \in Options!Thoughts(m) : Options!Wire(m, l) = Options!Wire(m, level)}
           meant == {l \in Options!Thoughts(m) : told.effort = Options!Wire(m, l) \/ told.budget = l}
           ranks == {Options!Rank(l) : l \in meant}
           lowest == Options!Lowest(same)
<1>1. Options!Thoughts(m) \subseteq Options!AllLevels \ {"off"}
  BY SupportedAreLevels DEF Options!Thoughts
<1>2. Options!None \notin Options!Thoughts(m)
  BY <1>1, Ranks DEF Options!None
<1>3. meant = same
  BY <1>2
<1>4. lowest \in same /\ \A l \in same : Options!Rank(lowest) <= Options!Rank(l)
  <2>1. level \in same /\ same \subseteq Options!AllLevels
    BY <1>1
  <2> HIDE DEF same
  <2> QED
    BY <2>1, Extremes
<1>5. Options!Amount(m, told) = CHOOSE n \in ranks : \A l \in meant : n <= Options!Rank(l)
  BY DEF Options!Amount
<1>6. \A l \in same : Options!Rank(l) \in Nat
  BY <1>1, Ranks
<1> HIDE DEF same, meant, lowest
<1>7. \E n \in ranks : \A l \in meant : n <= Options!Rank(l)
  BY <1>3, <1>4
<1>8. Options!Amount(m, told) \in ranks
      /\ \A l \in meant : Options!Amount(m, told) <= Options!Rank(l)
  BY <1>5, <1>7
<1>9. Options!Amount(m, told) = Options!Rank(lowest)
  BY <1>3, <1>4, <1>6, <1>8
<1> QED
  BY <1>4, <1>9 DEF same

\* How much a request asks for that tells a budget.
LEMMA AmountOfBudget ==
  ASSUME NEW m, Options!NamesInOrder(m), NEW level \in Options!Thoughts(m), NEW told,
         told.budget = level, told.on # "off", told.effort = Options!None
  PROVE  Options!Amount(m, told) = Options!Rank(level)
<1> DEFINE meant == {l \in Options!Thoughts(m) : told.effort = Options!Wire(m, l) \/ told.budget = l}
<1>1. meant = {level}
  BY DEF Options!NamesInOrder
<1>2. Options!Rank(level) \in Nat
  BY SupportedAreLevels, Ranks DEF Options!Thoughts
<1>3. Options!Amount(m, told)
        = CHOOSE n \in {Options!Rank(l) : l \in meant} : \A l \in meant : n <= Options!Rank(l)
  BY DEF Options!Amount
<1> HIDE DEF meant
<1> QED
  BY <1>1, <1>2, <1>3

\* Whoever asks for more does not ask for less.
LEMMA MoreIsMore ==
  ASSUME NEW m, Options!NamesInOrder(m), NEW told, NEW prior,
         NEW level \in Options!Thoughts(m), NEW less \in Options!Thoughts(m),
         Options!Rank(less) <= Options!Rank(level),
         Says(m, told, level), Says(m, prior, less), told.on # "off", prior.on # "off",
         Options!Tells(told), Options!Tells(prior)
  PROVE  Options!Amount(m, prior) <= Options!Amount(m, told)
<1>1. \A l \in Options!Thoughts(m) : l \in Options!AllLevels /\ Options!Rank(l) \in 1..7 /\ l # "off"
  BY SupportedAreLevels, Ranks DEF Options!Thoughts
<1>2. \A l \in Options!Thoughts(m) : Options!Wire(m, l) # Options!None /\ l # Options!None
  BY <1>1, Ranks DEF Options!NamesInOrder, Options!None
<1>3. CASE told.budget = Options!None
  <2>1. prior.budget = Options!None
    BY <1>3, <1>2 DEF Says, Options!Tells, Options!None
  <2>2. told.effort = Options!Wire(m, level) /\ prior.effort = Options!Wire(m, less)
    BY <1>3, <2>1 DEF Says, Options!Tells
  <2>3. PICK high \in Options!Thoughts(m) :
          /\ Options!Amount(m, told) = Options!Rank(high)
          /\ Options!Wire(m, high) = Options!Wire(m, level)
    BY <1>3, <2>2, AmountOfName
  <2>4. PICK low \in Options!Thoughts(m) :
          /\ Options!Amount(m, prior) = Options!Rank(low)
          /\ \A other \in Options!Thoughts(m) :
                Options!Wire(m, other) = Options!Wire(m, less)
                  => Options!Rank(low) <= Options!Rank(other)
    BY <2>1, <2>2, AmountOfName
  <2>5. Options!Rank(low) <= Options!Rank(less)
    BY <2>4
  <2>6. Options!Rank(high) <= Options!Rank(less) => Options!Wire(m, less) = Options!Wire(m, high)
    BY <2>3 DEF Options!NamesInOrder
  <2>7. Options!Rank(low) <= Options!Rank(high)
    BY <1>1, <2>3, <2>4, <2>5, <2>6
  <2> QED
    BY <2>3, <2>4, <2>7
<1>4. CASE told.budget # Options!None
  <2> DEFINE most(l) == IF l \in {"xhigh", "max"} THEN "high" ELSE l
  <2>1. /\ m.api = "anthropic" /\ ~m.adaptive
        /\ told.effort = Options!None /\ told.budget = most(level)
    BY <1>4 DEF Says
  <2>2. prior.effort = Options!None /\ prior.budget = most(less)
    <3>1. CASE prior.budget = Options!None
      BY <2>1, <3>1 DEF Says
    <3>2. CASE prior.budget # Options!None
      BY <3>2 DEF Says
    <3> QED
      BY <3>1, <3>2
  <2>3. most(level) \in Options!Thoughts(m) /\ most(less) \in Options!Thoughts(m)
    BY <2>1 DEF Options!NamesInOrder
  <2>4. Options!Rank(most(less)) <= Options!Rank(most(level))
    BY <1>1, Ranks
  <2> HIDE DEF most
  <2> QED
    BY <2>1, <2>2, <2>3, <2>4, AmountOfBudget
<1> QED
  BY <1>3, <1>4

\* Off is said where thinking is not asked for or not to be had.
LEMMA OffIsSaid ==
  ASSUME NEW m, Options!IsModel(m), m.reasoning,
         NEW level \in (Options!AllLevels \ {"off"}) \cup {Options!None},
         level = Options!None \/ Options!Thoughts(m) = {}
  PROVE  LET told == Options!Thinking(m, level)
         IN  /\ told.on # "on" /\ told.budget = Options!None
             /\ told.effort \in {Options!None, Options!Named(m, "off", "none")}
             /\ Options!Refused(m, "off") =>
                  told.effort = Options!None /\ (told.on = "off" => m.format \in Options!OnlySwitch)
<1>1. Options!Effort(m, level) = Options!None
  <2>1. CASE level = Options!None
    BY <2>1 DEF Options!Effort
  <2>2. CASE Options!Thoughts(m) = {}
    <3>1. Options!Supported(m) \subseteq {"off"}
      BY <2>2 DEF Options!Thoughts
    <3>2. Options!Above(m, level) \subseteq {"off"} /\ Options!Below(m, level) \subseteq {"off"}
      BY <3>1 DEF Options!Above, Options!Below
    <3>3. Options!Clamped(m, level) = "off"
      <4>1. \A S \in SUBSET {"off"} : S # {} => Options!Lowest(S) = "off" /\ Options!Highest(S) = "off"
        BY Extremes, Ranks
      <4> QED
        BY <3>2, <4>1 DEF Options!Clamped
    <3> QED
      BY <3>3 DEF Options!Effort
  <2> QED
    BY <2>1, <2>2
<1>2. CASE m.api = "anthropic"
  BY <1>1, <1>2 DEF Options!Thinking, Options!AnthropicThinking, Options!Said, Options!Unsaid
<1>3. CASE m.api = "completions"
  <2> DEFINE told == Options!CompletionsThinking(m, Options!None)
  <2>1. Options!Thinking(m, level) = told
    BY <1>1, <1>3 DEF Options!Thinking
  <2>2. CASE m.format = "template"
    <3>1. told = Options!TemplateThinking(m, Options!None)
      BY <2>2 DEF Options!CompletionsThinking
    <3> QED
      BY <2>1, <2>2, <3>1 DEF Options!TemplateThinking, Options!Kwarg, Options!Switch, Options!Said,
        Options!OnlySwitch, Options!None, Options!Named
  <2>3. CASE m.format \in {"zai", "qwen", "qwen-template", "deepseek", "together"}
    <3>1. told = Options!Said("off", Options!None)
      BY <2>3 DEF Options!CompletionsThinking, Options!Switch, Options!EffortBeside
    <3> QED
      BY <2>1, <2>3, <3>1 DEF Options!Said, Options!OnlySwitch
  <2>4. CASE m.format \in {"openrouter", "string", "ant-ling", "openai"}
    <3>1. \/ told = Options!Unsaid
          \/ told = Options!OffByName(m, "none")
          \/ told = Options!OffByName(m, Options!None)
      BY <2>4 DEF Options!CompletionsThinking
    <3> QED
      BY <2>1, <3>1 DEF Options!OffByName, Options!Unsaid, Options!Said, Options!None
  <2> QED
    BY <2>2, <2>3, <2>4 DEF Options!IsModel
<1>4. CASE m.api = "responses"
  BY <1>1, <1>4 DEF Options!Thinking, Options!ResponsesThinking, Options!OffByName, Options!Unsaid,
    Options!Said, Options!None
<1> QED
  BY <1>2, <1>3, <1>4 DEF Options!IsModel

\* What a request says of thinking is what was asked for.
LEMMA ThinkingIsAsked ==
  ASSUME IsConfig(config), NEW c,
         asked = Options!RequestFor(config.model, config.settings, config.level, c)
  PROVE  Options!ThinkingAsAsked
<1> DEFINE m == config.model
           level == config.level
           told == asked.thinking
<1>1. /\ Options!IsModel(m)
      /\ level \in (Options!AllLevels \ {"off"}) \cup {Options!None}
  BY OptionsAssumption DEF Options!Fit, IsConfig
<1>2. told = Options!Thinking(m, level)
      /\ asked.temperature = Options!SendsTemperature(m, config.settings, level)
  BY DEF Options!RequestFor
<1>3. Options!Asked = level
  BY DEF Options!Asked
<1> HIDE DEF m, level, told
<1>4. ~m.reasoning => told = Options!Unsaid
  BY <1>2 DEF Options!Thinking
<1>5. m.reasoning /\ Options!MeansOff(m) => Options!SaysOff(m, told)
  BY <1>1, <1>2, <1>3, OffIsSaid DEF Options!MeansOff, Options!SaysOff
<1>6. ASSUME m.reasoning, ~Options!MeansOff(m)
      PROVE  Options!SaysLevel(m, told)
  <2>1. Options!Thoughts(m) # {} /\ level \in Options!AllLevels \ {"off"}
    BY <1>1, <1>3, <1>6 DEF Options!MeansOff
  <2> DEFINE effort == Options!Clamped(m, level)
  <2>2. Says(m, told, effort) /\ told.on # "off"
    BY <1>1, <1>2, <1>6, <2>1, LevelIsSaid
  <2>3. effort \in Options!Thoughts(m) /\ (level \in Options!Supported(m) => effort = level)
    BY <2>1, ClampedIsSupported
  <2>4. told.effort # Options!None => told.effort = Options!Wire(m, effort)
    BY <2>2 DEF Says
  <2>5. ASSUME Options!NamesInOrder(m),
               NEW less \in Options!AllLevels \ {"off"}, Options!Rank(less) < Options!Rank(level),
               Options!Tells(told), Options!Tells(Options!Thinking(m, less))
        PROVE  Options!Amount(m, Options!Thinking(m, less)) <= Options!Amount(m, told)
    <3>1. /\ Says(m, Options!Thinking(m, less), Options!Clamped(m, less))
          /\ Options!Thinking(m, less).on # "off"
      BY <1>1, <1>6, <2>1, LevelIsSaid
    <3>2. Options!Clamped(m, less) \in Options!Thoughts(m)
      BY <2>1, ClampedIsSupported
    <3>3. Options!Rank(Options!Clamped(m, less)) <= Options!Rank(effort)
      BY <2>1, <2>5, ClampedInOrder
    <3> HIDE DEF effort
    <3> QED
      BY <2>2, <2>3, <2>5, <3>1, <3>2, <3>3, MoreIsMore
  <2> HIDE DEF effort
  <2> QED
    BY <1>3, <2>2, <2>3, <2>4, <2>5 DEF Options!SaysLevel
<1>7. m.api = "anthropic" /\ told.on = "on" => ~asked.temperature
  BY <1>2 DEF Options!Thinking, Options!AnthropicThinking, Options!SendsTemperature, Options!Said,
    Options!Unsaid
<1> QED
  BY <1>4, <1>5, <1>6, <1>7 DEF Options!ThinkingAsAsked, m, told

\* One more element is at most one more.
LEMMA OneElementMore ==
  ASSUME NEW S, IsFiniteSet(S), NEW n \in Nat, Cardinality(S) <= n, NEW x
  PROVE  IsFiniteSet(S \cup {x}) /\ Cardinality(S \cup {x}) <= n + 1
<1>1. Cardinality(S) \in Nat
  BY FS_CardinalityType
<1>2. IsFiniteSet(S \cup {x})
  BY FS_AddElement
<1>3. Cardinality(S \cup {x}) = Cardinality(S) \/ Cardinality(S \cup {x}) = Cardinality(S) + 1
  BY FS_AddElement
<1> QED
  BY <1>1, <1>2, <1>3

\* Four of anything are no more than four.
LEMMA FourAtMost ==
  ASSUME NEW a, NEW b, NEW c, NEW d
  PROVE  IsFiniteSet({a, b, c, d}) /\ Cardinality({a, b, c, d}) <= 4
<1>1. IsFiniteSet({a}) /\ Cardinality({a}) <= 1
  BY FS_Singleton
<1>2. IsFiniteSet({a} \cup {b}) /\ Cardinality({a} \cup {b}) <= 1 + 1
  BY <1>1, OneElementMore
<1>3. {a} \cup {b} = {a, b}
  OBVIOUS
<1>4. IsFiniteSet({a, b}) /\ Cardinality({a, b}) <= 2
  BY <1>2, <1>3
<1>5. IsFiniteSet({a, b} \cup {c}) /\ Cardinality({a, b} \cup {c}) <= 2 + 1
  BY <1>4, OneElementMore
<1>6. {a, b} \cup {c} = {a, b, c}
  OBVIOUS
<1>7. IsFiniteSet({a, b, c}) /\ Cardinality({a, b, c}) <= 3
  BY <1>5, <1>6
<1>8. IsFiniteSet({a, b, c} \cup {d}) /\ Cardinality({a, b, c} \cup {d}) <= 3 + 1
  BY <1>7, OneElementMore
<1>9. {a, b, c} \cup {d} = {a, b, c, d}
  OBVIOUS
<1> QED
  BY <1>8, <1>9

\* There are no more marks than four, and in a prompted context one of a message
\* among them.
LEMMA MarksFit ==
  ASSUME NEW m, Options!IsModel(m), NEW s, NEW c
  PROVE  LET marks == Options!Marks(m, s, c)
         IN  /\ Options!Cardinality(marks) <= 4
             /\ Options!IsPrompted(c) /\ marks # {} => \E mark \in marks : mark[1] = "message"
<1> DEFINE marks == Options!Marks(m, s, c)
<1>1. PICK place : marks \subseteq {<<"identity">>, <<"system">>, <<"tool">>, Options!Message(place)}
  <2>1. CASE m.api = "anthropic"
    BY <2>1 DEF Options!Marks, Options!AnthropicMarks
  <2>2. CASE m.api = "completions"
    BY <2>2 DEF Options!Marks, Options!CompletionsMarks
  <2>3. CASE m.api = "responses"
    BY <2>3 DEF Options!Marks
  <2> QED
    BY <2>1, <2>2, <2>3 DEF Options!IsModel
<1>2. ASSUME Options!IsPrompted(c)
      PROVE  marks # {} => \E mark \in marks : mark[1] = "message"
  <2>1. \A i : Options!Message(i)[1] = "message"
    BY DEF Options!Message
  <2>2. CASE m.api = "anthropic"
    BY <1>2, <2>1, <2>2 DEF Options!Marks, Options!AnthropicMarks, Options!IsPrompted
  <2>3. CASE m.api = "completions"
    BY <1>2, <2>1, <2>3 DEF Options!Marks, Options!CompletionsMarks, Options!IsPrompted
  <2>4. CASE m.api = "responses"
    BY <2>4 DEF Options!Marks
  <2> QED
    BY <2>2, <2>3, <2>4 DEF Options!IsModel
<1>3. Options!Cardinality(marks) <= 4
  <2> DEFINE all == {<<"identity">>, <<"system">>, <<"tool">>, Options!Message(place)}
  <2>1. IsFiniteSet(all) /\ Cardinality(all) <= 4
    <3> HIDE DEF all
    <3> QED
      BY FourAtMost DEF all
  <2>2. Cardinality(marks) <= Cardinality(all) /\ Cardinality(marks) \in Nat /\ Cardinality(all) \in Nat
    BY <1>1, <2>1, FS_Subset, FS_CardinalityType
  <2>3. Options!Cardinality(marks) = Cardinality(marks)
    BY DEF Options!Cardinality, Cardinality
  <2> QED
    BY <2>1, <2>2, <2>3
<1> QED
  BY <1>2, <1>3

\* What a request says of caching is what was asked for.
LEMMA CachingIsAsked ==
  ASSUME IsConfig(config), NEW c \in Prompted,
         asked = Options!RequestFor(config.model, config.settings, config.level, c)
  PROVE  Options!CachesAsAsked
<1> DEFINE m == config.model
           s == config.settings
<1>1. Options!IsModel(m)
  BY OptionsAssumption DEF Options!Fit, IsConfig
<1>2. /\ asked.marks = Options!Marks(m, s, c)
      /\ asked.hour = (Options!LongCaching(m, s) /\ Options!Marks(m, s, c) # {})
      /\ asked.key = Options!CacheKey(m, s)
      /\ asked.day = (m.api # "anthropic" /\ Options!LongCaching(m, s))
      /\ asked.explicit = (m.api = "responses" /\ Options!Retention(s) = "none" /\ m.explicitMode)
      /\ asked.affinity = Options!AffinityHeaders(m, s)
      /\ asked.context = c
  BY DEF Options!RequestFor
<1>0. /\ Options!Retention(s) = "none" <=> s.retention = "none"
      /\ Options!Retention(s) = "long" <=> s.retention = "long" \/ Options!EnvironmentDecides(s)
  BY DEF Options!Retention, Options!EnvironmentDecides
<1> HIDE DEF m, s
<1>3. s.retention = "none" =>
        asked.marks = {} /\ ~asked.key /\ ~asked.day /\ asked.affinity = {}
  BY <1>0, <1>1, <1>2 DEF Options!Marks, Options!CacheKey, Options!LongCaching, Options!AffinityHeaders,
    Options!IsModel
<1>4. asked.explicit => s.retention = "none"
  BY <1>0, <1>2
<1>5. asked.hour \/ asked.day =>
        m.longCaching /\ (s.retention = "long" \/ Options!EnvironmentDecides(s))
  BY <1>0, <1>2 DEF Options!LongCaching
<1>6. asked.key \/ asked.affinity # {} => s.session
  BY <1>2 DEF Options!CacheKey, Options!AffinityHeaders
<1>7. asked.affinity \cap s.suppressed = {}
  BY <1>2 DEF Options!AffinityHeaders
<1>8. /\ Options!Cardinality(asked.marks) <= 4
      /\ Options!IsPrompted(asked.context) /\ asked.marks # {} =>
           \E mark \in asked.marks : mark[1] = "message"
  BY <1>1, <1>2, MarksFit
<1> QED
  BY <1>3, <1>4, <1>5, <1>6, <1>7, <1>8 DEF Options!CachesAsAsked, m, s

LEMMA OptionsInitial == MCInit => OptionsInv
<1> SUFFICES ASSUME MCInit PROVE OptionsInv
  OBVIOUS
<1>1. Options!Init
  BY DEF MCInit, OthersRest
<1> QED
  BY <1>1 DEF Options!Init, OptionsInv

\* Every step of a run keeps the invariant.
LEMMA OptionStep == OptionsInv /\ [Options!Next]_Options!vars => OptionsInv'
<1> SUFFICES ASSUME OptionsInv, [Options!Next]_Options!vars
             PROVE  OptionsInv'
  OBVIOUS
<1>0. \A level \in Options!AllLevels :
        Options!LevelOrNone(level) \in (Options!AllLevels \ {"off"}) \cup {Options!None}
  BY DEF Options!LevelOrNone
<1>1. CASE Options!Begin
  <2>1. PICK m \in Thinkers, s \in Configured :
          config' = [model |-> m, level |-> Options!LevelOrNone(s.level), settings |-> s]
    BY <1>1 DEF Options!Begin
  <2>2. s.level \in Options!AllLevels
    BY OptionsAssumption DEF Options!Fit
  <2>3. IsConfig(config')
    BY <1>0, <2>1, <2>2 DEF IsConfig
  <2>4. asked' = asked /\ asked = Options!NoRequest
    BY <1>1 DEF Options!Begin, Options!Running, OptionsInv, IsConfig, Options!NoConfig
  <2> QED
    BY <2>3, <2>4 DEF OptionsInv
<1>2. CASE Options!Ask
  BY <1>2 DEF Options!Ask, Options!Running, OptionsInv
<1>3. CASE Options!NextTurn
  <2>1. IsConfig(config) /\ asked' = Options!NoRequest
    BY <1>3 DEF Options!NextTurn, OptionsInv
  <2>2. PICK m \in Thinkers, level \in Options!AllLevels :
          config' = [config EXCEPT !.model = m, !.level = Options!LevelOrNone(level)]
    BY <1>3 DEF Options!NextTurn
  <2>3. IsConfig(config')
    BY <1>0, <2>1, <2>2 DEF IsConfig
  <2> QED
    BY <2>1, <2>3 DEF OptionsInv
<1>4. CASE Options!End
  BY <1>4 DEF Options!End, OptionsInv
<1>5. CASE UNCHANGED Options!vars
  BY <1>5 DEF Options!vars, OptionsInv
<1> QED
  BY <1>1, <1>2, <1>3, <1>4, <1>5 DEF Options!Next

\* Every provider hears the level that was asked for, in its own words and after
\* every change of model and level, and keeps things long only for a caller who
\* asked for that or left it to an environment that does.
THEOREM RequestsSayWhatWasAsked == MCSpec => []OptionsAsAsked
<1>1. OptionsInv => OptionsAsAsked
  <2> SUFFICES ASSUME OptionsInv PROVE OptionsAsAsked
    OBVIOUS
  <2>1. CASE asked = Options!NoRequest
    BY <2>1 DEF OptionsAsAsked, Options!ThinkingAsAsked, Options!CachesAsAsked
  <2>2. CASE asked # Options!NoRequest
    BY <2>2, ThinkingIsAsked, CachingIsAsked DEF OptionsInv, OptionsAsAsked
  <2> QED
    BY <2>1, <2>2
<1>2. OptionsInv /\ [MCNext]_<<vars, budgetVars, optionVars, accessVars, toolVars, accountVars>>
        => OptionsInv'
  BY OptionSteps, OptionStep
<1> QED
  BY <1>1, <1>2, OptionsInitial, PTL DEF MCSpec

=============================================================================
