--------------------------- MODULE CopilotAccount ---------------------------
(***************************************************************************)
(* oauth/github_copilot.rs: which models a GitHub Copilot account has and  *)
(* where they are reached.  A login accepts the policies that hide models, *)
(* a login and a renewal list what is available, and the list is stored    *)
(* with the credentials; modify_github_copilot_models reads both to filter *)
(* a catalog and to give its models an address.  The account's owner may   *)
(* change it at any time.                                                  *)
(*                                                                         *)
(* Addresses are the API hosts of the service: "individual" is the default *)
(* of the code, "business" is only known from a token that names it.       *)
(***************************************************************************)
EXTENDS Naturals

(* An account has a domain, the endpoint that its tokens name, flags, and  *)
(* models.  The picker shows what has no policy or an enabled one, where   *)
(* the account has flags at all; some individual accounts have none.       *)
CONSTANTS
  Accounts,    \* accounts there may be
  MaxChanges   \* bound: changes of the account

VARIABLES
  account,
  changes,    \* how often it has changed
  stored,     \* the application's credentials: {} or one
  call,       \* the login or renewal under way
  cancelled   \* its token

vars == <<account, changes, stored, call, cancelled>>

Domains == {"none", "ghe"}
Endpoints == {"none", "proxy.individual", "proxy.business", "business"}

\* open: the policy can be accepted, if there is one.
IsModel(m, flags) ==
  /\ m \in [policy : {"none", "unconfigured", "disabled", "enabled"},
            tools : BOOLEAN, open : BOOLEAN, picker : BOOLEAN]
  /\ m.picker = (flags /\ m.policy \in {"none", "enabled"})
  /\ m.open => m.policy # "none"

IsAccount(a) ==
  /\ a = [domain |-> a.domain, endpoint |-> a.endpoint, flags |-> a.flags,
          models |-> [id \in DOMAIN a.models |-> a.models[id]]]
  /\ a.domain \in Domains /\ a.endpoint \in Endpoints /\ a.flags \in BOOLEAN
  /\ \A id \in DOMAIN a.models : IsModel(a.models[id], a.flags)

AccountsFit == \A a \in Accounts : IsAccount(a)

Offered == account.models
Idle == [at |-> "idle", login |-> FALSE, domain |-> "none", endpoint |-> "none",
         pending |-> {}, smooth |-> FALSE]

\* Credentials an older version of the application has stored know no ids: ids
\* is {} or the one list.  asked is the address the list came from; smooth is
\* kept while nothing has failed or changed since the login began.
Credentials(endpoint, domain, ids, asked, smooth) ==
  [endpoint |-> endpoint, domain |-> domain, ids |-> ids, asked |-> asked, smooth |-> smooth]

\* normalize_domain: an address and a bare host name are the same domain.
Normalized(domain) == IF domain = "url" THEN "ghe" ELSE domain

LoggedOut == changes = 0 /\ stored = {} /\ call = Idle /\ cancelled = FALSE

Init == account \in Accounts /\ LoggedOut

-----------------------------------------------------------------------------
\* get_base_url_from_token: the API next to the proxy.
TokenUrl(endpoint) ==
  CASE endpoint = "proxy.individual" -> "individual"
    [] endpoint \in {"proxy.business", "business"} -> "business"

\* get_github_copilot_base_url: what the token names, else the domain's host,
\* else the default.
BaseUrl(endpoint, domain) ==
  IF endpoint # "none" THEN TokenUrl(endpoint)
  ELSE CASE Normalized(domain) = "ghe" -> "ghe"
         [] domain = "github.com" -> "github.com"
         [] domain = "none" -> "individual"

\* policy_pending_copilot_model_ids.
PolicyPending == {id \in DOMAIN Offered : Offered[id].policy \in {"unconfigured", "disabled"}}

\* parse_available_copilot_model_ids: what the picker shows; only where it may
\* show nothing at all, what is enabled.
AvailableIds(fallback) ==
  LET callable == {id \in DOMAIN Offered : Offered[id].tools}
      shown == {id \in callable : Offered[id].picker /\ Offered[id].policy # "disabled"}
      enabled == {id \in callable : Offered[id].policy = "enabled"}
  IN IF shown = {} /\ fallback THEN enabled ELSE shown

\* copilot_credentials_from_token.  The mutant forgets the domain of an
\* enterprise.
CredentialsWithoutDomain(c, ids, asked) ==
  Credentials(c.endpoint, IF c.login THEN c.domain ELSE "none", ids, asked, c.smooth)
CredentialsFrom(c, ids, asked) ==
  Credentials(c.endpoint, c.domain, ids, asked, c.smooth)

\* modify_github_copilot_models: the models that are left, with their address.
\* The models of other providers stay as they are.
Modified(catalog, c) ==
  LET kept == {m \in catalog : m.provider = "github-copilot" =>
                 \A ids \in c.ids : m.id \in ids}
  IN {IF m.provider = "github-copilot"
      THEN [m EXCEPT !.url = BaseUrl(c.endpoint, Normalized(c.domain))] ELSE m : m \in kept}

-----------------------------------------------------------------------------
Fail == call' = Idle /\ UNCHANGED stored
Goto(at) == call' = [call EXCEPT !.at = at] /\ UNCHANGED stored

\* The user names the domain of the account, or types what is no domain.
Login ==
  /\ call.at = "idle"
  /\ \E typed \in {"none", "ghe", "url", "no domain"} :
       IF typed = "no domain" THEN Fail
       ELSE /\ call' = [Idle EXCEPT !.at = "minting", !.login = TRUE, !.smooth = TRUE,
                                    !.domain = Normalized(typed)]
            /\ UNCHANGED stored
  /\ cancelled' = FALSE
  /\ UNCHANGED <<account, changes>>

\* refresh_github_copilot_credentials keeps the domain as it is written,
\* refresh_github_copilot_token, which is given the domain, does not.
Renew ==
  /\ call.at = "idle"
  /\ \E c \in stored : \E domain \in {c.domain, Normalized(c.domain)} :
       call' = [Idle EXCEPT !.at = "minting", !.domain = domain]
  /\ cancelled' = FALSE
  /\ UNCHANGED <<account, changes, stored>>

\* mint_copilot_token: the token names the account's endpoint of now.
Mint ==
  /\ call.at = "minting"
  /\ \/ Fail
     \/ /\ Normalized(call.domain) = account.domain
        /\ call' = [call EXCEPT !.at = IF call.login THEN "surveying" ELSE "listing",
                                !.endpoint = account.endpoint]
        /\ UNCHANGED stored
  /\ UNCHANGED <<account, changes, cancelled>>

\* enable_all_github_copilot_models up to the loop.  A failure is no failure
\* of the login.
Survey ==
  /\ call.at = "surveying"
  /\ call' \in {[call EXCEPT !.at = "enabling", !.pending = PolicyPending],
                [call EXCEPT !.at = "listing", !.smooth = FALSE]}
  /\ UNCHANGED <<account, changes, stored, cancelled>>

\* What the service does to a model whose policy is accepted.
Accepted(model) ==
  [model EXCEPT !.policy = "enabled", !.picker = @ \/ account.flags]

\* One round of the loop.
Enable ==
  /\ call.at = "enabling"
  /\ IF call.pending = {} \/ cancelled
     THEN /\ call' = [call EXCEPT !.at = "listing", !.smooth = @ /\ call.pending = {}]
          /\ UNCHANGED account
     ELSE \E id \in call.pending :
            LET on == [call EXCEPT !.pending = @ \ {id}]
            IN \/ /\ Offered[id].open
                  /\ account' = [account EXCEPT !.models[id] = Accepted(@)]
                  /\ call' = on
               \/ /\ call' = [on EXCEPT !.smooth = @ /\ ~Offered[id].open]
                  /\ UNCHANGED account
  /\ UNCHANGED <<changes, stored, cancelled>>

\* The address that is asked: a login that was given no domain passes that of
\* GitHub itself.
ListingUrl ==
  BaseUrl(call.endpoint, IF call.login /\ call.domain = "none" THEN "github.com" ELSE call.domain)

\* fetch_available_copilot_model_ids_at: asked to wait, it does so once.
List ==
  /\ call.at \in {"listing", "listing again"}
  /\ \/ Fail
     \/ call.at = "listing" /\ Goto("listing again")
     \/ LET ids == AvailableIds(ListingUrl = "individual")
        IN call' = Idle /\ stored' = {CredentialsFrom(call, {ids}, ListingUrl)}
  /\ UNCHANGED <<account, changes, cancelled>>

Cancel ==
  /\ call.login /\ ~cancelled
  /\ cancelled' = TRUE
  /\ UNCHANGED <<account, changes, stored, call>>

\* The application finds credentials of an earlier version, perhaps with an
\* address for a domain.
Import ==
  /\ stored = {} /\ call.at = "idle"
  /\ \E domain \in {"none", "ghe", "url"} :
       /\ Normalized(domain) = account.domain
       /\ stored' = {Credentials(account.endpoint, domain, {}, "nowhere", FALSE)}
  /\ UNCHANGED <<account, changes, call, cancelled>>

\* The owner opens or closes a model, or the account moves.
ChangeAccount ==
  /\ changes < MaxChanges /\ changes' = changes + 1
  /\ \/ \E id \in DOMAIN Offered, policy \in {"enabled", "disabled"} :
          account' = [account EXCEPT !.models[id].policy = policy,
                                     !.models[id].picker = account.flags /\ policy = "enabled"]
     \/ \E a \in Accounts :
          /\ a.domain = account.domain
          /\ account' = [account EXCEPT !.endpoint = a.endpoint]
  /\ call' = [call EXCEPT !.smooth = FALSE]
  /\ stored' = {[c EXCEPT !.smooth = FALSE] : c \in stored}
  /\ UNCHANGED cancelled

Next ==
  \/ Login \/ Renew \/ Mint \/ Survey \/ Enable \/ List
  \/ Cancel \/ Import \/ ChangeAccount

Spec == Init /\ [][Next]_vars

-----------------------------------------------------------------------------
Catalog ==
  [id : DOMAIN Offered, provider : {"github-copilot"}, url : {"unset"}]
    \cup {[id |-> "other", provider |-> "another", url |-> "its own"]}

\* The models of a catalog are reached where they were listed, whoever listed
\* them and whatever became of the domain on the way there and back, and those
\* of other providers are left alone.  (A login to GitHub itself whose token
\* names no host asks another address than the models will get.)
ReachedWhereListed ==
  \A c \in stored : \A m \in Modified(Catalog, c) :
    IF m.provider # "github-copilot" THEN m \in Catalog
    ELSE c.ids # {} => m.url = c.asked \/ c.asked = "github.com"

\* What an account can call once its policies are accepted; where a picker has
\* no flags, only the default address is believed without.
Entitled(asked) ==
  {id \in DOMAIN Offered :
     /\ Offered[id].tools
     /\ \/ Offered[id].policy = "enabled"
        \/ account.flags /\ Offered[id].policy = "none"
     /\ account.flags \/ asked = "individual"}

\* A login in which nothing failed, was cancelled or changed beneath leaves
\* every model it could open, and no other, in the catalog.
LoginShowsAll ==
  \A c \in stored : c.smooth =>
    /\ \A id \in DOMAIN Offered : Offered[id].open => Offered[id].policy = "enabled"
    /\ {m.id : m \in Modified(Catalog, c)} = {"other"} \cup Entitled(c.asked)

ModelsAsEntitled == ReachedWhereListed /\ LoginShowsAll

=============================================================================
