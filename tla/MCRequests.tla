----------------------------- MODULE MCRequests -----------------------------
(***************************************************************************)
(* Instances of Conversation, TokenBudget, RequestOptions, Access,         *)
(* ToolDeclarations and CopilotAccount for TLC: what a request is made of, *)
(* how much of the window it leaves for the answer, what it says of        *)
(* thinking and caching, whose key it carries, how its tools go out and    *)
(* come back, and which models an account can send it to.  They share      *)
(* nothing; one goes on while the others have not begun.                   *)
(*                                                                         *)
(* The models are one of each API, a second one of the provider of the     *)
(* Responses model and one that speaks Responses behind another provider;  *)
(* three of them answer.                                                   *)
(***************************************************************************)
EXTENDS Conversation

CONSTANTS
  Thinkers, Configured, Prompted,
  PromptSize, Loadable, ToolSize, Sizes, Windows, MaxTokens, Requests, Budgets,
  Safety, Reserve, Floor, MaxClock, MaxSized,
  Builders, Settings, Contexts, Ids, ModelAuth,
  ToolLists, Clients, Claudes,
  Accounts, MaxChanges

VARIABLES
  window, tools, sized, clock, request, dropped,
  config, asked,
  provider, model, outcome,
  list, client, declared, wire, received, ran,
  account, changes, stored, update, aborted

budgetVars == <<window, tools, sized, clock, request, dropped>>
optionVars == <<config, asked>>
accessVars == <<provider, model, outcome>>
toolVars == <<list, client, declared, wire, received, ran>>
accountVars == <<account, changes, stored, update, aborted>>

Claude ==
  [name |-> "claude", provider |-> "anthropic", api |-> "anthropic", images |-> TRUE,
   openAiIds |-> FALSE, grammars |-> FALSE, loads |-> TRUE, bridge |-> FALSE, thinkingAsText |-> FALSE]

Gpt ==
  [name |-> "gpt", provider |-> "openai", api |-> "responses", images |-> TRUE,
   openAiIds |-> TRUE, grammars |-> TRUE, loads |-> TRUE, bridge |-> FALSE, thinkingAsText |-> FALSE]

GptMini == [Gpt EXCEPT !.name = "mini", !.grammars = FALSE, !.loads = FALSE]
Copilot == [Gpt EXCEPT !.name = "copilot", !.provider = "github-copilot", !.openAiIds = FALSE, !.images = FALSE]

Kimi ==
  [name |-> "kimi", provider |-> "moonshot", api |-> "completions", images |-> TRUE,
   openAiIds |-> FALSE, grammars |-> FALSE, loads |-> TRUE, bridge |-> TRUE, thinkingAsText |-> FALSE]

Blind == [Kimi EXCEPT !.name = "blind", !.images = FALSE, !.loads = FALSE, !.thinkingAsText = TRUE]

AllModels == {Claude, Gpt, GptMini, Copilot, Kimi, Blind}
Answering == {Claude, Gpt, Kimi}

Budget ==
  INSTANCE TokenBudget WITH
    messages <- sized, Prompt <- PromptSize, Tools <- Loadable, MaxMessages <- MaxSized

ASSUME BudgetAssumption == Budget!Fit

-----------------------------------------------------------------------------
(* Models that are told to think in every way, and settings of agents.     *)

Thinker ==
  [api |-> "completions", reasoning |-> TRUE, map |-> <<>>, format |-> "openai", takesEffort |-> TRUE,
   kwargs |-> [enabled |-> "never", effort |-> "never"], adaptive |-> FALSE, copilot |-> FALSE,
   takesTemperature |-> TRUE, longCaching |-> TRUE, toolMarks |-> TRUE, cacheMarks |-> FALSE,
   affinity |-> "none", openAiUrl |-> FALSE, explicitMode |-> FALSE]

Maps ==
  {<<>>, [xhigh |-> "extreme", max |-> "most"],
   [off |-> "never", minimal |-> "never"],
   [off |-> "no", minimal |-> "never", low |-> "never", medium |-> "never"]}
\* Names that are not in order.
Mixed == [minimal |-> "high", low |-> "low", high |-> "high"]
ClaudeMaps == {<<>>, [off |-> "never", minimal |-> "never", high |-> "xhigh", max |-> "max"]}

ThinkingModels ==
  {[Thinker EXCEPT !.format = f, !.map = map] :
     f \in {"zai", "qwen", "deepseek", "openrouter", "ant-ling", "openai"}, map \in Maps}
    \cup {[Thinker EXCEPT !.format = f, !.takesEffort = FALSE, !.cacheMarks = TRUE, !.affinity = "openrouter"] :
            f \in {"zai", "together", "openai"}}
    \cup {[Thinker EXCEPT !.format = "template", !.map = map, !.openAiUrl = TRUE, !.affinity = "nosession",
             !.kwargs = [enabled |-> enabled, effort |-> effort]] :
            map \in Maps, enabled \in {"always", "thinking"}, effort \in {"always", "thinking"}}
    \cup {[Thinker EXCEPT !.api = "anthropic", !.adaptive = adaptive, !.map = map, !.affinity = "openai",
             !.takesTemperature = ~adaptive, !.longCaching = ~adaptive] :
            adaptive \in BOOLEAN, map \in ClaudeMaps}
    \cup {[Thinker EXCEPT !.api = "responses", !.copilot = copilot, !.map = map, !.affinity = "openai",
             !.explicitMode = ~copilot, !.longCaching = ~copilot] :
            copilot \in BOOLEAN, map \in Maps}
    \cup {[Thinker EXCEPT !.format = "openrouter", !.map = Mixed]}
    \cup {[Thinker EXCEPT !.api = api, !.reasoning = FALSE, !.toolMarks = FALSE] :
            api \in {"anthropic", "completions", "responses"}}

Usual == [level |-> "medium", retention |-> "unset", longInEnv |-> FALSE, session |-> TRUE,
          temperature |-> TRUE, suppressed |-> {}]
AgentSettings ==
  {[Usual EXCEPT !.level = "off", !.retention = "none"], [Usual EXCEPT !.retention = "long"],
   [Usual EXCEPT !.longInEnv = TRUE, !.session = FALSE],
   [Usual EXCEPT !.retention = "short", !.longInEnv = TRUE, !.suppressed = {"x-session-affinity"}]}

Turn(role, text) == [role |-> role, text |-> text]
SomeContexts ==
  {[system |-> TRUE, tools |-> FALSE, oauth |-> FALSE, messages |-> <<Turn("assistant", FALSE)>>],
   [system |-> FALSE, tools |-> TRUE, oauth |-> FALSE, messages |-> <<Turn("user", TRUE)>>],
   [system |-> TRUE, tools |-> TRUE, oauth |-> TRUE,
    messages |-> <<Turn("user", TRUE), Turn("assistant", FALSE), Turn("tool", TRUE)>>],
   [system |-> TRUE, tools |-> FALSE, oauth |-> FALSE,
    messages |-> <<Turn("user", TRUE), Turn("assistant", TRUE), Turn("user", FALSE)>>]}

Options ==
  INSTANCE RequestOptions WITH
    request <- asked, Models <- Thinkers, Settings <- Configured, Contexts <- Prompted

ASSUME OptionsAssumption == Options!Fit

-----------------------------------------------------------------------------
(* Keys, bearer tokens and headers, each from every place; providers of    *)
(* every kind, with settings of their own or without.                      *)

Keys == INSTANCE Access

ASSUME AccessAssumption == Keys!Fit

Secret(from, form) == [from |-> from, name |-> "none", form |-> form]
NoSecret == Secret("nowhere", "none")
OpenAiApis == {"openai-responses", "openai-completions", "openai-embeddings", "openai-images"}
CopilotApis == {"by model", "anthropic-messages", "openai-completions", "openai-responses"}

NoHeaders == [h \in {"authorization", "x-api-key", "cf-aig-authorization"} |-> NoSecret]
Header(form) == Secret("header", form)

SomeHeaders ==
  {[NoHeaders EXCEPT !["authorization"] = s] :
     s \in {NoSecret, Header("removed"), Header("empty"), Header("plain")}}
    \cup {[NoHeaders EXCEPT ![h] = Header("plain")] : h \in {"x-api-key", "cf-aig-authorization"}}

EnvNames ==
  {"ANTHROPIC_AUTH_TOKEN", "ANTHROPIC_OAUTH_TOKEN", "ANTHROPIC_API_KEY", "OPENAI_API_KEY",
   "OPENROUTER_API_KEY", "COPILOT_GITHUB_TOKEN"}
Env(variables, form) == [v \in EnvNames |-> IF v \in variables THEN form ELSE "unset"]
Bearer == {"ANTHROPIC_AUTH_TOKEN"}
OAuthToken == {"ANTHROPIC_OAUTH_TOKEN"}
ApiKeys == {"ANTHROPIC_API_KEY", "OPENAI_API_KEY", "COPILOT_GITHUB_TOKEN"}
WithBearer(env, form) == [env EXCEPT !["ANTHROPIC_AUTH_TOKEN"] = form]
WithOAuth(env, form) == [env EXCEPT !["ANTHROPIC_OAUTH_TOKEN"] = form]

Unset == Env({}, "plain")
SomeKeys == Env(ApiKeys, "plain")
Environments ==
  {<<Unset, Unset>>, <<Unset, SomeKeys>>, <<SomeKeys, WithOAuth(SomeKeys, "oauth")>>,
   <<Env(ApiKeys, "empty"), WithBearer(SomeKeys, "plain")>>,
   <<Env(Bearer, "plain"), WithBearer(Env(OAuthToken, "oauth"), "plain")>>,
   <<Unset, [Env(ApiKeys \cup OAuthToken, "blank") EXCEPT !["ANTHROPIC_API_KEY"] = "plain"]>>,
   <<[Env(ApiKeys, "blank") EXCEPT !["ANTHROPIC_AUTH_TOKEN"] = "blank"], WithBearer(SomeKeys, "blank")>>}

Setting(key, headers, env) ==
  [key |-> key, headers |-> headers, scoped |-> env[1], process |-> env[2],
   hook |-> "none", cancelled |-> FALSE, unfit |-> FALSE, broken |-> FALSE]

AccessSettings ==
  {Setting(Secret("options", form), h, env) :
     form \in {"blank", "plain", "oauth"}, h \in SomeHeaders, env \in Environments}
    \cup {Setting(Secret("options", "empty"), NoHeaders, env) : env \in Environments}
    \cup {Setting(NoSecret, h, env) : h \in SomeHeaders, env \in Environments}
    \cup {[Setting(key, NoHeaders, <<Unset, Unset>>) EXCEPT
             !.hook = hook, !.cancelled = cancelled, !.unfit = unfit, !.broken = ~ unfit] :
             key \in {NoSecret, Secret("options", "plain")}, hook \in {"replaces", "fails"},
             cancelled \in BOOLEAN, unfit \in BOOLEAN}

LastMessages == {[last |-> "user", images |-> TRUE], [last |-> "result", images |-> FALSE]}

\* An address or an id of its own goes with simple keys.
AccessBuilders ==
  {b \in [key : {NoSecret} \cup {Secret("builder", form) : form \in {"blank", "plain", "oauth"}},
          token : {NoSecret, Secret("token", "plain")}, url : {"default", "own"}, id : {"default", "own"},
          api : OpenAiApis \cup CopilotApis \cup {"the only one"}] :
     /\ b.id = "own" => b.url = "default"
     /\ b.url = "own" => /\ b.token = NoSecret /\ b.key.form \in {"none", "plain"}
                         /\ b.api \in OpenAiApis
     /\ b.token # NoSecret \/ b.key.form = "oauth" => b.api = "the only one"}

Authorizations == {NoSecret, Secret("model", "plain")}

-----------------------------------------------------------------------------
(* Tools with every sampling over schemas that can and cannot be read from *)
(* a plain text, beside one of another name or of the same in other        *)
(* letters.                                                                *)

Tooling ==
  INSTANCE ToolDeclarations WITH tools <- list, request <- declared

ASSUME DeclarationsAssumption == Tooling!Fit

Named(word, spelling) == [word |-> word, spelling |-> spelling]

OneText == [object |-> TRUE, required |-> <<"a">>, properties |-> [a |-> "string"]]
Schemas ==
  {OneText, [OneText EXCEPT !.required = <<"a", "a">>], [OneText EXCEPT !.required = <<"b">>],
   [OneText EXCEPT !.properties = [a |-> "number"]],
   [OneText EXCEPT !.properties = [a |-> "string", b |-> "string"]]}

Tool(name, parameters, sampling, variants) ==
  [name |-> name, parameters |-> parameters, sampling |-> sampling, variants |-> variants]
PlainTool(name) == Tool(name, OneText, "none", {})

ReadTools ==
  {Tool(Named("read", "own"), OneText, s, {}) : s \in {"none", "prefer", "require"}}
    \cup {Tool(Named("read", "own"), p, "grammar", v) : p \in Schemas, v \in SUBSET {"lark", "regex"}}

ListsOfTools ==
  {<<>>}
    \cup {<<t, PlainTool(name)>> : t \in ReadTools, name \in {Named("lookup", "own"), Named("read", "other")}}
    \cup {<<PlainTool(Named("lookup", "other")), t>> : t \in ReadTools}

Client(api, oauth, compat) == [api |-> api, modern |-> "no", oauth |-> oauth, compat |-> compat]
SomeClients ==
  {Client("completions", FALSE, c) : c \in {<<>>, [strict |-> "no"], [grammar |-> "yes"]}}
    \cup {Client("responses", FALSE, c) : c \in {<<>>, [grammar |-> "yes", strict |-> "yes"]}}
    \cup {Client("anthropic", FALSE, <<>>), Client("anthropic", TRUE, [strict |-> "yes"])}

NoTools == list = <<>> /\ client = Client("anthropic", FALSE, <<>>)

-----------------------------------------------------------------------------
(* Accounts with and without flags, on GitHub and on a domain of their     *)
(* own, each with a model that is open to all and one that may not be.     *)

CopilotModels == INSTANCE CopilotAccount WITH call <- update, cancelled <- aborted

ASSUME AccountsAssumption == CopilotModels!AccountsFit

Listed(policy, callable, open, flags) ==
  [policy |-> policy, tools |-> callable, open |-> open,
   picker |-> flags /\ policy \in {"none", "enabled"}]

Account(domain, endpoint, flags) ==
  {[domain |-> domain, endpoint |-> endpoint, flags |-> flags,
    models |-> [gpt |-> Listed(gpt, TRUE, FALSE, flags), claude |-> claude]] :
     gpt \in {"none", "enabled"},
     claude \in {Listed("unconfigured", TRUE, open, flags) : open \in BOOLEAN}
                \cup {Listed("disabled", TRUE, FALSE, flags), Listed("enabled", FALSE, FALSE, flags)}}

SomeAccounts ==
  Account("none", "proxy.business", TRUE) \cup Account("ghe", "none", TRUE)
    \cup UNION {Account("none", endpoint, flags) : endpoint \in {"none", "proxy.individual"}, flags \in BOOLEAN}

AnAccount ==
  [domain |-> "ghe", endpoint |-> "none", flags |-> TRUE,
   models |-> [gpt |-> Listed("none", TRUE, FALSE, TRUE), claude |-> Listed("disabled", TRUE, FALSE, TRUE)]]

-----------------------------------------------------------------------------
\* With one window, for it does not matter to the others.
BudgetRests == Budget!Init /\ window = Max(Windows)
ToolsRest == NoTools /\ Tooling!Unasked
AccountRests == account = AnAccount /\ CopilotModels!LoggedOut

OthersRest == Init /\ Options!Init /\ Keys!Init

MCInit ==
  \/ OthersRest /\ Budget!Init /\ ToolsRest /\ AccountRests
  \/ OthersRest /\ BudgetRests /\ Tooling!Init /\ AccountRests
  \/ OthersRest /\ BudgetRests /\ ToolsRest /\ CopilotModels!Init

MCNext ==
  \/ /\ BudgetRests /\ Options!Init /\ Keys!Init /\ ToolsRest /\ AccountRests
     /\ Next
     /\ UNCHANGED <<budgetVars, optionVars, accessVars, toolVars, accountVars>>
  \/ /\ OthersRest /\ ToolsRest /\ AccountRests
     /\ Budget!Next
     /\ UNCHANGED <<vars, optionVars, accessVars, toolVars, accountVars>>
  \/ /\ Init /\ BudgetRests /\ Keys!Init /\ ToolsRest /\ AccountRests
     /\ Options!Next
     /\ UNCHANGED <<vars, budgetVars, accessVars, toolVars, accountVars>>
  \/ /\ Init /\ BudgetRests /\ Options!Init /\ ToolsRest /\ AccountRests
     /\ Keys!Next
     /\ UNCHANGED <<vars, budgetVars, optionVars, toolVars, accountVars>>
  \/ /\ OthersRest /\ BudgetRests /\ AccountRests
     /\ Tooling!Next
     /\ UNCHANGED <<vars, budgetVars, optionVars, accessVars, accountVars>>
  \/ /\ OthersRest /\ BudgetRests /\ ToolsRest
     /\ CopilotModels!Next
     /\ UNCHANGED <<vars, budgetVars, optionVars, accessVars, toolVars>>

MCSpec ==
  MCInit /\ [][MCNext]_<<vars, budgetVars, optionVars, accessVars, toolVars, accountVars>>

\* An estimate counts all that is sent with the request and nothing else, and
\* a request and its longest answer fit into the window (TokenBudget).
AnswerFits == Budget!EstimateIsRight /\ Budget!ReplyFits

\* Every provider hears the level of thinking that was asked for in its own
\* words, nothing is cached for a caller who wants nothing cached, nor long unless
\* the caller asks for it or leaves it to an environment that does, and what is
\* marked is what the providers take (RequestOptions).
OptionsAsAsked == Options!ThinkingAsAsked /\ Options!CachesAsAsked

\* A request carries the first of the credentials there are that no variable of
\* spaces hides (Access).
CredentialsInOrder == Keys!CredentialsInOrder

\* What the model calls is what runs, and what it is told it has called
\* (ToolDeclarations).
ToolsAsDeclared == Tooling!ToolsAsDeclared

\* The models of a catalog are those the account may call, at the address that
\* listed them (CopilotAccount).
ModelsAsEntitled == CopilotModels!ModelsAsEntitled

=============================================================================
