------------------------------- MODULE Access -------------------------------
(***************************************************************************)
(* How a call gets to a provider: the provider object that is built, the   *)
(* model built from it, and the way of one call's options through the      *)
(* entry point (stream.rs, images.rs, embeddings.rs), the provider's       *)
(* wrapper and the client of the API, each of which may add a key, until   *)
(* the headers are put together.                                           *)
(*                                                                         *)
(* A secret is a record of the place it comes from, of the variable it is  *)
(* read from, if it is, and of its form: "empty" and "blank" (spaces) are  *)
(* keys without content, "oauth" is a key Anthropic gives to Claude Code.  *)
(* Environment variables are set for the call (scoped) or for the process, *)
(* to nothing, to spaces or to a key.  Names of headers are taken in one   *)
(* spelling.                                                               *)
(*                                                                         *)
(* A call of a language model also has the hook that may see and replace   *)
(* its payload, a token that may be cancelled already, a payload that may  *)
(* not be built (unfit) and a header that may not be valid (broken).       *)
(***************************************************************************)
EXTENDS Naturals, Functions, Sequences

CONSTANTS
  Builders,   \* settings of a builder: key, token, url, id, api
  Settings,   \* the options of a call: key, headers, scoped and process environment, hook,
              \* cancelled, unfit and broken
  Contexts,   \* the last message that is not custom, and whether there are images
  Ids,        \* ids of models
  ModelAuth   \* the authorization headers a model may be built with

VARIABLES
  provider,   \* the provider object
  model,      \* the model built from it
  outcome     \* what became of the call

vars == <<provider, model, outcome>>

Variable(from, name, form) == [from |-> from, name |-> name, form |-> form]
Secret(from, form) == Variable(from, "none", form)
None == Secret("nowhere", "none")
Removed == Secret("header", "removed")

IsBlank(s) == s.form \in {"none", "empty", "blank"}

Firstly(S) == CHOOSE i \in S : \A j \in S : i <= j

\* the first of some secrets that has content
First(secrets) ==
  LET real == {i \in DOMAIN secrets : ~ IsBlank(secrets[i])}
  IN  IF real = {} THEN None ELSE secrets[Firstly(real)]

Forms == {"empty", "blank", "plain", "oauth"}
Names == {"authorization", "x-api-key", "cf-aig-authorization"}
Variables ==
  {"ANTHROPIC_AUTH_TOKEN", "ANTHROPIC_OAUTH_TOKEN", "ANTHROPIC_API_KEY", "OPENAI_API_KEY",
   "OPENROUTER_API_KEY", "COPILOT_GITHUB_TOKEN"}

\* what a variable of the environment is set to, if it is
Values == {"unset"} \cup Forms

OrNone(from, forms) == {None} \cup {Secret(from, form) : form \in forms}

\* where what is given comes from; "own" is an address or id of the caller's
Fit ==
  /\ Settings \subseteq
       [key : OrNone("options", Forms), headers : [Names -> OrNone("header", {"removed", "empty", "plain"})],
        scoped : [Variables -> Values], process : [Variables -> Values],
        hook : {"none", "replaces", "fails"}, cancelled : BOOLEAN, unfit : BOOLEAN, broken : BOOLEAN]
  /\ Builders \subseteq
       [key : OrNone("builder", Forms), token : OrNone("token", Forms), url : {"default", "own"},
        id : {"default", "own"}, api : STRING]
  /\ ModelAuth \subseteq OrNone("model", {"plain"})

Nothing == [kind |-> "nothing"]

-----------------------------------------------------------------------------
(* The environment.                                                        *)

KeyVariables(id) ==
  CASE id = "anthropic"      -> <<"ANTHROPIC_OAUTH_TOKEN", "ANTHROPIC_API_KEY">>
    [] id = "openai"         -> <<"OPENAI_API_KEY">>
    [] id = "openrouter"     -> <<"OPENROUTER_API_KEY">>
    [] id = "github-copilot" -> <<"COPILOT_GITHUB_TOKEN">>
    [] OTHER                 -> <<>>

\* a variable that is empty is passed over, one of spaces is not
IsSet(form) == form \notin {"unset", "empty"}

ProviderEnvValue(variable, o) ==
  IF IsSet(o.scoped[variable]) THEN Variable("scoped", variable, o.scoped[variable])
  ELSE IF IsSet(o.process[variable]) THEN Variable("process", variable, o.process[variable])
  ELSE None

\* the first variable that is set, with content or without
EnvApiKey(id, o) ==
  LET variables == KeyVariables(id)
      found == {i \in DOMAIN variables : ProviderEnvValue(variables[i], o) # None}
  IN  IF found = {} THEN None ELSE ProviderEnvValue(variables[Firstly(found)], o)

OnlyProcess(o) == [o EXCEPT !.scoped = [variable \in Variables |-> "unset"]]

-----------------------------------------------------------------------------
(* Providers and models.                                                   *)

Content(s) == IF IsBlank(s) THEN None ELSE s

Named(kind, b) ==
  [kind |-> kind, id |-> IF b.id = "default" THEN kind ELSE b.id, url |-> b.url, api |-> b.api,
   key |-> b.key, token |-> None]

OpenAiBuilt(b)     == [Named("openai", b) EXCEPT !.key = Content(@)]
OpenRouterBuilt(b) == [Named("openrouter", b) EXCEPT !.key = Content(@)]
CopilotBuilt(b)    == Named("github-copilot", b)
AnthropicBuilt(b)  == [Named("anthropic", b) EXCEPT !.token = b.token]

Built(kind, b) ==
  CASE kind = "openai"         -> OpenAiBuilt(b)
    [] kind = "openrouter"     -> OpenRouterBuilt(b)
    [] kind = "github-copilot" -> CopilotBuilt(b)
    [] kind = "anthropic"      -> AnthropicBuilt(b)

OpenAiApi == {"openai-responses", "openai-completions", "openai-embeddings", "openai-images"}
CopilotApi == {"by model", "anthropic-messages", "openai-completions", "openai-responses"}

Apis(kind) ==
  CASE kind = "openai"         -> OpenAiApi
    [] kind = "github-copilot" -> CopilotApi
    [] OTHER                   -> {"the only one"}

Kept(s) == IF s = None THEN None ELSE Secret("builder", s.form)

\* The client that the builder gets from the environment of the process: only
\* GitHubCopilot takes a variable of spaces for none.
FromEnv(kind, b, o) ==
  LET token == IF kind = "anthropic"
               THEN ProviderEnvValue("ANTHROPIC_AUTH_TOKEN", OnlyProcess(o)) ELSE None
      found == IF token = None THEN EnvApiKey(kind, OnlyProcess(o)) ELSE None
      key == IF kind = "github-copilot" THEN Content(found) ELSE found
  IN  IF token = None /\ key = None THEN [kind |-> "MissingApiKey"]
      ELSE Built(kind, [b EXCEPT !.key = Kept(key), !.token = Kept(token)])

Gpt5 == {"gpt-5.5", "gpt-5.1"}

DefaultApi(id) ==
  CASE id = "claude-sonnet-4.5"           -> "anthropic-messages"
    [] id \in Gpt5 \cup {"grok-4"}        -> "openai-responses"
    [] OTHER                              -> "openai-completions"

Methods(kind) ==
  CASE kind = "openai"         -> {"model", "image_model", "embedding_model"}
    [] kind = "github-copilot" -> {"model", "embedding_model"}
    [] OTHER                   -> {"model"}

Capability(api) ==
  CASE api \in {"openai-images", "openrouter-images"} -> "image"
    [] api = "openai-embeddings"                      -> "embedding"
    [] OTHER                                          -> "language"

\* what is set for a model: grammars, the search of tools and strict schemas
Plain(p, id, api) ==
  [kind |-> "model", provider |-> p.id, id |-> id, api |-> api, can |-> Capability(api), url |-> p.url,
   authorization |-> None, grammar |-> FALSE, search |-> FALSE, strict |-> FALSE]

OpenAiModel(p, id) ==
  [Plain(p, id, p.api) EXCEPT
     !.grammar = p.api = "openai-responses" /\ id \in Gpt5,
     !.search = p.id = "openai" /\ p.api = "openai-responses" /\ id = "gpt-5.5",
     !.strict = p.api = "openai-responses"]

BaseUrl(p, api) == IF api = "anthropic-messages" THEN p.url \o "/v1" ELSE p.url

CopilotModel(p, id) ==
  LET api == IF p.api = "by model" THEN DefaultApi(id) ELSE p.api
  IN  [Plain(p, id, api) EXCEPT !.url = BaseUrl(p, api),
                                !.grammar = api = "openai-responses" /\ id \in Gpt5]

AnthropicModel(p, id) == [Plain(p, id, "anthropic-messages") EXCEPT !.strict = TRUE]
OpenRouterModel(p, id) == Plain(p, id, "openrouter-images")

ModelOf(p, method, id) ==
  CASE method = "embedding_model"                       -> Plain(p, id, "openai-embeddings")
    [] method = "image_model"                           -> Plain(p, id, "openai-images")
    [] method = "model" /\ p.kind = "openai"            -> OpenAiModel(p, id)
    [] method = "model" /\ p.kind = "github-copilot"    -> CopilotModel(p, id)
    [] method = "model" /\ p.kind = "anthropic"         -> AnthropicModel(p, id)
    [] method = "model" /\ p.kind = "openrouter"        -> OpenRouterModel(p, id)

\* a provider without key at an address of its own is one that asks for none
AllowsMissingKey(p) == p.kind = "openai" /\ p.key = None /\ p.url # "default"

-----------------------------------------------------------------------------
(* The way of the options.                                                 *)

Overrides(o, header) == o.headers[header] # None

\* a header counts if it has content, and that of a bearer token has the word before it
Gives(o, header) ==
  /\ Overrides(o, header)
  /\ o.headers[header].from = "header" => o.headers[header].form = "plain"

\* a mutant: the environment's key replaces the caller's
WithEnvApiKeyAlways(id, o) ==
  IF EnvApiKey(id, o) = None THEN o ELSE [o EXCEPT !.key = EnvApiKey(id, o)]

WithEnvApiKey(id, o) ==
  LET token == ProviderEnvValue("ANTHROPIC_AUTH_TOKEN", o)
      bearing == IF id = "anthropic" /\ ~ Overrides(o, "authorization") /\ token # None
                 THEN [o EXCEPT !.headers["authorization"] = token] ELSE o
      key == EnvApiKey(id, o)
  IN  IF ~ IsBlank(o.key) THEN o
      ELSE IF id = "anthropic" /\ Overrides(bearing, "authorization") THEN bearing
      ELSE IF key = None THEN bearing
      ELSE [bearing EXCEPT !.key = key]

OrElse(o, key) == IF IsBlank(o.key) THEN [o EXCEPT !.key = key] ELSE o

\* a provider that needs no key is given one without content, or for images one of its own
WithOpenAiKey(p, o) ==
  OrElse(o, IF p.key = None /\ AllowsMissingKey(p) THEN Secret("fixed", "empty")
            ELSE IF p.key = None THEN o.key ELSE p.key)

WithImagesKey(p, o) ==
  OrElse(o, IF p.key = None /\ AllowsMissingKey(p) THEN Secret("fixed", "plain")
            ELSE IF p.key = None THEN o.key ELSE p.key)

WithEmbeddingsKey(p, o) == OrElse(o, IF p.key = None THEN o.key ELSE p.key)

WithAnthropicKey(p, o) ==
  LET keyed == OrElse(o, p.key)
  IN  IF keyed.key = None /\ ~ Overrides(keyed, "authorization") /\ ~ IsBlank(p.token)
      THEN [keyed EXCEPT !.headers["authorization"] = p.token] ELSE keyed

WithCopilotKey(p, o) == OrElse(o, p.key)
WithOpenRouterKey(p, o) == OrElse(o, p.key)

WithApiKey(p, api, o) ==
  CASE api = "openai-embeddings"                          -> WithEmbeddingsKey(p, o)
    [] api = "openai-images"                              -> WithImagesKey(p, o)
    [] api = "openrouter-images"                          -> WithOpenRouterKey(p, o)
    [] p.kind = "openai" /\ Capability(api) = "language"  -> WithOpenAiKey(p, o)
    [] p.kind = "anthropic"                               -> WithAnthropicKey(p, o)
    [] p.kind = "github-copilot" /\ Capability(api) = "language" -> WithCopilotKey(p, o)

MissingKey == Secret("nowhere", "missing")
AnthropicKey(o) ==
  IF IsBlank(o.key) /\ ~ \E h \in DOMAIN o.headers : Gives(o, h) THEN MissingKey ELSE Content(o.key)

GivenOrUnused(o) ==
  IF o.key # None THEN o.key
  ELSE IF Gives(o, "authorization") \/ Gives(o, "cf-aig-authorization") THEN Secret("unused", "plain")
  ELSE MissingKey

CompletionsKey(o) == GivenOrUnused(o)
ResponsesKey(o) == GivenOrUnused(o)
ImagesKey(o) == IF IsBlank(o.key) THEN MissingKey ELSE o.key
EmbeddingsKey(p, o) == IF IsBlank(o.key) /\ ~ AllowsMissingKey(p) THEN MissingKey ELSE Content(o.key)

ClientApiKey(p, api, o) ==
  CASE api = "anthropic-messages" -> AnthropicKey(o)
    [] api = "openai-completions" -> CompletionsKey(o)
    [] api = "openai-responses"   -> ResponsesKey(o)
    [] Capability(api) = "image"  -> ImagesKey(o)
    [] api = "openai-embeddings"  -> EmbeddingsKey(p, o)

-----------------------------------------------------------------------------
(* The headers of the request.                                             *)

IsOAuth(m, key) == m.api = "anthropic-messages" /\ key.form = "oauth"

\* the header that carries the key, and whether there is one
AnthropicHeader(m, key) ==
  IF m.provider = "github-copilot" \/ IsOAuth(m, key) THEN {"authorization"}
  ELSE IF key = None THEN {} ELSE {"x-api-key"}

CompletionsHeader(key) == IF key.form = "empty" THEN {} ELSE {"authorization"}
ResponsesHeader(key) == IF key.form = "empty" THEN {} ELSE {"authorization"}
ImagesHeader(key) == IF key.form = "empty" THEN {} ELSE {"authorization"}
OpenRouterHeader(key) == {"authorization"}
EmbeddingsHeader(key) == IF key = None THEN {} ELSE {"authorization"}

KeyHeaders(m, key) ==
  CASE m.api = "anthropic-messages" -> AnthropicHeader(m, key)
    [] m.api = "openai-completions" -> CompletionsHeader(key)
    [] m.api = "openai-responses"   -> ResponsesHeader(key)
    [] m.api = "openai-images"      -> ImagesHeader(key)
    [] m.api = "openrouter-images"  -> OpenRouterHeader(key)
    [] m.api = "openai-embeddings"  -> EmbeddingsHeader(key)

Applied(computed, override) ==
  IF override = Removed THEN None ELSE IF override = None THEN computed ELSE override

\* the model's own headers replace the key's, and the caller's replace both
Headers(m, key, o) ==
  LET bearer == IF key = None THEN Secret("nowhere", "empty") ELSE key
      computed == [h \in DOMAIN o.headers |->
                     IF h = "authorization" /\ m.authorization # None THEN m.authorization
                     ELSE IF h \in KeyHeaders(m, key) THEN bearer ELSE None]
  IN  [h \in DOMAIN o.headers |-> Applied(computed[h], o.headers[h])]

Path(api) ==
  CASE api = "anthropic-messages" -> "/messages"
    [] api = "openai-responses"   -> "/responses"
    [] api = "openai-embeddings"  -> "/embeddings"
    [] api = "openai-images"      -> "/images/generations"
    [] OTHER                      -> "/chat/completions"

Bare == [last |-> "none", images |-> FALSE]

Initiator(last) == IF last \in {"none", "user"} THEN "user" ELSE "agent"

CopilotHeaders(m, context) ==
  IF m.provider = "github-copilot" /\ m.can = "language"
  THEN [initiator |-> Initiator(context.last), vision |-> context.images]
  ELSE [initiator |-> "none", vision |-> FALSE]

-----------------------------------------------------------------------------
(* The clients, up to the request.                                         *)

Refused(kind, asked) == [kind |-> kind, asked |-> asked]

Sent(m, key, asked, o, context) ==
  [kind |-> "sent", asked |-> asked, url |-> m.url \o Path(m.api), headers |-> Headers(m, key, o),
   payload |-> IF o.hook = "replaces" THEN "the hook's" ELSE "own",
   shaped |-> IF IsOAuth(m, key) THEN "as Claude Code" ELSE "plainly",
   copilot |-> CopilotHeaders(m, context)]

\* What each client looks at, in its order.  The clients of streams look at the
\* token first, the others leave that to the sending of the request; and a stream
\* by stream_simple has a key before it is a stream.
AnthropicOrder   == <<"cancelled", "key", "payload", "hook", "header">>
CompletionsOrder == <<"cancelled", "key", "payload", "hook", "header">>
ResponsesOrder   == <<"cancelled", "key", "payload", "hook", "header">>
ImagesOrder      == <<"key", "payload", "hook", "header", "cancelled">>
OpenRouterOrder  == <<"key", "hook", "header", "cancelled">>
EmbeddingsOrder  == <<"key", "hook", "header", "cancelled">>

Order(api) ==
  CASE api = "anthropic-messages" -> AnthropicOrder
    [] api = "openai-completions" -> CompletionsOrder
    [] api = "openai-responses"   -> ResponsesOrder
    [] api = "openai-images"      -> ImagesOrder
    [] api = "openrouter-images"  -> OpenRouterOrder
    [] api = "openai-embeddings"  -> EmbeddingsOrder

Stands(obstacle, key, o) ==
  CASE obstacle = "cancelled" -> o.cancelled
    [] obstacle = "key"       -> key = MissingKey
    [] obstacle = "payload"   -> o.unfit
    [] obstacle = "hook"      -> o.hook = "fails"
    [] obstacle = "header"    -> o.broken

Prepared(p, m, order, asked, o, context) ==
  LET key == ClientApiKey(p, m.api, o)
      met == {i \in DOMAIN order : Stands(order[i], key, o)}
  IN  IF met = {} THEN Sent(m, key, asked, o, context)
      ELSE Refused(order[Firstly(met)], asked)

-----------------------------------------------------------------------------
Init ==
  /\ provider = Nothing
  /\ model = Nothing
  /\ outcome = Nothing

Kinds == {"openai", "anthropic", "openrouter", "github-copilot"}

Build ==
  /\ provider = Nothing
  /\ \E kind \in Kinds, b \in Builders :
       /\ b.api \in Apis(kind)
       /\ kind # "anthropic" => b.token = None
       /\ provider' = Built(kind, b)
  /\ UNCHANGED <<model, outcome>>

BuildFromEnv ==
  /\ provider = Nothing
  /\ \E kind \in Kinds, b \in Builders, o \in Settings :
       /\ b.api \in Apis(kind)
       /\ b.key = None /\ b.token = None /\ b.id = "default" /\ b.url = "default"
       /\ provider' = FromEnv(kind, b, o)
  /\ UNCHANGED <<model, outcome>>

\* build, build_language, build_image and build_embedding refuse a model that cannot
BuildModel ==
  /\ provider.kind \notin {"nothing", "MissingApiKey"}
  /\ model = Nothing
  /\ \E method \in Methods(provider.kind), id \in Ids, auth \in ModelAuth,
        wanted \in {"language", "image", "embedding"} :
       LET m == [ModelOf(provider, method, id) EXCEPT !.authorization = auth]
       IN  model' = IF wanted = m.can THEN m ELSE [kind |-> "UnsupportedCapability"]
  /\ UNCHANGED <<provider, outcome>>

Stream(o, context) ==
  LET dispatched == WithApiKey(provider, model.api, WithEnvApiKey(model.provider, o))
  IN  outcome' = IF model.can = "language"
                 THEN Prepared(provider, model, Order(model.api), o, dispatched, context)
                 ELSE [kind |-> "UnsupportedCapability"]

StreamSimple(o, context) ==
  LET dispatched == WithApiKey(provider, model.api, WithEnvApiKey(model.provider, o))
  IN  outcome' = IF model.can = "language"
                 THEN Prepared(provider, model, <<"key">> \o Order(model.api), o, dispatched, context)
                 ELSE [kind |-> "UnsupportedCapability"]

GenerateOrEmbed(o, can) ==
  outcome' = IF model.can = can
             THEN LET keyed == WithApiKey(provider, model.api, o)
                  IN  Prepared(provider, model, Order(model.api), o, keyed, Bare)
             ELSE [kind |-> "UnsupportedCapability"]

Call ==
  /\ model.kind = "model"
  /\ outcome = Nothing
  /\ \E o \in Settings :
       \/ \E context \in Contexts : Stream(o, context) \/ StreamSimple(o, context)
       \/ \E can \in {"image", "embedding"} : GenerateOrEmbed(o, can)
  /\ UNCHANGED <<provider, model>>

Next == Build \/ BuildFromEnv \/ BuildModel \/ Call

-----------------------------------------------------------------------------
\* the bearer token of the environment, and whether one is there or in its place
EnvBearer(o) ==
  IF model.provider = "anthropic" THEN ProviderEnvValue("ANTHROPIC_AUTH_TOKEN", o) ELSE None
Bearing(o) == model.provider = "anthropic" /\ (Overrides(o, "authorization") \/ EnvBearer(o) # None)

\* the keys and the bearer tokens a call finds, the first first
Keys(o) ==
  IF model.can = "language" /\ ~ Bearing(o) THEN <<o.key, EnvApiKey(model.provider, o), provider.key>>
  ELSE <<o.key, provider.key>>

Tokens(o) == <<EnvBearer(o), provider.token>>

Carries(s) == \E h \in DOMAIN outcome.headers : outcome.headers[h] = s

\* a variable is hidden by one of spaces before it, and its process's value by
\* one of spaces that is set for the call
Hidden(variable, o) ==
  \/ o.scoped[variable] = "blank"
  \/ /\ variable = "ANTHROPIC_API_KEY"
     /\ ProviderEnvValue("ANTHROPIC_OAUTH_TOKEN", o).form = "blank"

\* the variables that a model's provider looks for and that hold a key
Offered(o) ==
  {v \in Range(KeyVariables(model.provider)) :
     \E form \in {o.scoped[v], o.process[v]} : IsSet(form) /\ form # "blank"}

(* A request carries what the caller puts into a header, and otherwise the  *)
(* first key there is: the caller's, then the environment's, for the call   *)
(* before that of the process, then the provider's.  A bearer token of the  *)
(* environment stands for its keys, and the provider's own for no key at    *)
(* all.  A variable of spaces is no key, but it hides the value of the      *)
(* process and the variable after it, and only then does the provider's key *)
(* go out before one of the environment; a bearer token of spaces stands    *)
(* for the keys of the environment and for the provider's token.  No        *)
(* request goes out after a cancellation, or bare unless the provider asks  *)
(* for no key, the caller wants it so or one of the keys or the bearer      *)
(* token that came first has no content.  A call is refused for want of a   *)
(* key only if there is none with content but what is hidden, and no bearer *)
(* token but one that a header of the caller's replaces or, if it is the    *)
(* provider's, one beside a key of the provider's without content.          *)
(* stream.rs, the wrappers and the clients each decide a part.              *)
CredentialsInOrder ==
  /\ outcome.kind = "sent" =>
       LET o == outcome.asked
       IN  /\ ~ o.cancelled
           /\ \A h \in DOMAIN o.headers :
                Overrides(o, h) => outcome.headers[h] = Applied(None, o.headers[h])
           /\ \A s \in Range(Keys(o)) : ~ IsBlank(s) /\ Carries(s) => s = First(Keys(o))
           /\ \A s \in Range(Tokens(o)) :
                ~ IsBlank(s) /\ Carries(s) => s = First(Tokens(o)) /\ IsBlank(o.key)
           /\ ~ IsBlank(provider.token) /\ Carries(provider.token) =>
                First(Keys(o)) = None /\ ~ Bearing(o)
           /\ Bearing(o) /\ ~ IsBlank(EnvApiKey("anthropic", o)) => ~ Carries(EnvApiKey("anthropic", o))
           /\ /\ model.can = "language" /\ ~ Bearing(o)
              /\ ~ IsBlank(provider.key) /\ Carries(provider.key)
              => \A v \in Offered(o) : Hidden(v, o)
           /\ \/ \E h \in DOMAIN o.headers : ~ IsBlank(outcome.headers[h])
              \/ AllowsMissingKey(provider)
              \/ \E s \in Range(Keys(o)) \cup {EnvBearer(o)} : s.form \in {"empty", "blank"}
              \/ \E h \in DOMAIN o.headers : Overrides(o, h)
  /\ outcome.kind = "key" =>
       LET o == outcome.asked
       IN  /\ First(Keys(o)) = None
           /\ model.can = "language" =>
                /\ ~ Gives(o, "authorization") /\ ~ Gives(o, "cf-aig-authorization")
                /\ Bearing(o) \/ \A v \in Offered(o) : Hidden(v, o)
                /\ \/ Overrides(o, "authorization")
                   \/ EnvBearer(o) = None /\ (IsBlank(provider.token) \/ provider.key # None)
=============================================================================
