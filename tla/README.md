# A verification project for ai.rs

`ai.rs` (`src/crates/ai`) is a Rust library: one streaming interface over several
LLM providers, an agent loop that lets a model call tools, and OAuth for the
providers that need it. This directory holds TLA+ models of it, TLC runs that check
them on small instances, and TLAPS proofs about them.

Paths below are relative to `src/crates/ai/src/` unless they start with `src/`.

## 1. The system

| component | state it keeps | operations | talks to |
|---|---|---|---|
| **Agent facade** `agent.rs` | `active_token` (slot for one cancellation token), `idle_notify`, `AgentState` (messages, `is_streaming`, `pending_tool_calls`, `error_message`), two queues with a mode each, listeners | `prompt_messages`, `continue_run`, `steer`, `follow_up`, `abort`, `wait_for_idle`, `reset`, state and queue mutators, `subscribe` | starts the agent loop; is its event sink; awaits the listeners |
| **Agent loop** `agent_loop.rs` | the loop's context, `new_messages`, `pending_messages`, `first_turn`, `has_more_tool_calls` | `run_agent_loop`, `run_agent_loop_continue`, `run_loop`, `stream_assistant_response` | polls the queues, asks a provider, runs tool batches, emits events |
| **Tool batches** `agent_loop.rs` | stage of each call, `accepting_updates`, `update_tasks`, results | preflight, sequential, parallel and truncated execution, updates | tools and hooks; emits events; spawns a task per update |
| **Assistant event stream** `utils/event_stream.rs`, `stream.rs` | a channel, the producer's future, the terminal result | `push`, `stream_from_producer`, `final_message` | between a provider and its consumer |
| **HTTP retry** `utils/http.rs` | attempt number, delay | `send_with_retry`, sleeps, bodies read under a token | the providers |
| **SSE decoder** `utils/sse.rs` | bytes of an unfinished line, fields of an unfinished event | `push`, `finish`, limits on lines and events | the stream providers |
| **Stream providers** `providers/anthropic.rs`, `openai_completions.rs`, `openai_responses.rs` | the assistant message under construction, indices of open blocks or output slots | assembly of text, thinking and tool calls out of deltas | HTTP, SSE, event stream |
| **Faux provider** `providers/faux.rs` | scripted responses, call count, prompt cache | scripted streams, edits of the queue | tests |
| **Partial JSON** `utils/json.rs` | none (pure) | repair and lenient parsing of tool arguments while they arrive | the stream providers |
| **Context transformation** `providers/transform_messages.rs` | none (pure) | id normalisation, synthetic results for orphaned calls, other models' thinking | every provider before a request |
| **Deferred tools** `providers/deferred_tools.rs` | none (pure) | which tools are declared up front and which with a result | request building |
| **Tool declarations** `providers/constrained_sampling.rs`, `*.rs` | the deltas told of a grammar tool's input | strict, plain and grammar tools; names towards OAuth clients | request building, assembly |
| **Tool arguments** `utils/validation.rs` | none (pure) | validation and coercion by a JSON schema | tool batches |
| **Request options** `models.rs`, `providers/*.rs`, `agent.rs` | none (pure), the run's snapshot | thinking level, effort, templates, cache marks and keys | request building |
| **Token budget** `utils/estimate.rs`, `providers/simple_options.rs` | none (pure) | estimate of a context, limits on the answer | request building |
| **Usage** `providers/*.rs`, `models.rs` | none (pure) | what each API reports, in the library's terms, and its price | the final message |
| **Access** `provider.rs`, `stream.rs`, `env_api_keys.rs`, `providers/*.rs` | credentials of a provider object | builders, keys from options and environment, headers | HTTP |
| **One-shot calls** `providers/openai_images.rs`, `openrouter.rs`, `openai_embeddings.rs` | none across calls | images and embeddings | HTTP |
| **Stored documents** `types.rs` | none (pure) | hand-written readers and writers of messages, contexts, models | applications that store sessions |
| **API keys** `oauth/mod.rs` | stored credentials (the caller's) | `get_oauth_api_key`, renewal | token servers |
| **OAuth device flow** `oauth/mod.rs` | interval, deadline | polling, slow-down | a token server |
| **Anthropic login** `oauth/anthropic.rs` | callback server, manual input | login, exchange, shutdown | a browser, the caller's prompts |
| **Copilot login and account** `oauth/github_copilot.rs` | stored credentials and models | login by device code, minting, listing, enabling, renewal | GitHub |
| **OAuth registry** `oauth/mod.rs` | a list of providers | register, look up, reset | applications |
| **Session resources** `session_resources.rs` | global registry of cleanup callbacks | register, unregister, cleanup | providers that keep connections |
| Helpers, example agent | none | re-exports, error texts, a command line | everybody |

What is hard in it:

* **Await points.** Every mutex of `Agent` is a `tokio::sync::Mutex`. `continue_run`,
  `reset`, `run_with_lifecycle_after_acquire` and `clear_active_token` are sequences of
  short critical sections, and anything may run between two of them.
* **Three copies of a conversation.** The loop's context, `new_messages` and
  `state.messages` are updated at different moments, and a listener may fail between any
  two updates.
* **Failing listeners.** Every emission awaits every listener and any may return an
  error; the error leaves the loop at once and a report is emitted, whose own events may
  fail as well. Listeners come and go while an event is told.
* **Concurrency inside a batch.** Parallel tools finish in any order, hooks rewrite
  results, update callbacks spawn tasks.
* **A channel with a future beside it.** A provider's events and its result reach the
  consumer over two ways that race; a failure must be told after the events before it, and
  exactly once.
* **Retries, timeouts and cancellation** in every wait of a request, and a server that may
  interleave items or break off anywhere.
* **Cuts.** Bodies are cut into chunks and arguments into fragments at any byte.
* **Changing models.** A conversation written by one model is sent to another, with ids,
  tools and thinking of the first one in it.
* **Rotated tokens.** A server that rotates refresh tokens spends the old one at the moment
  it answers; two tasks may renew at once, and a login may fail after the renewal.
* **A callback server beside a prompt**, both of which can end a login, and a cancellation
  that must take the server down.

What makes each component correct: one run at a time; every submitted message emitted once and
in order; wake-ups not lost; `is_streaming` in step with the run (Agent). The context sent
equals the transcript shown; the event stream well nested; every run settles (loop). Each
announced call ended and answered, in source order; no call passes preflight after a
cancellation; the batch always ends (tool batches). One terminal event, which tells the
message that was told piece by piece, and `Done` only for an answer served whole (event
stream, providers). Attempts bounded, no attempt after a cancellation (retry). Output
independent of chunk boundaries (SSE, partial JSON). Every call answered once and every tool
declared before its use in each request (transformation). The answer fits into the window
(budget). Tokens counted and priced once whichever API reports them (usage). No credential
lost, no poll faster than asked, the port free after a login (OAuth). What is written is what
is read (documents). Every cleanup reaches every callback (session resources).

`PROJECT.json` lists the hazards line by line, with the properties that cover them.

## 2. The modules

```
RunEvents        what subscribers are promised of a run (abstract)
  ^ implemented by
AgentRun         one run of the loop, its three message copies, its events
ToolBatch        the tool calls of one assistant message
Agent            callers, waiters, queues and the user around the runs
AgentEvents      listeners that come and go while events are told

StreamContract   what the consumer of a message stream is promised (abstract)
  ^ implemented by
ProviderStream   = HttpRetry + StreamAssembly + EventStream
                   + AnthropicStream, CompletionsStream, ResponsesStream, FauxStream

SseDecoder, PartialJson, GrammarInput, JsonSchema, Usage, OneShot, MessageFormat, FauxServer
                   what becomes of what comes in           (run by MCDecoders)
TransformMessages <- RequestPayloads <- Conversation
TokenBudget, RequestOptions, Access, ToolDeclarations, CopilotAccount
                   what goes out                           (run by MCRequests)
OAuth            = AnthropicLogin + CopilotLogin (over DeviceFlow) + OAuthKeys
SessionResources                                           (run with OAuth by MCOAuth)

AgentProofs  AgentRunProofs  ToolBatchProofs  ProviderStreamProofs  OAuthProofs
                   theorems about the module each is named after; those about
                   AgentEvents and SessionResources are in these modules, and
                   carried over to MCToolBatch and MCOAuth in two of these
RequestProofs      theorems about TokenBudget, RequestOptions, Access,
                   ToolDeclarations and CopilotAccount, as MCRequests runs them
```

`MCToolBatch`, `MCDecoders`, `MCRequests` and `MCOAuth` only instantiate components for TLC.
Components that share a run share nothing else: each has variables of its own and goes on
while the others rest.

`Agent`, `AgentRun` and `ToolBatch` split one execution by grain. `Agent` follows a run at
the grain of `run_loop` (one action per poll, per response, per batch, per emitted prompt)
because its subject is who interleaves with the run. `AgentRun` takes the queues as a source
that answers a poll with a fresh message or with nothing, and a batch as a step that answers
a prefix of the calls, all of them unless the run is cancelled; in exchange it follows every
event and every copy of every message. `ToolBatch` opens that step: its `EveryCallAnswered`
is what `AgentRun!Tools` assumes.

### Agent

| model | code |
|---|---|
| `activeToken`, `lastToken`, `cancelled` | `active_token`; tokens are numbered so that a stale one is told from a new one |
| `steering`, `followUp`, `mode`, `Drained`, `Kept` | `PendingMessageQueue` and its `drain` |
| `tail` | the role of the last entry of `state.messages`, the only part `continue_run` reads |
| `pc[c]`, `run[c]` | where caller `c` is, and the locals of its run; one label per await point that matters |
| `InspectLastMessage`, `DrainSteering`, `DrainFollowUp` | `continue_run`, which decides on what it read after unlocking |
| `Setup`, `Snapshot`, `Settle`, `ClearActiveToken`, `NotifyWaiters` | `run_with_lifecycle_after_acquire` and `clear_active_token` |
| `wpc[w]`, `woken[w]` | `wait_for_idle`: the `Notified` future is made before the slot is looked at, and `notify_waiters` wakes all that exist |
| `EmitMessage`, `PollSteering`, `Respond`, `ToolResults`, `PollFollowUp` | the two loops of `run_loop` |
| `RunError`, `EmitRunFailure`, `ReportFails` | an error that leaves the loop, and its report, on which a listener may fail as well |
| `DropFuture` | the caller drops the future; `active_token` stays occupied, as in the code |

`delivered` and `lost` are history variables: what was emitted, in order, and what was
cleared or was held by a run that failed.

### AgentEvents

`listeners` is the list of `agent.rs`, each named by the number of its subscription
(`came`); an emission takes a copy of the list, then awaits one listener after another with
the run's `token`. `started` counts runs. An update task emits beside the loop.

### AgentRun

`context`, `new`, `transcript` are `context.messages`, `new_messages`, `state.messages`;
`streaming` and `errorSet` are `streaming_message` and `error_message`. `Emit` and `Then`
are the sink: update the state, then await the listeners, who may fail. `seen` is a
subscriber's view: whether the run has begun, whether a turn and a message are open, and a
bit that flips with each event so that none is a stutter. `Events == INSTANCE RunEvents
WITH ...` is the refinement mapping and `Events!Spec` is checked as a property.

`RunEvents` is the contract a user interface would be written against: turns do not
overlap, messages do not overlap and lie in a turn, a run ends outside of a turn, and a
failed run is closed by one report, which may cut off whatever was open.

Three things are assumed of what `AgentRun` does not contain. A provider that is asked with
a cancelled token answers with an aborted message, as the providers of the library do (a
`stream_fn` of the user's own that ignores the token breaks `RequestsAreDue`). A failed
answer carries an `error_message`, and no other answer does. A queue hands out one message
per poll: what a batch of several does to the queues is `Agent`'s subject, and the loop
treats each of them alike. `prepare_next_turn` and `should_stop_after_turn` are choices, for
the loop accepts them, though `Agent` passes no `should_stop_after_turn`.

### ToolBatch

Calls are their source indices, and `call[i]` is the stage a call has reached. In parallel
mode the futures interleave at await points (`CallStep`). Updates take the three steps of
the callback: check `accepting_updates`, spawn the task, push its handle. `DetachedUpdaters`
says whether a tool may leave the callback to a task of its own: if not, the callback runs
within one poll of the batch's task and `BatchMayRun` keeps the batch still meanwhile. A
failing listener ends the batch and drops the other futures where they are.

### ProviderStream

`EventStream` holds the channel (`chan`, `sender`), the producer's future (`pc` is the await
point it is at, `outcome` its result) and the consumer's `view`: what it has been told.
`Push` appends events until a terminal one has been pushed; `Receive`, `DeliverError` and
`Close` are the branches of the consumer's poll. `HttpRetry` is `send_with_retry` and the
waits before a body is read (`attempt`, `cancelled`). `StreamAssembly` has what the
providers share: the message under construction (`blocks`, `stop`), the wire's indices
(`slot`, `byId`), the flags of `run_stream` (`saw`), and the server: which items it has
opened and closed (`item`), how much of each it has sent (`sent`), under which index or ids
(`told`), and how many events it has `left`. A block is a kind, the item it came from and
the fragments it has: contents are abstracted, whose fragment is where is not. The four
providers are a module each. `Contract == INSTANCE StreamContract WITH phase <- view.phase,
...` is the refinement mapping.

### What goes out

| module | state | code |
|---|---|---|
| `TransformMessages` | pure operators | `transform_messages`: a message of another model loses ids, signatures and thinking as the code has it; calls without a result get one |
| `RequestPayloads` | pure operators | `convert_messages` and deferred tools of the three APIs |
| `Conversation` | `messages`; `requests`, what each model would be asked now; `before`, what it was asked last | a context that grows under several models |
| `TokenBudget` | `window`, `tools`, `messages`, `clock`, `request`, `dropped` | the estimate, the caps of `max_tokens` and of thinking budgets; the caller that summarises is external |
| `RequestOptions` | `config` (the run's snapshot), `request` | thinking levels, every thinking format, cache marks and keys |
| `Access` | `provider`, `model`, `outcome` | from builder and environment to the header of a request |
| `ToolDeclarations` | `tools`, `client`, `request`, `wire`, `received`, `ran` | a tool's declaration, the call that comes back, the tool that runs |
| `CopilotAccount` | `account`, `stored`, `call`, `cancelled` | which models a Copilot account has, and where they are reached |

### What comes in

| module | state | code |
|---|---|---|
| `SseDecoder` | `text`, `pos`, `buffer`, `event`, `data`, `raw`, `out` | `utils/sse.rs` against a reference that sees the whole text |
| `PartialJson` | `text`, `entry`, `shown` | `parse_streaming_json` at every cut; serde_json is external |
| `GrammarInput` | `wire`, `whole`, `heard`, `buffer`, `spoken`, `phase` | a grammar tool's text told as JSON deltas |
| `JsonSchema` | `schema`, `given`, `passed`, `verdict` | validation and coercion |
| `OneShot` | `job`, `pc`, `cancelled`, `sent`, `response`, `result` | image and embedding calls |
| `Usage` | `api`, `truth`, `terms`, `usage`, `reported` | each API's report of one truth, and its price |
| `MessageFormat` | `held`, `document`, `touched`, `reader`, `restored`, `stage` | what the readers and writers of `types.rs` do to a value |
| `FauxServer` | `queue`, `active`, `count`, `calls`, `cache`, `past` | the faux provider as a server of scripted answers |

### OAuth and session resources

`DeviceFlow` holds what the logins share, a future (`phase` is its await point), its
`result` and its token, and the polling loop with a clock; `CopilotLogin` puts minting,
listing and enabling after it; `AnthropicLogin` is the login and the task that serves the
callback (`listener`, the one-shot `channel`, the token `shutdown`). `OAuthKeys` is
`get_oauth_api_key` by several tasks at a time: `store` is what the application keeps,
`spent` what the server takes no more, `call[t]` where a task's renewal is. `OAuth` runs a
login and then the keys it leads to. `SessionResources` is the registry behind its lock,
threads that clean up (`at`, `todo`, `ran`, `errors`) and `throughout`, the callbacks that
were there all along.

## 3. The runs

| run | instance | shows |
|---|---|---|
| `agent_queues` | 2 callers, 2 runs, 3 messages, a tool turn, a fault | one run at a time; queues lose, duplicate and reorder nothing; one steering batch per request |
| `agent_edits` | 2 callers, 2 runs, 2 edits, a dropped future, a fault | an idle agent is not streaming; a continued run never sends an assistant tail, though messages are edited between look and snapshot |
| `agent_idle` | 2 callers, 2 waiters, 2 runs, fair | a waiter returns: no wake-up is lost between the look at the token and the sleep |
| `agent_streaming` | 1 caller, 1 edit | violated: finding 1 |
| `tool_batch` | 3 calls in each of the 3 modes, a fault, fair; 3 listeners, 1 event each of the loop and of an update task, 2 runs | every call answered once, in source order, none left pending, unanimous `terminate`; no call passes preflight after a cancellation, preflight alone; no late update; the batch ends; a listener that stays hears every event, in order |
| `tool_batch_late` | 1 call, detached updater | violated: finding 2 |
| `agent_run` | 2 turns of 2 calls, 3 messages, 1 update per response, 2 faults, fair | the three copies and `error_message` agree where they must; every request is due; events refine `RunEvents`; the run settles |
| `agent_run_final` | 1 request, 1 fault | violated: finding 3 |
| `provider_stream` | each provider; 2 items, 2 fragments, 5 server events, 1 retry | the answer is true; the events refine `StreamContract`; nothing is asked or reported as a success after a cancellation; the stream ends |
| `decoders` | the eight components of "what comes in" | events match the text; arguments and grammar input are told truly; coercion does no harm where no union is contested; answers belong to their inputs; tokens and prices counted once; documents kept; scripted answers in call order |
| `requests` | the six components of "what goes out" | what providers accept; tools loaded before use, with one exception of Completions; requests only grow; the answer fits; options, credentials, declarations and models as asked |
| `oauth` | all logins and 2 tasks that renew; 2 cleanups of 3 callbacks, fair | polls as asked; the server gone with its login; no stored token spent; every cleanup reaches every callback; a cancelled login ends unless it waits where nothing bounds the wait; cleanups end |

Several properties are conjunctions whose parts are named in their modules: `EveryCallAnswered`
(with source order, unanimity and the pending calls), `EachMessageOnce` (with the order of
the queues), `CopiesAgree` (with `error_message`), `EventsMatchText` (with the limits),
`AnswerIsTrue`, `AnswerFits`, `OptionsAsAsked`, `ArgumentsToldTruly`, `ModelsAsEntitled`,
`RequestsAreDue`, `ProvidersAccept`, `StreamEnds`, `PreflightAlone`.

**Bounds, and why they suffice.** Every bound is a constant and only guards new
submissions, tool-calling answers, faults or mutations, so work already begun is never cut
short.

* *Agent, loop, batch.* Two callers and two runs give every race for the slot, and a run that
  meets what the previous one left. Three messages give two in one queue and one elsewhere,
  which tells `All` from `OneAtATime` and is the least that can come out of order. One tool
  turn exercises both ways round the inner loop; two turns let a run meet the results, the
  messages and the compaction of its first. Three calls are the least with a first, a middle
  and a last. Two faults let a report fail as well. Three listeners are one that stays, one
  that comes and one that leaves. Callers are permuted (`CallerSymmetry`) in the runs that
  check safety only.
* *Streams.* Two items are the least that can be interleaved, two fragments the least that
  can be torn apart; five server events carry two items from opening to closing with one to
  spare. One retry reaches the end of the attempts, and one event waiting in the channel lets
  a failure race it.
* *Decoders.* Bodies of five bytes, lines of two and events of three bytes meet both limits
  from both sides; every cut is taken. The argument texts (377) have every construct of JSON
  and every place to break it off. Grammar texts have two symbols, and three are longer, for
  escapes that are cut. Schemas have every shape one level deep, among them unions whose
  members overlap or not, and unions beside other keywords. Three embedding inputs, or images,
  are the least that can be permuted. Truths have 0 to 2 tokens per bucket and prices of two
  tiers. Documents are every value of every kind with one field touched. Two faux calls and
  two edits of the queue give every race for a response.
* *Requests.* Five messages hold a prompt, a call, its result, and an answer of another model;
  answers of three models and requests for six cover each pair of APIs and the quirks the
  conversion knows. Budgets: four messages of size 3 with windows that are unknown, too small
  and large enough. Options: models of each thinking format with four level maps, and one
  whose names are out of order; four settings, one of them short by request in an environment
  that says long; four contexts, one without a prompt. Access: seven environments, of the call
  and of the process, two of them with variables of spaces. Copilot accounts of two models,
  six account kinds, and one change.
* *OAuth.* Pauses are the code's; expiries of 3, 12 and 30 seconds lie before the first
  poll, between two, and after the last. Two tasks race, three tokens let each renew. Two
  threads, three callbacks, of which one leaves.

**Fairness.** Weak fairness on the steps of a run, of a waiter, of a batch, of each call's
future and of each update task: tokio polls a woken task again, and the model assumes that
providers, tools, hooks and listeners return. No fairness is given to the user, the callers,
cancellation, faults or edits. In `AgentRun` the queues hand out at most `MaxMsgs` messages
and a provider calls tools in at most `MaxTurns` requests; a run with an endless supply of
either has no reason to settle. In `ProviderStream` the consumer polls (`Consume`) and the
producer takes the steps that need nobody else (`OwnStep`); nothing is assumed of the
server. `StreamEnds` says that a cancelled stream ends by these alone, and that any stream
ends if the timers fire, which bound every wait. In `OAuth` the logins take the steps that
need nobody else (`OwnStep`): timers, decisions, and requests that have a timeout. Where a
login waits for a prompt of the application, or for a request of a client without timeout
(`oauth/github_copilot.rs:193`, `:630`, `:670`, `oauth/mod.rs:412`), which is `AwaitsOthers`,
nothing is assumed. The server's `select!`, which chooses among ready branches at random,
takes the shutdown branch if it is ready again and again (strong fairness on `ServerEnds`);
of a connection to it nothing is assumed. `CancelledLoginEnds` says what it needs beyond
that: that the login does not wait there for good. Each thread of `SessionResources`
goes on with its cleanup.

**Deadlock** is checked, except in `agent_edits` and `agent_streaming`, where a dropped
future leaves its caller where it is and nothing gives its token back, and in `decoders`,
`requests` and `oauth`, where a behaviour stops when the text is read, the bounds are used up
or the logins are over. `AtRest`, `Done`, `Stopped` and `Ended` are the places where the
other models may rest.

## 4. Findings

1. **`reset` during a run** (`agent.rs:545`) sets `is_streaming` to false, while
   `src/crates/ai/README.md:1273` says it stays true until the run settles. Run
   `agent_streaming`.
2. **A late update** (`agent_loop.rs:830`). A tool that hands `on_update` to a task of its
   own can return after the callback's check and before its handle is pushed; the call's
   `ToolExecutionEnd` goes out and the update follows it, which two tests
   (`agent_loop.rs:1796`, `:1863`) say does not happen. Run `tool_batch_late`. For
   callbacks that stay inside the tool, `tool_batch` shows that it does not, and
   `NoLateUpdate` proves it.
3. **Events after `AgentEnd`** (`agent.rs:670`). If a listener fails on `AgentEnd`, the
   failure report emits a message, a `TurnEnd` and a second `AgentEnd`, though
   `src/crates/ai/README.md:1208` and `:1218` call `AgentEnd` final. Run `agent_run_final`.

Noted while modelling, without a run. Where a property of a run meets one of them, the
property says so and excuses it.

* *Agent.* A dropped run future leaves `active_token` occupied for good, so every later call
  is refused and `wait_for_idle` never returns (`Agent!DropFuture`); the documentation
  promises nothing about it. Model, tools and loop settings are read under separate locks. A
  late update of a previous run is told with the next run's token; events of two parallel
  tools may reach two listeners in different orders. `AgentEventStream.result` gives
  `StreamClosed` after a dropped or failed first call.
* *Partial JSON and schemas.* `repair_json` doubles a trailing backslash
  (`utils/json.rs:87`), so a text cut inside an escape shows one backslash too many. Unions
  coerce to the first member a value can be brought to: null becomes 0 where `anyOf` offers
  integer and null. An overlapping `oneOf`, or a keyword beside the union, can turn a fitting
  value into a refused one: `Contested` says of a schema whether it can, and
  `CoercionIsHarmless` excuses no other.
  Schemas without `type` do not check `properties` or `required`;
  `additionalProperties: false` is ignored without `properties`.
* *Options.* `src/crates/ai/README.md:833-836` says that `PI_CACHE_RETENTION` is not read;
  `providers/anthropic.rs:1423`, `openai_completions.rs:1589` and `openai_responses.rs:1675`
  read it, and a test of each, `provider_env_controls_default_cache_retention`, wants it to
  (`anthropic.rs:2944`, `openai_completions.rs:6003`, `openai_responses.rs:2815`). The
  property `OptionsAsAsked` names the case, `EnvironmentDecides`, as the one in which
  something is kept long that no caller asked for. `src/crates/ai/README.md:598-600` says
  "clamps to the nearest supported level"; `clamp_thinking_level` prefers any higher level.
  Some formats turn thinking off although the level map has `off: null`.
* *Conversation.* Completions takes a tool that a result names out of the list up front and
  declares it with the result (`openai_completions.rs:790-807`), also when it had been there
  before and has been called: then the call precedes the declaration. `CalledThenNamed` is
  exactly this case, and `ToolsLoadBeforeUse` excuses it for Completions alone; the other two
  APIs look at the calls.
* *Access.* Keys from the environment take precedence over a builder's (`stream.rs:23-43`).
  A variable of spaces counts as set (`provider_env.rs:3-8`): it hides the value of the
  process and the variable after it (`env_api_keys.rs:63-69`), so the builder's key goes out
  although the environment has one, which `Hidden` excuses; a blank `ANTHROPIC_AUTH_TOKEN`
  goes out as a bare `Bearer`. Only `GitHubCopilot::from_env` takes a blank one for missing
  (`providers/github_copilot.rs:54`).
  A bearer token from the environment goes out beside a builder's `x-api-key`. A blank
  builder key at Anthropic hides its token, and the call is refused. Suppressing
  `Authorization` at Anthropic also stops the look-up in the environment. Images and
  embeddings neither look at the environment nor accept an `Authorization` header in place
  of a key. A model's own `Authorization` header is not counted as a credential, but
  overrides the key's. A cancelled image or embedding call still asks its payload hook.
* *Tools.* With an OAuth token, two tools whose names differ only in case are one
  (`providers/anthropic.rs:1654`). A call made as a plain function with a non-string
  argument blocks every later request to a model that declares that tool by a grammar.
* *Documents.* `details` of `Some(null)` is read back as `None`. A custom message whose role
  is a message's is read as that message; one with a non-string role makes the context
  unreadable. `ModelCompat` flattens three structs that share field names
  (`types.rs:1330`): a shared key goes to the first, and one set in two is written twice and
  refused when read. A restored `Model` has no client.
* *Usage and faux.* `utils/overflow.rs` counts input and cache reads but not cache writes.
  The faux provider counts cache writes twice in `total_tokens` (`providers/faux.rs:829`),
  and updates its prompt cache in the order tasks resolve.
* *OAuth.* A cancelled login stays where it is as long as the application does not answer its
  prompt, one of the requests without a timeout is not answered, or a connection to the
  callback server says nothing (`oauth/anthropic.rs:372`): none of these looks at the token.
* *Copilot.* A login to github.com passes "github.com" as an enterprise domain to the
  listing (`oauth/github_copilot.rs:385`): when the token names no endpoint, the list is read
  from `copilot-api.github.com` and without the policy fallback, while enabling, renewal and
  `modify_models` use the default host. An individual account without flags then shows no
  model until it is renewed. A login also tries to enable policies that are "disabled".

## 5. What is proved

Each theorem holds for every value of the constants, from the named assumptions on them
alone (`AgentAssumption`, `AgentRunAssumption`, `ToolBatchAssumption`, `AssemblyAssumption`,
`RetryAssumption`, `DeviceAssumption`, `CopilotAssumption`, `KeysAssumption`: bounds are
natural numbers, a pause is positive). The sets of callers, waiters and tasks are arbitrary.
`BudgetAssumption` says that sizes, windows and budgets are natural numbers, that there are
finitely many tools, and that what a caller or a model asks for as a limit is positive.
`AccessAssumption`, `DeclarationsAssumption` and `AccountsAssumption` say what shape the
settings and builders, the lists of tools and clients, and the accounts have, and what the
code's types and the service guarantee: only an Anthropic client has an OAuth token, a picker
shows what has no policy or an enabled one, a policy can be accepted only where there is one.
`OptionsAssumption` only says that APIs, formats and levels are those there are. What the
application chooses is left open: which models, settings, lists, contexts and accounts there
are, what a model's levels are called, and who spoke last in a context.

| theorem | states | module |
|---|---|---|
| `TypeCorrect`, `OneRun`, `EveryMessageOnce`, `StreamingActive`, `OneBatch`, `ContinuesFromUser` | `TypeOK`, `OneRunAtATime`, `EachMessageOnce`, `StreamingMeansActive`, `OneSteeringBatchPerRequest`, `ContinuesFromUserTail` | `AgentProofs` |
| `RunInvariant`, `EventsImplemented`, `CopiesStayTogether`, `RequestsWereDue` | `RunInv`, `SubscribersSeeRunEvents`, `CopiesAgree`, `RequestsAreDue` | `AgentRunProofs` |
| `EventsHeard`, `ListenersHear` | `ListenersHearEvents` | `AgentEvents`, `ToolBatchProofs` |
| `BatchInvariant`, `AnswersEveryCall`, `PreflightRunsAlone`, `NoLateUpdate` | `BatchInv`, `EveryCallAnswered`, `PreflightAlone`, `NoUpdateAfterEnd` | `ToolBatchProofs` |
| `ProviderInvariant`, `ContractKept`, `TrueAnswers`, `CancelledIsQuiet` | `ProviderInv`, `KeepsContract`, `AnswerIsTrue`, `NothingAfterCancel` | `ProviderStreamProofs` |
| `ServerGone`, `ServerNotRushed`, `StoredToken` | `ServerGoneWithLogin`, `PollsAsAsked`, `StoredTokenGood` | `OAuthProofs` |
| `ReachesAll`, `CleanupsReachAll` | `CleanupReachesAll` | `SessionResources`, `OAuthProofs` |
| `RequestsLeaveRoom`, `RequestsSayWhatWasAsked`, `FirstCredentialIsSent`, `CallsReachTheirTools`, `CatalogIsEntitled` | `AnswerFits`, `OptionsAsAsked`, `CredentialsInOrder`, `ToolsAsDeclared`, `ModelsAsEntitled` | `RequestProofs` |

### Agent

`TypeOK` is inductive; the updates of a run's locals are typed once, in `LocalsUpdated`.
`OneRunAtATime` is inductive given the types, because it says both that two callers are never
in flight together and that the one in flight owns the token in the slot: the first part
makes acquisition impossible beside a run, the second lets only the owner empty the slot.
`StreamingMeansActive` is not: emptying the slot could leave `isStreaming` behind.
`StreamingInv` adds that no caller is at a control point before `Setup` or after `Settle`
while `isStreaming` holds, and needs `OneRun` to know that the caller that empties the slot
is the only one. `RequestInv` says for each control point how many steering batches the
pending request may hold and what the tail of the context may be: `skip` is what forbids a
second batch at the first poll, and a run that continues may pass the injection point with an
assistant tail as long as it still holds a message.

`EachMessageOnce` counts copies, which no step can be followed by. `OnceInv` says where they
are instead: `Once(S, v, F, w, D, H, L, n)` splits the ids 1 to `n` between the two queues,
what was delivered, what the run in flight holds and what was lost, keeps each queue sorted,
and puts what was delivered before what is held and that before what is queued, for messages
of the same kind. One lemma per way a message goes (queued, prompted, drained, emitted, lost
with its run, lost with its queue) says that the split survives; it is symmetric in the
queues (`OnceEitherWay`), so each is needed once. `HoldInv` says at which control points a
run may hold anything, so that no drain overwrites what it holds: `continue_run` drains only
when `cont` is off, and the failed check on the snapshot throws nothing away. `OneRun` makes
the run that holds unique. The count of 1 then follows from the split; that a message's place
in a queue is within `MaxMsgs` follows from the order of the ids (`PlaceOfMessage`).

### AgentEvents

`ListenersHearEvents` speaks of what an emission has told; `EventsInv` adds what it is still
to tell. Told and to be told are both increasing, every member of the one comes before every
member of the other, together they cover whoever was there throughout and stay within whoever
was there at some time. That holds of the copy because the list itself is in the order of the
subscriptions, which a subscription keeps (its number is the highest yet, `Appended`) and a
removal as well (`TakenOut`). `Good` also says where the loop may find the token: from its
event to the last listener it is the run's, since nobody clears it before the loop rests.
`ListenersHear` and, for the session resources, `CleanupsReachAll` carry the result over to
the specification TLC runs: its steps are steps of the component or leave it alone.

### AgentRun

`RunInv` has a part for each question a step asks. `LoopInv` says how `first_turn`, the
prompts and `has_more_tool_calls` go together, `ViewInv` what a subscriber has seen at each
control point: with it every step of `AgentRun` is a step of `RunEvents` or a stutter
(`EventsImplemented`), the failure report included, which may begin anywhere.
`CopyInv` is the equation behind `CopiesAgree`: while the run works, the transcript is the
base and the new messages, *less the prompts that are held and not yet emitted*; the context
is the transcript but for the message that is being streamed. `ErrorInv` ties
`error_message` to the last message. `AnswerInv`, `LateInv` and `CallsInv` say that the answer
at hand is the one to the last request, that a token cancelled before a request leaves room
for no other, and that every call in the transcript is answered by the results that follow it,
except the last message's while its tools run. `DueInv` says what `has_more_tool_calls` and a
turn without prompts promise: that the last message is not the assistant's. With it
`RequestsWereDue` says of every request that it answers somebody: a prompt, a message of a queue
or a tool's result has come last, never the model's own answer.

### ToolBatch

`BatchInv` = `TypeOK`, `PhaseInv` (which phases a mode has), `StageInv` (the stages of the
calls before, at and after the one the batch is at), `PendingInv` (a call is pending from its
start to its end) and `ResultsInv`. The last is the strengthening that matters: in parallel
mode the tools end in any order and results are published in source order, so it says that
whatever has ended and is not published lies behind whatever is published; the least
such call exists by well-founded induction (`Least`). `UpdateInv` follows the update callback:
a call past its drain has no handle left to await and no task running. `NoLateUpdate` is
stated for `DetachedUpdaters = FALSE`; finding 2 is the other case.

### ProviderStream

The invariant has two parts. `Assembled` says that the message under construction and the
server's items belong together: blocks and items one to one and of equal length (`Homes`),
every index and id leads to its item's block (`Slots`, `Ids`), completions has one text and
one reasoning block (`OneOfAKind`), and what the flags say of the message (`Flags`). `Flow`
says where the events in the channel lead: `Legal` is what the contract lets a consumer with
a given view be told next, and `Path(api, view, chan, w)` that the events on their way
lead, each legal where it comes, from the consumer's view to `w`. While the producer works,
`w` is `Produced`, the view of the message as it stands (`OnTheWay`); once it has returned,
`w` is a view that is `Settled`: a terminal event has been pushed, or a failure is still to be
delivered and the way is free for it.

So neither side has to know the other. A provider's step is shown to push events that lead
from `Produced` to `Produced'` (`EmitInv`, `GrowsInv`, `FinishInv`, and one lemma per
provider: `AnthropicInv`, `CompletionsInv`, `ResponsesInv`, `FauxInv`; `HttpInv` and
`ReadingInv` for the request and for failures while it is read); a consumer's step takes the
first event of a path, and the contract allows it. `ContractKept`, the refinement of
`StreamContract`, is then a matter of the consumer's three actions. `TrueAnswers` follows
from `Homes`, from the faithful terminal event (`FinalFaithful`) and from `DoneServed`, which
follows a `Done` from the push to the consumer. `CancelledIsQuiet` needs to know who pushes
`Done`, and that each of them looks at the token first. `OnTheWay` quantifies over paths,
which TLC cannot evaluate; its consequences are what the run checks.

### OAuth

`ServerInv`: a listener belongs to an Anthropic login that is under way, so a login that is
over has none. `FlowInv`: the pause kept is never shorter than the one the server asked for,
and a sleep ends after it or at the deadline (`Paced`); `FlowTyped` gives the arithmetic its
types. `StoredTokenGood` has to say why a task's late store does no harm. `TokensInv` adds
`SoleHolder`: where tokens are rotated, a call that has renewed holds the *only* copy of a
good one (no other task and no stored credential has it), so storing it makes the store good,
whoever stored what in between. `AllKnown` (tokens that are about have been issued) makes a
fresh token different from all of them; `NothingSpent` is the case without rotation.

### Session resources

`ResourceInv` says of every cleanup, also while it works, that what was registered throughout
has run or is still to run, that nothing is in both lists, and that neither holds a callback
twice. The copy has no duplicates because the registry has none: an id is used once
(`RegistryInv`).

### Token budget

The estimate starts from the usage of the last answer that counts, so what must be known is
what that number is still worth. `Worth(ms, ts, k)` is the part of the context that answer `k`
closed which is still there: the prompt, the tools that no later message brought, and, of the
messages up to `k`, those not dated later than it. `UsageCovers` says of every answer that told
its usage, whether it counts or not, that it told no less than its worth; `UsageIsRight` that
the last one that counts told exactly that, unless messages were dropped without a summary.
Both are needed. An answer that does not count because something newer stands before it may
count again when that is dropped, and then the estimate may be too large but never too small. A
summary is dated after everything that is kept, so after `Compact` no older answer counts, and
exactness holds again; `Forget` only takes away (`Shortened`), and a message, a result with
its tools or an answer at the end leaves what is before it as it was (`Joining`).
`EstimateFits` draws the conclusion for the request, `ClampFits` and `AskFits` for what it
asks for. The size of a list of messages is the number of its tokens, each with the place of
its message: sets of tokens can be taken apart and moved (`WeightOfBoth`, `WeightMoved`) by the
facts about finite sets, where a sum over the list would need an induction.

### Request options

`OptionsInv` is short: a request is what its run's model, level and settings make of a context.
The work is in the operators. `ClampedIsSupported` and `ClampedInOrder` say that clamping leads
to a level the model has, to the very one if it has it, and keeps the order of levels. `Says`
is what all formats have in common: the name of the level clamped to, nothing where there is
only a switch, or its budget (`LevelIsSaid`, `OffIsSaid`). `MoreIsMore` concludes that a request
for more never tells less. This clause of the property, and no other, has a precondition on
the model, `NamesInOrder`: two levels of one name have none of another between them, none is
named "none", and a model whose budgets end at `high` has that level if it has more.
`CachingIsAsked` and `MarksFit` are about caching. That the end of the conversation is marked
needs a context in which a user or a tool has spoken last and somebody has in text
(`IsPrompted`); that nothing is kept long unless asked has the one exception
`EnvironmentDecides`.

### Access

`AccessInv` says what a provider and a model can be: which secrets a provider holds and from
where (`IsProvider`: a token of the environment stands in the place of a key, and only where
there is no key), and which APIs its models may have (`IsModelOf`). The property is proved at
the call, where all is decided, and the call leaves what it speaks of alone. `WithKey` says
what the entry point and the wrapper add to the options, `FirstIsKey` and `KeyOfClient` that
the key the client ends with is the first of those there are, `SecretSent` where it goes,
`RequestInOrder` and `RefusalInOrder` draw the two halves of the property from that, and
`Preparing` goes through the clients, each with its own order of checks. What a variable of
spaces does is in `EnvKeyIs` and `HiddenAlone`: the environment gives the first variable that is
set, and if that has no content, every one that has is `Hidden`.

### Tool declarations

`ToolInv` connects five places where a tool's name and input are written: what was sent
(`SentFits`) declares each tool as its list and the client have it, what the model calls
(`WireFits`) is one of these, what is received (`ReceivedFits`) and run (`RunFits`) is
computed from that. `Meant` is the core: the name that comes back from the wire leads to a tool
that has the called one's name, in whatever spelling Claude Code has it; `Forms` ties the form
of the call to the grammar that was declared, and `HeardWell` draws the conclusion, also where
lists and clients change between a call and the next request.

### Copilot account

`AccountInv` keeps, with every credential stored, what it was made from: `StoredFits` says
that the address its models get is the one that was asked for the listing, and that those
of a login that went smoothly are what the account is entitled to. For that `SmoothUpdate` says
of a login under way what is left to enable (`pending`), and that all is enabled once it lists. A
change of the account ends smoothness for the login under way and for what is stored, so no
such claim outlives it.

### What is only model-checked

* Liveness (`WaitersReturn`, `BatchEnds`, `RunSettles`, `StreamEnds`, `CancelledLoginEnds`,
  `CleanupEnds`): out of the prover's reach under fairness.
* `PartialJson` and `JsonSchema`, which a theorem could only reach through `RECURSIVE`
  operators, and `SseDecoder`, `GrammarInput`, `Conversation` (with `TransformMessages` and
  `RequestPayloads`), which fold over data: their claims are about what a recursion computes
  for every input, and need induction over it.
* Not attempted: `FauxServer`, `OneShot`, `Usage`, `MessageFormat`. The last two say what a
  computation yields over data, which the run enumerates; the first two are stated with folds
  and filters of sequences.

## 6. Assumptions, and what is not modelled

*Agent and loop.* The contents of messages (ids, roles and counts stand for them), the
setters of fields that no control flow reads, the stop reason of the failure message (error
or aborted; either counts as failed), and tool and hook code, which is assumed to return. In
`Agent`, edits made while a run is going change the transcript, never the copy the run works
on, as in the code. A steering message that comes after the last poll (`agent_loop.rs:331`)
has no promise. The `AgentEventStream` wrapper only hands things on.

*Streams.* The server is taken to conform to its protocol, but may interleave items, declare
an error or break off. A step goes from await to await; the consumer never drops the stream.
Deltas that only wrap or separate count as no fragment. The body of a refused request is read
without regard to the token, which `CancelIsPrompt` excepts. An Anthropic response that ends
before its first event is `Done` with an empty message, which `DoneMeansServed` excepts. A
retry's delay is none, some or too long; the arithmetic of the backoff is a choice.
Reasoning details and encrypted content, attached by id, are not modelled.

*Decoders.* `raw` accumulates over groups that hold only comments, and a last line of exactly
the limit that ends in a lone CR is refused, as in the code. In `PartialJson` symbols stand
for classes of characters, and no key is repeated; `complete_partial_json` is reached only
for texts that are no object. `JsonSchema` has a least and a greatest value for the numeric
keywords; exclusive bounds, `multipleOf` and `pattern` are left out. `OneShot` takes the
outcome of its retries, which are `HttpRetry`'s, and leaves its usage to `Usage`. `Usage`:
token counts below 2^32, tiers with distinct thresholds, whole-number prices; the server
tells the truth in its API's terms, and a Completions server once. `MessageFormat`: one field
touched per document, a nested document is read as one of its own kind; serde is external;
NaN prices and number widths are not modelled. `FauxServer`: texts are sequences of units, 4
per token.

*Requests.* Texts are never blank, ids are unique in a conversation; collisions of truncated
ids, unparsable reasoning signatures, `allow_empty_signature` and `Message::Custom` are not
modelled. In Kimi mode a tool is declared again with each group of results; a foreign call of
a grammar tool is replayed as a custom call with a hashed item id. `TokenBudget`: the
server counts as the estimator does; summaries are dated when they are made; messages dropped
without a summary count until the next answer; a result naming a tool already sent counts it
twice; changes of the system prompt or model are not modelled; a thinking budget may become
0; the floor of the Responses API eats into the safety margin. `RequestOptions`: the three
locks of `create_loop_config` are one step; other headers, tool choice, reasoning summaries
and low-level provider options are not modelled. `Access`: header names in one spelling.

*OAuth.* The user may never answer, whether in the browser, at the manual input or at a
prompt; requests without a timeout may never be answered, and a connection to the callback
server may stay silent, which blocks the shutdown (`oauth/anthropic.rs:372`). Minting and
listing in a Copilot login do not look at the token, as in the code. Reading the clock and
starting the sleep are one step. `StoredTokenGood` excuses an answer lost by the network, a
failure after the renewal (`oauth/github_copilot.rs:224`), and older credentials stored over
newer ones. `CopilotAccount`: any host may answer a listing; policies are accepted in any
order. PKCE, URLs and pages are data. The registry is one lock around a list, and not
modelled.

*Session resources.* Callbacks return. A callback unregistered after the copy was taken may
still run.

*Left out.* Request fields that only copy an option, error texts, `utils/overflow.rs`, the
listing of OpenRouter models, beta flags, and the example agent. More than half of the
repository's lines are tests.

## 7. Plan

1. A composition of `AgentRun` with `ToolBatch`, replacing the `Tools` step.
2. The registry of OAuth providers; low-level provider options; overflow detection.
3. Theorems, in order: the call order of `FauxServer`; `OneShot`.
