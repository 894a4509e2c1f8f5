---------------------------- MODULE RequestOptions ---------------------------
(***************************************************************************)
(* What a request says beside the conversation: how much the model is to   *)
(* think (models.rs, stream_simple_* and the payload builders of the three *)
(* providers) and what is to be cached, under which session.  A run takes  *)
(* the settings of the agent; its hooks may change model and level between *)
(* two turns, so that a request meets a model the level was not set for.   *)
(*                                                                         *)
(* Levels, names of levels and session ids are values; a model is a record *)
(* of what the library knows of it, with defaults filled in (get_compat).  *)
(***************************************************************************)
EXTENDS Naturals, SequencesExt, FiniteSets

CONSTANTS
  Models,
  Settings,   \* of an agent: level, retention, longInEnv, session, temperature, suppressed
  Contexts    \* system, tools, oauth and messages: records of role and whether there is text

VARIABLES
  config,     \* AgentLoopConfig: model, level and settings; None: no run
  request     \* the request of this turn

vars == <<config, request>>

None == "none"

Levels == <<"off", "minimal", "low", "medium", "high", "xhigh", "max">>
AllLevels == ToSet(Levels)
Rank(level) == CHOOSE n \in DOMAIN Levels : Levels[n] = level
Lowest(levels) == CHOOSE l \in levels : \A other \in levels : Rank(l) <= Rank(other)
Highest(levels) == CHOOSE l \in levels : \A other \in levels : Rank(other) <= Rank(l)

-----------------------------------------------------------------------------
(* Levels.  model.thinking_level_map gives a level the provider's name of  *)
(* it, or Never.                                                           *)
Never == "never"
Has(m, level) == level \in DOMAIN m.map
Named(m, level, default) ==
  IF Has(m, level) /\ m.map[level] # Never THEN m.map[level] ELSE default
Refused(m, level) == Has(m, level) /\ m.map[level] = Never

Supported(m) ==
  IF ~m.reasoning THEN {"off"}
  ELSE {level \in AllLevels : ~Refused(m, level) /\ (level \in {"xhigh", "max"} => Has(m, level))}

Above(m, level) == {l \in Supported(m) : Rank(level) <= Rank(l)}
Below(m, level) == {l \in Supported(m) : Rank(l) <= Rank(level)}

\* clamp_thinking_level: what supports the level, or more, or else less.  The
\* mutant looks for less first.
ClampedDown(m, level) ==
  IF Below(m, level) # {} THEN Highest(Below(m, level))
  ELSE IF Above(m, level) # {} THEN Lowest(Above(m, level)) ELSE "off"
Clamped(m, level) ==
  IF Above(m, level) # {} THEN Lowest(Above(m, level))
  ELSE IF Below(m, level) # {} THEN Highest(Below(m, level)) ELSE "off"

\* The effort of a request: none, or a level other than off.
Effort(m, level) ==
  IF level = None \/ Clamped(m, level) = "off" THEN None ELSE Clamped(m, level)

-----------------------------------------------------------------------------
(* What is said of thinking.  budget is the level whose budget is sent.    *)
Said(on, effort) == [on |-> on, effort |-> effort, budget |-> None]
Unsaid == Said("unsaid", None)
Switch(effort) == IF effort = None THEN "off" ELSE "on"

\* map_thinking_level_to_effort
AnthropicEffort(m, effort) ==
  LET efforts == {"low", "medium", "high", "xhigh", "max"}
      name == Named(m, effort, CASE effort = "minimal" -> "low"
                                 [] effort \in {"xhigh", "max"} -> "high"
                                 [] OTHER -> effort)
  IN IF name \in efforts THEN name ELSE "high"

AnthropicThinking(m, effort) ==
  IF effort = None THEN IF Refused(m, "off") THEN Unsaid ELSE Said("off", None)
  ELSE IF m.adaptive THEN Said("on", AnthropicEffort(m, effort))
  ELSE [Said("on", None) EXCEPT !.budget = IF effort \in {"xhigh", "max"} THEN "high" ELSE effort]

\* apply_reasoning_options.  A format names the effort beside the switch, or
\* instead of it, or has only the switch.
EffortBeside(m, name) == IF m.takesEffort THEN name ELSE None
OffByName(m, default) == IF Refused(m, "off") THEN Unsaid ELSE Said("unsaid", Named(m, "off", default))

\* build_chat_template_kwargs: each variable is there always, only when the
\* model thinks, or never.
Kwarg(rule, effort, value) == IF rule = "never" \/ (rule = "thinking" /\ effort = None) THEN None ELSE value
TemplateThinking(m, effort) ==
  LET on == Kwarg(m.kwargs.enabled, effort, Switch(effort))
      level == IF effort = None THEN "off" ELSE effort
      name == IF Refused(m, level) THEN None ELSE Named(m, level, effort)
  IN Said(IF on = None THEN "unsaid" ELSE on, Kwarg(m.kwargs.effort, effort, name))

CompletionsThinking(m, effort) ==
  LET name == IF effort = None THEN None ELSE Named(m, effort, effort)
  IN CASE m.format = "zai" ->
            Said(Switch(effort),
                 IF effort = None \/ Refused(m, effort) THEN None ELSE EffortBeside(m, name))
       [] m.format \in {"qwen", "qwen-template"} -> Said(Switch(effort), None)
       [] m.format = "template" -> TemplateThinking(m, effort)
       [] m.format \in {"deepseek", "together"} -> Said(Switch(effort), EffortBeside(m, name))
       [] m.format \in {"openrouter", "string"} ->
            IF effort # None THEN Said("unsaid", name) ELSE OffByName(m, "none")
       [] m.format = "ant-ling" ->
            IF effort # None /\ Has(m, effort) THEN Said("unsaid", name) ELSE Unsaid
       [] m.format = "openai" ->
            IF ~m.takesEffort THEN Unsaid
            ELSE IF effort # None THEN Said("unsaid", name)
            ELSE IF Has(m, "off") THEN OffByName(m, None) ELSE Unsaid

ResponsesThinking(m, effort) ==
  IF effort # None THEN Said("unsaid", Named(m, effort, effort))
  ELSE IF m.copilot THEN Unsaid ELSE OffByName(m, "none")

Thinking(m, level) ==
  LET effort == Effort(m, level)
  IN IF ~m.reasoning THEN Unsaid
     ELSE CASE m.api = "anthropic" -> AnthropicThinking(m, effort)
            [] m.api = "completions" -> CompletionsThinking(m, effort)
            [] m.api = "responses" -> ResponsesThinking(m, effort)

\* The others send the temperature as they are told.
SendsTemperature(m, s, level) ==
  s.temperature /\ (m.api = "anthropic" => Effort(m, level) = None /\ m.takesTemperature)

-----------------------------------------------------------------------------
(* What is cached.                                                         *)

\* resolve_cache_retention
Retention(s) ==
  IF s.retention # "unset" THEN s.retention ELSE IF s.longInEnv THEN "long" ELSE "short"

LongCaching(m, s) == Retention(s) = "long" /\ m.longCaching

Message(i) == <<"message", i>>

\* The identity of the client, the system prompt, the last tool and the end of
\* the conversation, if the user or a tool has spoken.
AnthropicMarks(m, c) ==
  (IF c.oauth THEN {<<"identity">>} ELSE {})
    \cup (IF c.system THEN {<<"system">>} ELSE {})
    \cup (IF c.tools /\ m.toolMarks THEN {<<"tool">>} ELSE {})
    \cup (IF c.messages # <<>> /\ Last(c.messages).role # "assistant"
          THEN {Message(Len(c.messages))} ELSE {})

\* apply_anthropic_cache_control: messages are marked in a text.
CompletionsMarks(m, c) ==
  LET texts == {i \in DOMAIN c.messages : c.messages[i].text}
      last == CHOOSE i \in texts : \A j \in texts : j <= i
  IN (IF c.system THEN {<<"system">>} ELSE {})
       \cup (IF texts # {} THEN {Message(last)} ELSE {})
       \cup (IF c.tools THEN {<<"tool">>} ELSE {})

\* The mutant marks whatever the retention is.
MarksAlways(m, s, c) ==
  CASE m.api = "anthropic" -> AnthropicMarks(m, c)
    [] m.api = "completions" -> IF m.cacheMarks THEN CompletionsMarks(m, c) ELSE {}
    [] m.api = "responses" -> {}
Marks(m, s, c) ==
  IF Retention(s) = "none" THEN {}
  ELSE CASE m.api = "anthropic" -> AnthropicMarks(m, c)
         [] m.api = "completions" -> IF m.cacheMarks THEN CompletionsMarks(m, c) ELSE {}
         [] m.api = "responses" -> {}

CacheKey(m, s) ==
  /\ s.session
  /\ CASE m.api = "anthropic" -> FALSE
       [] m.api = "completions" -> (m.openAiUrl /\ Retention(s) # "none") \/ LongCaching(m, s)
       [] m.api = "responses" -> Retention(s) # "none"

\* Headers that lead the requests of a session to one server.
Affinity(m) ==
  CASE m.affinity = None -> {}
    [] m.api = "anthropic" -> {"x-session-affinity"}
    [] m.affinity = "openrouter" -> {"x-session-id"}
    [] OTHER -> (IF m.affinity = "openai" THEN {"session_id"} ELSE {}) \cup {"x-client-request-id"}
                 \cup (IF m.api = "completions" THEN {"x-session-affinity"} ELSE {})

\* apply_provider_headers takes those out that the caller does not want.
AffinityHeaders(m, s) ==
  (IF s.session /\ Retention(s) # "none" THEN Affinity(m) ELSE {}) \ s.suppressed

RequestFor(m, s, level, c) ==
  [thinking |-> Thinking(m, level),
   temperature |-> SendsTemperature(m, s, level),
   marks |-> Marks(m, s, c),
   hour |-> LongCaching(m, s) /\ Marks(m, s, c) # {},
   key |-> CacheKey(m, s),
   day |-> m.api # "anthropic" /\ LongCaching(m, s),
   explicit |-> m.api = "responses" /\ Retention(s) = "none" /\ m.explicitMode,
   affinity |-> AffinityHeaders(m, s),
   context |-> c]

-----------------------------------------------------------------------------
(* What is assumed: the APIs and formats there are.                        *)

IsModel(m) ==
  /\ m.api \in {"anthropic", "completions", "responses"}
  /\ m.format \in {"zai", "qwen", "qwen-template", "template", "deepseek", "together",
                   "openrouter", "string", "ant-ling", "openai"}

Fit ==
  /\ \A m \in Models : IsModel(m)
  /\ \A s \in Settings : s.level \in AllLevels

-----------------------------------------------------------------------------
NoRequest == [marks |-> {}]
NoConfig == [model |-> None]
Running == config # NoConfig

Init == config = NoConfig /\ request = NoRequest

LevelOrNone(level) == IF level = "off" THEN None ELSE level

\* create_loop_config
Begin ==
  /\ ~Running
  /\ \E m \in Models, s \in Settings :
       config' = [model |-> m, level |-> LevelOrNone(s.level), settings |-> s]
  /\ UNCHANGED request

\* stream_simple
Ask ==
  /\ Running /\ request = NoRequest
  /\ \E c \in Contexts : request' = RequestFor(config.model, config.settings, config.level, c)
  /\ UNCHANGED config

\* prepare_next_turn
NextTurn ==
  /\ request # NoRequest
  /\ request' = NoRequest
  /\ \E m \in Models, level \in AllLevels :
       config' = [config EXCEPT !.model = m, !.level = LevelOrNone(level)]

End == Running /\ config' = NoConfig /\ request' = NoRequest

Next == Begin \/ Ask \/ NextTurn \/ End
Spec == Init /\ [][Next]_vars

-----------------------------------------------------------------------------
(* Properties.                                                             *)

Thoughts(m) == Supported(m) \ {"off"}

\* The name by which a request to a model means a level.
Wire(m, level) ==
  IF m.api = "anthropic" THEN AnthropicEffort(m, level) ELSE Named(m, level, level)

\* A thinking_level_map may say anything.  It is in order if levels that share
\* a name have no level of another name between them, if no name says that there
\* is none, and if, where budgets end with that of the level high, a model that
\* has more has that one.
NamesInOrder(m) ==
  /\ \A level \in Thoughts(m) : Wire(m, level) # None
  /\ \A less, level, more \in Thoughts(m) :
       Rank(less) <= Rank(level) /\ Rank(level) <= Rank(more) /\ Wire(m, less) = Wire(m, more)
         => Wire(m, level) = Wire(m, less)
  /\ m.api = "anthropic" /\ ~m.adaptive /\ Thoughts(m) \cap {"xhigh", "max"} # {} =>
       "high" \in Thoughts(m)

\* How much a request asks for, where it tells.
Tells(told) == told.on = "off" \/ told.effort # None \/ told.budget # None
Amount(m, told) ==
  IF told.on = "off" THEN 0
  ELSE LET meant == {level \in Thoughts(m) : told.effort = Wire(m, level) \/ told.budget = level}
       IN CHOOSE n \in {Rank(level) : level \in meant} : \A level \in meant : n <= Rank(level)

\* Formats that have a switch and turn it off whether or not the model can be.
OnlySwitch == {"zai", "qwen", "qwen-template", "deepseek", "together", "template"}

Asked == config.level
MeansOff(m) == Asked = None \/ Thoughts(m) = {}
SaysOff(m, told) ==
  /\ told.on # "on" /\ told.budget = None
  /\ told.effort \in {None, Named(m, "off", "none")}
  /\ Refused(m, "off") => told.effort = None /\ (told.on = "off" => m.format \in OnlySwitch)
SaysLevel(m, told) ==
  /\ told.on # "off"
  /\ told.effort # None => \E level \in Thoughts(m) : told.effort = Wire(m, level)
  /\ told.effort # None /\ Asked \in Supported(m) => told.effort = Wire(m, Asked)
  /\ NamesInOrder(m) =>
       \A less \in {level \in AllLevels \ {"off"} : Rank(level) < Rank(Asked)} :
         Tells(told) /\ Tells(Thinking(m, less)) => Amount(m, Thinking(m, less)) <= Amount(m, told)

\* Every provider hears the level that was asked for, in its own words, after
\* every change of model and level: off when it is off, a level of the model,
\* the very level if the model has it, and, if the names of its levels are in
\* order, never less for having asked for more.
\* A model that does not reason hears nothing, one that cannot be turned off is
\* not turned off (except where all there is is a switch), and a thinking
\* Anthropic model gets no temperature, which its API would refuse.
ThinkingAsAsked ==
  request # NoRequest =>
    LET m == config.model
        told == request.thinking
    IN /\ IF ~m.reasoning THEN told = Unsaid
          ELSE IF MeansOff(m) THEN SaysOff(m, told) ELSE SaysLevel(m, told)
       /\ m.api = "anthropic" /\ told.on = "on" => ~request.temperature

\* A user or a tool has spoken last, and somebody has in text.
IsPrompted(c) ==
  /\ c.messages # <<>> /\ Last(c.messages).role # "assistant"
  /\ \E i \in DOMAIN c.messages : c.messages[i].text

\* The caller of a request has not said how long things are kept, and
\* PI_CACHE_RETENTION says long.  src/crates/ai/README.md:833-836 says that
\* "ai.rs intentionally does not read pi-specific environment variables such as
\* `PI_CACHE_RETENTION`"; resolve_cache_retention of each provider reads it, and
\* each has a test provider_env_controls_default_cache_retention that wants it to.
EnvironmentDecides(s) == s.retention = "unset" /\ s.longInEnv

\* README: "CacheRetention::None suppresses generated affinity headers": then
\* nothing is marked, keyed or kept either, whatever the environment says.  Longer
\* than a short while something is kept only for a caller who asked for that, or
\* left it to an environment that does, and where it is known to work.  In a
\* prompted context, the end of the conversation is marked wherever anything is;
\* there are never more than the four marks that the API takes, and no session is
\* named that there is not.
CachesAsAsked ==
  request # NoRequest =>
    LET m == config.model
        s == config.settings
    IN /\ s.retention = "none" =>
            request.marks = {} /\ ~request.key /\ ~request.day /\ request.affinity = {}
       /\ request.explicit => s.retention = "none"
       /\ request.hour \/ request.day =>
            m.longCaching /\ (s.retention = "long" \/ EnvironmentDecides(s))
       /\ Cardinality(request.marks) <= 4
       /\ request.key \/ request.affinity # {} => s.session
       /\ request.affinity \cap s.suppressed = {}
       /\ IsPrompted(request.context) /\ request.marks # {} =>
            \E mark \in request.marks : mark[1] = "message"

=============================================================================
