SPECIFICATION MCSpec
CONSTANTS
  Tools = {"read", "edit"}
  GrammarTools = {"edit"}
  Models <- AllModels
  Authors <- Answering
  MaxMessages = 5
  PromptSize = 1
  Loadable = {search}
  ToolSize = 2
  Sizes = {3}
  Windows = {0, 10, 18}
  MaxTokens = 12
  Requests = {3}
  Budgets = {0, 2, 12}
  Safety = 3
  Reserve = 1
  Floor = 2
  MaxClock = 4
  MaxSized = 4
  Thinkers <- ThinkingModels
  Configured <- AgentSettings
  Prompted <- SomeContexts
  Builders <- AccessBuilders
  Settings <- AccessSettings
  Contexts <- LastMessages
  Ids = {"gpt-5.5", "claude-sonnet-4.5"}
  ModelAuth <- Authorizations
  ToolLists <- ListsOfTools
  Clients <- SomeClients
  Claudes = {"read"}
  Accounts <- SomeAccounts
  MaxChanges = 1
INVARIANTS
  ProvidersAccept
  ToolsLoadBeforeUse
  RequestsOnlyGrow
  AnswerFits
  OptionsAsAsked
  CredentialsInOrder
  ToolsAsDeclared
  ModelsAsEntitled
CHECK_DEADLOCK FALSE
