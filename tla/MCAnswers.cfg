\* Replies of two JSON objects, paths of six components, plans of nine
\* lines, two dispatchers, one prompt in two workspaces, five edits,
\* budgets of four digits in a word of 950, limits of one and two.
SPECIFICATION MCSpec
CONSTANTS
    Formats = {"text", "events"}
    MaxWords = 1
    MaxObjects = 2
    MaxUsages = 2
    Tokens = {0, 1, 2}
    Tools = {"t", "w"}
    Writing = {"w"}
    Root <- MCRoot
    Names = {"a", "b", "c"}
    MaxComponents = 6
    Plans = {"p", "q"}
    IdLength <- MCIdLength
    Dispatchers = {d, e}
    Drafts <- MCDrafts
    MaxLines = 9
    MaxSteps = 2
    MaxPlanKills = 1
    MaxTokens = 5
    Consoles = {c}
    Workspaces = {"v", "w"}
    Proposed <- MCProposed
    Found <- MCFound
    NoGoal = NoGoal
    MaxSessions = 2
    MaxGoals = 1
    MaxCrashes = 1
    Decimals = 2
    MaxU64 = 950
    Typed = {0, 9}
    MaxArgs = 2
    MaxTyped = 4
    Files = {"f", "g"}
    Renamed <- MCRenamed
    Null = "null"
    LineTexts <- MCLineTexts
    Contexts = {0, 1}
    Unterminated = 2
    MaxEdits <- MCMaxEdits
    MaxDamage = 1
    MaxDamageable = 7
    Configs <- MCConfigs
    Missing = Missing
    Default <- MCDefault
    Trees <- MCTrees
    MaxCheckouts = 1
    Keys = {"/", "a"}
    Commands <- MCCommands
    MaxWidth = 3
    MaxHistory = 2
INVARIANTS ReplyReadSafely CallsConfined PlanHandedOver PromptSafe TextReadExactly ConfigObeyed EditorSound
PROPERTIES VerdictOnlyDeepens
\* A text ends where it ends.
CHECK_DEADLOCK FALSE
