\* Every policy and strategy with one refinement and a tight budget, and three
\* refinements with measured ratios (MCLoopRuns).
SPECIFICATION RunsSpec
CONSTANTS
    a = a
    b = b
    Configs <- GateConfigs
    MaxRounds = 1
    Limit = 1
    CostLimit = 1
    NoLimit = NoLimit
    Costs <- EitherUsage
    MaxSpent = 1
    Shas = {a}
    NoPatch = NoPatch
    Ratios = {}
    Reviews = {"lgtm", "nits", "changes", "block"}
    Suggestions = {TRUE, FALSE}
INVARIANTS AppliedIsJustified StoppedRunsAreRejected OverBudgetNeverApplied SatisfiedIsApplicable RoundsInOrder
PROPERTIES RunReturns
\* A run ends with its report.
CHECK_DEADLOCK FALSE
