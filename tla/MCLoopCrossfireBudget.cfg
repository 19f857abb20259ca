\* Crossfire comments cost tokens too.
SPECIFICATION Spec
CONSTANTS
    Configs <- PlainConfigs
    MaxRounds = 1
    Limit = 2
    CostLimit = NoLimit
    NoLimit = NoLimit
    Costs <- SomeTokens
    MaxSpent = 4
    Shas = {a}
    NoPatch = NoPatch
    Ratios = {}
    Reviews = {"lgtm", "nits", "changes", "block"}
    Suggestions = {FALSE}
INVARIANTS BudgetCountsEveryCall
\* A run ends with its report.
CHECK_DEADLOCK FALSE
