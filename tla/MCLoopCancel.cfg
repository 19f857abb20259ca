\* The operator cancels during a run.
SPECIFICATION Spec
CONSTANTS
    Configs <- PlainConfigs
    MaxRounds = 1
    Limit = 2
    CostLimit = NoLimit
    NoLimit = NoLimit
    Costs <- Nothing
    MaxSpent = 0
    Shas = {a}
    NoPatch = NoPatch
    Ratios = {}
    Reviews = {"lgtm", "nits", "changes", "block"}
    Suggestions = {FALSE}
PROPERTIES CancelBeatsApply
\* A run ends with its report.
CHECK_DEADLOCK FALSE
