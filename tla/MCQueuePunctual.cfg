\* Two tasks, two patrols, one mayor under fairness; a patrol may be killed,
\* but nobody outlasts a timeout and a slot is not reused.
SPECIFICATION FairSpec
CONSTANTS
    Tasks = {1, 2}
    Patrols = {p1, p2}
    Mayors = {m1}
    Clients = {c1}
    NoTask = NoTask
    NoPatrol = NoPatrol
    Budget <- MCBudget
    TotalBudget = 1
    Outcomes <- MCSuccess
    MaxStops = 1
    Slow = FALSE
    ReuseSlots = FALSE
    Resubmit = FALSE
INVARIANTS NoDoubleRun ResultMatchesDirectory
PROPERTIES PendingResolves
