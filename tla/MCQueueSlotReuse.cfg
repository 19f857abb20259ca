\* A killed patrol is started again in the same slot (nv patrol --id slot-1).
SPECIFICATION FairSpec
CONSTANTS
    Tasks = {1}
    Patrols = {p1, p2}
    Mayors = {m1}
    Clients = {c1}
    NoTask = NoTask
    NoPatrol = NoPatrol
    Budget <- MCBudget
    TotalBudget = 1
    Outcomes <- MCSuccess
    MaxStops = 1
    Slow = FALSE
    ReuseSlots = TRUE
    Resubmit = FALSE
PROPERTIES PendingResolves
