\* Nobody outlasts a timeout, a kill, two reconciles and a task that asks for
\* more than the total budget; or ids enqueued again and lost ledger writes.
SPECIFICATION RunsSpec
CONSTANTS
    Tasks = {1, 9}
    Patrols = {p1, p2}
    Mayors = {m1}
    Clients = {c1}
    NoTask = NoTask
    NoPatrol = NoPatrol
    Budget <- MCBudget
    TotalBudget = 1
    Outcomes <- MCOutcomes
    MaxStops = 1
    Slow = FALSE
    ReuseSlots = FALSE
    Resubmit = FALSE
    SlowLedger = FALSE
    MaxReconciles = 2
SYMMETRY MCSymmetry
INVARIANTS RowsConsistent DoneWithinBudget FailedIsNeverReportedDone
PROPERTIES ReconcileKeepsFinished
