\* One task, two patrols, one mayor; processes may be slow, killed and
\* restarted in the same slot.  Only a second enqueue of an id is left out.
SPECIFICATION Spec
CONSTANTS
    Tasks = {1}
    Patrols = {p1, p2}
    Mayors = {m1}
    Clients = {c1}
    NoTask = NoTask
    NoPatrol = NoPatrol
    Budget <- MCBudget
    TotalBudget = 1
    Outcomes <- MCOutcomes
    MaxStops = 1
    Slow = TRUE
    ReuseSlots = TRUE
    Resubmit = FALSE
SYMMETRY MCSymmetry
INVARIANTS OneCopy LockKeepsCandidate ResultBeforeMove IdleMeansDrained
PROPERTIES ImplementsBoard
