\* A path below another one: one file operation of an apply fails.
SPECIFICATION Spec
CONSTANTS
    a = a
    ab = ab
    c = c
    Paths <- NestedPaths
    Above <- NestedAbove
    Texts = {e, x}
    Empty = e
    Binary = Binary
    Missing = Missing
    Dir = Dir
    Trees <- TextTrees
    Diffs <- ReplaceDiffs
    MaxOps = 1
    FaultPhases = {"running"}
    MaxEdits = 0
    MaxCrashes = 0
INVARIANTS FailedApplyRestored
\* A history ends when its calls are used up.
CHECK_DEADLOCK FALSE
