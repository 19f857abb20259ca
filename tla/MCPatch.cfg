\* Both shapes of MCPatchShapes: two files with faults, edits and kills, and a
\* path below another one.
SPECIFICATION ShapeSpec
CONSTANTS
    a = a
    ab = ab
    c = c
    Paths <- NestedPaths
    Above <- NestedAbove
    Texts = {e, x, y}
    Empty = e
    Binary = Binary
    Missing = Missing
    Dir = Dir
    Trees <- AllTrees
    Diffs <- PairDiffs
    MaxOps = 3
    FaultPhases = {"running", "restoring"}
    MaxEdits = 1
    MaxCrashes = 1
SYMMETRY TextSymmetry
INVARIANTS LeafApplyRestored RoundTrip
PROPERTIES UserContentKept
\* A history ends when its calls are used up.
CHECK_DEADLOCK FALSE
