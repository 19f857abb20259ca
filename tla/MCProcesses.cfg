\* Two actors at each component, one fault and one kill of a worktree run,
\* and children under every sandbox decision.
SPECIFICATION MCSpec
CONSTANTS
    r1 = r1
    r2 = r2
    file1 = file1
    file2 = file2
    Runs = {r1, r2}
    Files = {file1, file2}
    RefFile = RefFile
    Target <- MCTarget
    Original = Original
    Absent = Absent
    Nobody = Nobody
    MaxWrites = 2
    MaxFaults = 1
    MaxDeaths = 1
    RunIds = {"long", "short"}
    NoRun = "none"
    LastRound <- MCLastRound
    Unwritten <- MCUnwritten
    ApplyFlags = {FALSE}
    OnceFlags = {TRUE, FALSE}
    MayStop = TRUE
    BusProcs = {p, q}
    Consumers = {c, d}
    Slots = 2
    MaxFiles = 4
    MaxEmits = 5
    Cap = 2
    PipeSize = 2
    MaxTouched = 1
    Callers = {k, l}
    Starter = Starter
    Repeated = {3}
INVARIANTS MainTreeKept DaemonOrderly BusSound ChildSupervised McpExchangeSound
PROPERTIES NothingHangs
\* A history ends when its processes have nothing left to do.
CHECK_DEADLOCK FALSE
