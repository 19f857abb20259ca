\* Two processes at each component, a kill where one can happen, lost lock
\* waits, and a hand edit of the budget log.
SPECIFICATION MCSpec
CONSTANTS
    StoreProcs = {p1, p2}
    Sessions = {s1, s2}
    NoSession = NoSession
    Free = Free
    MaxKills = 1
    MaxTimeouts = 1
    MaxEdits = 2
    ForkProcs = {f1, f2}
    Reports = {r1}
    Minted = {c1, c2}
    NoId = NoId
    Unlocked = Unlocked
    RoundsOf <- MCRoundsOf
    MaxCopied = 1
    FromRounds = {0, 1, 2}
    CopyHistory = {TRUE}
    MaxForkKills = 1
    Repls = {u1, u2}
    NoRepl = NoRepl
    Key = Key
    Unkeyed = Unkeyed
    BadKey = BadKey
    Envs <- MCEnvs
    Caps = {2, 3}
    NoCap = NoCap
    ConfigCap = 1
    Ceiling = 2
    Legacy <- MCLegacy
    MaxLog = 3
    MaxHandEdits = 2
    Mails <- MCMails
    NameOf <- MCNameOf
    Drainers = {d1, d2}
    Malformed = Malformed
    NoMail = NoMail
    Enabled = TRUE
    MaxMailKills = 1
INVARIANTS StoreConsistent SessionTreeWhole AuditTrailSound MailNotLost
PROPERTIES StoreForgetsNothing
\* A history ends when its processes have nothing left to do.
CHECK_DEADLOCK FALSE
