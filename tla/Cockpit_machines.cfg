\* Parts that speak with other machines, with servers and with accounts.
CONSTANTS
    pa = pa
    pb = pb
    pc = pc
    Runners <- MCMachines
    Acts <- MCActs
    Most <- MCMost
    Nowhere = "nowhere"
    Devices = {1, 2}
    Files = {"f", "g"}
    MemoryBudgets <- MCMemoryBudgets
    Sessions = {1, 2, 3}
    Home <- MCHome
    LEASE = 6
    ClaimPlans <- MCClaimPlans
    Projects = {pa, pb, pc}
    Repos = {pa, pb}
    HandoffBudgets <- MCHandoffBudgets
    PaneIds = {1, 2, 3}
    Chunks = 3
    CommitsMade = 2
    Days = {1, 2}
    Closed = {1}
    Team = {1}
    DashActs <- MCDashActs
    Convs = {"claude", "codex"}
    Claude = {"claude"}
    Owners = 8
    TTL = 2
    Of <- MCOf
    Shells = {1, 2}
    ShellNatures <- MCShellNatures
    Remarks = {1, 2}
    Follows = {1, 2}
    Own = {3}
    LimitPlans <- MCLimitPlans
    N = 4
    BotSets <- MCBotSets
    Life = 2
    Hold = 1
    Last = 2
    NoticePlans <- MCNoticePlans
    Servers = {1, 2}
    Gens = 3
    Queue = 2
    Lengths = {3, 4}
SPECIFICATION Spec
INVARIANTS
    CaughtMeansHad
    DeadLeasesLapse
    HandedOverOnce
    BooksBalance
    PresenceIsTrue
    LimitsAreOwn
    
PROPERTIES
    UnsentSurvives
    CarriedThrough
CHECK_DEADLOCK FALSE
