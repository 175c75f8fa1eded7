SPECIFICATION Spec
CONSTANTS
    Path <- MCPath
    AbsPath <- MCAbsPath
    EmptyPath = ""
    RuleId <- MCRuleId
    EmptyId = ""
    FileId <- MCFileId
    ZeroId = "zero"
    NoFile = "nofile"
    NoPolicy = NoPolicy
    Task = {t1}
    Access <- EventAccess
    RingCap = 1
    StaleId = {"zero"}
    StaleRule = {0}
    Paused = Paused
    Loader = {l1}
    NoLoader = NoLoader
    Policies <- MCPolicies
    Stat <- MCStat
    MapEntries = 2
    MapsMayFail = TRUE
    MaxLoads = 2
INVARIANTS
    UndisturbedOpen
    EngineAgrees
    ResolverMatches
    EventExplains
    BusyRecordsOwned
