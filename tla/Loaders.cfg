SPECIFICATION FairSpec
CONSTANTS
    Path <- MCPath
    AbsPath <- MCAbsPath
    EmptyPath = ""
    RuleId <- MCRuleId
    EmptyId = ""
    FileId <- MCFileId
    ZeroId = "zero"
    NoFile = "nofile"
    NoPolicy = NoPolicy
    Task = {t1}
    Access <- LoadAccess
    RingCap = 0
    StaleId = {"zero"}
    StaleRule = {0}
    Paused = Paused
    Loader = {l1, l2}
    NoLoader = NoLoader
    Policies <- MCPoliciesAll
    Stat <- MCStat
    MapEntries = 2
    MapsMayFail = TRUE
    MaxLoads = 2
INVARIANTS
    TypeOK
    CompleteWhenEnabled
    StatusTruthful
PROPERTIES
    LoadTerminates
