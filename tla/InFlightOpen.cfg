SPECIFICATION Spec
CONSTANTS
    Path <- MCPath
    AbsPath <- MCAbsPath
    EmptyPath = ""
    RuleId <- MCRuleId
    EmptyId = ""
    FileId <- MCFileId
    ZeroId = "zero"
    NoFile = "nofile"
    NoPolicy = NoPolicy
    Task = {t1}
    Access <- MCAccess
    RingCap = 0
    StaleId = {"zero"}
    StaleRule = {0}
    Paused = Paused
    Loader = {l1}
    NoLoader = NoLoader
    Policies <- MCPolicies
    Stat <- MCStat
    MapEntries = 2
    MapsMayFail = FALSE
    MaxLoads = 2
INVARIANT
    NoWrongDecision
