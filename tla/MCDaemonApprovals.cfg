SPECIFICATION DSpec
CONSTANTS
    Runs = {r1}
    Approvals = {a1, a2}
    Failures = {}
    None = None
    Requests <- MCGatedOnly
    Policies <- MCPolicies
    FailureTool <- MCFailureTool
    Paths <- MCPaths
    SensitivePaths <- MCSensitivePaths
    StartsWith <- MCStartsWith
    Targets <- MCTargets
    SAFE_MAKE_TARGETS <- MCSafeTargets
    Outcomes = {"completed"}
    MaxReopens = 1
    Workers = {w1, w2}
    Methods = {"run_prepared", "approval_created", "approval_resolved", "replan_performed", "organised"}
    MaxFaults = 1
SYMMETRY MCSymmetry
INVARIANTS
    DInv
    BlockedByDenial
    RecommendedWasApproved
PROPERTIES
    DecidedOnce
