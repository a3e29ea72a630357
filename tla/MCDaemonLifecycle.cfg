SPECIFICATION DSpec
CONSTANTS
    Runs = {r1, r2}
    Approvals = {}
    Failures = {}
    None = None
    Requests <- MCNoRequest
    Policies <- MCPolicies
    FailureTool <- MCFailureTool
    Paths <- MCPaths
    SensitivePaths <- MCSensitivePaths
    StartsWith <- MCStartsWith
    Targets <- MCTargets
    SAFE_MAKE_TARGETS <- MCSafeTargets
    Outcomes = {"completed"}
    MaxReopens = 1
    Workers = {w1, w2}
    Methods = {"run_prepared", "run_finalized", "run_superseded", "organised", "run_reopened"}
    MaxFaults = 1
SYMMETRY MCSymmetry
INVARIANTS
    SupersessionWhole
    AuditExplainsStatus
    DInv
