SPECIFICATION DSpec
CONSTANTS
    Runs = {r1, r2}
    Approvals = {a1}
    Failures = {}
    None = None
    Requests <- MCOneOfEach
    Policies <- MCPolicies
    FailureTool <- MCFailureTool
    Paths <- MCPaths
    SensitivePaths <- MCSensitivePaths
    StartsWith <- MCStartsWith
    Targets <- MCTargets
    SAFE_MAKE_TARGETS <- MCSafeTargets
    Outcomes = {"completed"}
    MaxReopens = 0
    Workers = {w1}
    Methods = {"run_prepared", "replan_performed", "approval_created", "patch_applied", "tests_run", "approval_resolved", "run_finalized", "run_reopened", "run_superseded", "run_archived", "run_unarchived"}
    MaxFaults = 0
PROPERTIES
    SerialIsAtomic
