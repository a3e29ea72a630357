SPECIFICATION Spec
CONSTANTS
    Runs = {r1, r2}
    Approvals = {a1, a2}
    Failures = {f1}
    None = None
    Requests <- MCOneOfEach
    Policies <- MCPolicies
    FailureTool <- MCFailureTool
    Paths <- MCPaths
    SensitivePaths <- MCSensitivePaths
    StartsWith <- MCStartsWith
    Targets <- MCTargets
    SAFE_MAKE_TARGETS <- MCSafeTargets
    Outcomes = {"completed"}
    MaxReopens = 1
SYMMETRY MCSymmetry
INVARIANTS
    Inv
    AwaitingHasPending
    DeniedActionInvalid
PROPERTIES
    OutcomeKeptUntilReopen
    HistoryKept
