---------------------------- MODULE ApprovalPolicy ----------------------------
(***************************************************************************)
(* The approval policy of deterministic-core/src/approval_policy.rs: pure  *)
(* rules that decide, from a request and the policy profile of its run     *)
(* alone, whether the request runs at once or needs a human approval.      *)
(*                                                                         *)
(* Strings are abstracted to what the rules ask of them: whether a path    *)
(* contains a sensitive pattern, whether a path starts with a focus path,  *)
(* and whether a make target is one of the built-in safe ones.  Scopes and *)
(* targets stand for their lower-cased form.                               *)
(***************************************************************************)
EXTENDS Naturals, Sequences

CONSTANTS
    Paths,                \* paths a patch may edit or a run may focus on
    SensitivePaths,       \* the paths that match SENSITIVE_PATTERNS
    StartsWith,           \* pairs <<p, fp>>: path p starts with focus path fp
    Targets,              \* make targets, in lower case
    SAFE_MAKE_TARGETS     \* the targets that never need an approval

ASSUME PolicyAssumption ==
    /\ SensitivePaths \subseteq Paths
    /\ StartsWith \subseteq Paths \X Paths
    /\ SAFE_MAKE_TARGETS \subseteq Targets

\* The knobs a run is prepared with; no handler changes them afterwards.
RunPolicy ==
    [patch_edit_threshold             : Nat,
     delete_requires_approval         : BOOLEAN,
     sensitive_path_requires_approval : BOOLEAN,
     outside_focus_requires_approval  : BOOLEAN,
     extra_safe_make_targets          : SUBSET Targets,
     focus_paths                      : SUBSET Paths]

\* RunPolicyInput::into_policy for a prepare request that sets no knob.
DefaultPolicy(focus_paths) ==
    [patch_edit_threshold             |-> 5,
     delete_requires_approval         |-> TRUE,
     sensitive_path_requires_approval |-> TRUE,
     outside_focus_requires_approval  |-> TRUE,
     extra_safe_make_targets          |-> {},
     focus_paths                      |-> focus_paths]

PatchEdit == [path : Paths, operation : {"create", "replace", "delete"}]

PatchApplyParams == [kind : {"patch.apply"}, edits : Seq(PatchEdit)]

\* "unspecified": the request names no target.
TestsRunParams ==
    [kind   : {"tests.run"},
     scope  : {"cargo", "npm", "pytest", "make", "unit", "integration", "all"},
     target : Targets \cup {"unspecified"}]

-----------------------------------------------------------------------------

is_within_focus_paths(path, focus_paths) ==
    \E fp \in focus_paths : <<path, fp>> \in StartsWith

\* The edits that rules 1, 3 and 4 look for.
Deleted(p)     == {i \in DOMAIN p.edits : p.edits[i].operation = "delete"}
Sensitive(p)   == {i \in DOMAIN p.edits : p.edits[i].path \in SensitivePaths}
Unfocused(p, focus_paths) ==
    {i \in DOMAIN p.edits : ~ is_within_focus_paths(p.edits[i].path, focus_paths)}

\* The rule that gates a patch, or "proceed": the first rule that matches wins.
evaluate_patch(p, policy) ==
    IF policy.delete_requires_approval /\ Deleted(p) # {}
    THEN "delete"
    ELSE IF Len(p.edits) > policy.patch_edit_threshold
    THEN "large"
    ELSE IF policy.sensitive_path_requires_approval /\ Sensitive(p) # {}
    THEN "sensitive"
    ELSE IF /\ policy.outside_focus_requires_approval
            /\ policy.focus_paths # {}
            /\ Unfocused(p, policy.focus_paths) # {}
    THEN "outside_focus"
    ELSE "proceed"

\* The same for a test run.
evaluate_test_run(p, policy) ==
    IF /\ p.scope = "make"
       /\ p.target # "unspecified"
       /\ p.target \notin SAFE_MAKE_TARGETS
       /\ p.target \notin policy.extra_safe_make_targets
    THEN "make_target"
    ELSE "proceed"

RequiresApproval(p, policy) ==
    IF p.kind = "patch.apply"
    THEN evaluate_patch(p, policy) # "proceed"
    ELSE evaluate_test_run(p, policy) # "proceed"
=============================================================================
