------------------------------- MODULE RunCore -------------------------------
(***************************************************************************)
(* The run-state transitions of deterministic-core/src, as pure operators. *)
(*                                                                         *)
(* Every core function takes a RunState (one row of the runs table, loaded *)
(* by the daemon) and either rejects it or returns it changed.  A function *)
(* f that can reject is modelled by a guard CanF(s) and a result F(s); the *)
(* modules that extend this one decide when rows are loaded and saved.     *)
(*                                                                         *)
(* A RunState keeps the lifecycle part of the row.  Texts, timestamps and  *)
(* the organisation metadata (annotation, pin, snooze, priority, owner,    *)
(* due date, effort, dependencies), which no lifecycle function reads, are *)
(* left out.                                                               *)
(***************************************************************************)
EXTENDS ApprovalPolicy

CONSTANTS
    Runs,          \* run ids
    Approvals,     \* approval ids
    Requests,      \* the patch.apply and tests.run requests clients send
    Policies,      \* the policy profiles clients prepare runs with
    Failures,      \* failure contexts that clients pass to run.replan
    FailureTool,   \* what recommend_for_step answers for their recovery steps
    None           \* an absent Option, or a missing row

Tools ==
    {"get_workspace_summary", "read_file", "search_code", "apply_patch",
     "run_tests", "show_diff", "git_status", "approve_action", "replan_run",
     "refresh_run_state"}

OutcomeKinds == {"completed", "failed", "abandoned"}

\* status = format!("finalized:{}", outcome_kind)
FinalizedAs(kind) ==
    CASE kind = "completed" -> "finalized:completed"
      [] kind = "failed"    -> "finalized:failed"
      [] kind = "abandoned" -> "finalized:abandoned"

FinalizedStatuses ==
    {"finalized:completed", "finalized:failed", "finalized:abandoned"}

Statuses ==
    {"prepared", "active", "awaiting_approval", "blocked", "done"}
        \cup FinalizedStatuses

\* The steps every prepared run starts with.
PlanSteps ==
    <<"inspect workspace", "read relevant files", "search code if needed",
      "apply patch", "run tests", "show diff">>

PlanStepNames ==
    {"inspect workspace", "read relevant files", "search code if needed",
     "apply patch", "run tests", "show diff"}

\* A recovery step is represented by the failure context in its text.
Steps == PlanStepNames \cup Failures

(***************************************************************************)
(* approval links the record to the approvals row created together with it *)
(* (the code keeps no such link: it is there to state properties).  kind   *)
(* and recommended_tool are those of the request in the payload.           *)
(***************************************************************************)
RetryableActions ==
    [payload        : Requests,
     approval       : Approvals,
     is_valid       : BOOLEAN,
     is_recommended : BOOLEAN]

RunStates ==
    [policy_profile        : Policies,
     status                : Statuses,
     pending_steps         : Seq(Steps),
     recommended_tool      : Tools,
     retryable_action      : RetryableActions \cup {None},
     finalized_outcome     : OutcomeKinds \cup {None},
     reopen_count          : Nat,
     supersedes_run_id     : Runs \cup {None},
     superseded_by_run_id  : Runs \cup {None},
     archive_metadata      : BOOLEAN,
     unarchive_metadata    : BOOLEAN]

PendingApprovals ==
    [run_id : Runs, action : Requests, status : {"pending", "approved", "denied"}]

ASSUME CoreAssumption ==
    /\ Requests \subseteq PatchApplyParams \cup TestsRunParams
    /\ Policies \subseteq RunPolicy
    /\ FailureTool \in [Failures -> Tools]
    /\ Failures \cap PlanStepNames = {}

\* An absent value differs from every present one.
ASSUME NoneAssumption ==
    /\ None \notin Runs
    /\ None \notin Approvals
    /\ None \notin OutcomeKinds
    /\ None \notin RetryableActions
    /\ None \notin RunStates
    /\ None \notin PendingApprovals

-----------------------------------------------------------------------------
\* Helpers.

IsFinalized(s) == s.status \in FinalizedStatuses

HasRetryable(s) == s.retryable_action # None

HasValidRetryable(s) == HasRetryable(s) /\ s.retryable_action.is_valid

ToolOf(request) ==
    IF request.kind = "patch.apply" THEN "apply_patch" ELSE "run_tests"

recommend_for_step(step) ==
    CASE step = "inspect workspace"     -> "get_workspace_summary"
      [] step = "read relevant files"   -> "read_file"
      [] step = "search code if needed" -> "search_code"
      [] step = "apply patch"           -> "apply_patch"
      [] step = "run tests"             -> "run_tests"
      [] step = "show diff"             -> "show_diff"
      [] OTHER                          -> FailureTool[step]

Invalidated(s) ==
    IF HasRetryable(s)
    THEN [s EXCEPT !.retryable_action.is_valid = FALSE,
                   !.retryable_action.is_recommended = FALSE]
    ELSE s

-----------------------------------------------------------------------------
\* run_prepare.rs, prepare: the row of a new run.
prepare(policy) ==
    [policy_profile       |-> policy,
     status               |-> "prepared",
     pending_steps        |-> PlanSteps,
     recommended_tool     |-> "get_workspace_summary",
     retryable_action     |-> None,
     finalized_outcome    |-> None,
     reopen_count         |-> 0,
     supersedes_run_id    |-> None,
     superseded_by_run_id |-> None,
     archive_metadata     |-> FALSE,
     unarchive_metadata   |-> FALSE]

\* approval.rs, create_approval, and the retryable action the handler records.
create_approval(s, request, a) ==
    [s EXCEPT !.status = "awaiting_approval",
              !.recommended_tool = "approve_action",
              !.retryable_action =
                  [payload |-> request, approval |-> a,
                   is_valid |-> TRUE, is_recommended |-> FALSE]]

\* handlers.rs, the Proceed branches: the retryable action is dropped and the
\* row is saved before the request runs.
clear_retryable(s) == [s EXCEPT !.retryable_action = None]

\* approval.rs, resolve with decision "approve".
Recommended(s) ==
    IF HasValidRetryable(s)
    THEN [s EXCEPT !.retryable_action.is_recommended = TRUE]
    ELSE s

ToolAfterApproval(s) ==
    IF HasRetryable(s)
    THEN IF s.retryable_action.is_valid
         THEN ToolOf(s.retryable_action.payload)
         ELSE "replan_run"
    ELSE "refresh_run_state"

resolve_approve(s, nothing_pending) ==
    IF nothing_pending
    THEN [Recommended(s) EXCEPT !.status = "active",
                                !.recommended_tool = ToolAfterApproval(s)]
    ELSE [Recommended(s) EXCEPT !.recommended_tool = "approve_action"]

\* Mutant: a denial leaves the retryable action alone.
Mutant_DenyKeepsAction(s) ==
    [s EXCEPT !.status = "blocked", !.recommended_tool = "replan_run"]

\* approval.rs, resolve with decision "deny".
resolve_deny(s) ==
    [Invalidated(s) EXCEPT !.status = "blocked",
                           !.recommended_tool = "replan_run"]

resolve(s, decision, nothing_pending) ==
    IF decision = "approve" THEN resolve_approve(s, nothing_pending)
                            ELSE resolve_deny(s)

-----------------------------------------------------------------------------
\* run_replan.rs.

Contains(steps, step) == \E i \in DOMAIN steps : steps[i] = step

\* Mutant: the recovery step replaces the plan.
Mutant_PlanReplaced(s, failure) ==
    [(IF HasValidRetryable(s) THEN Invalidated(s) ELSE s) EXCEPT
        !.status = IF @ \in {"blocked", "awaiting_approval"} THEN "active" ELSE @,
        !.pending_steps = <<failure>>]

ReplanFailure(s, failure) ==
    [(IF HasValidRetryable(s) THEN Invalidated(s) ELSE s) EXCEPT
        !.status = IF @ \in {"blocked", "awaiting_approval"} THEN "active" ELSE @,
        !.pending_steps = IF Contains(@, failure) THEN @ ELSE <<failure>> \o @]

ReplanNoFailure(s) ==
    IF s.status = "blocked"
    THEN [s EXCEPT !.status = "active",
                   !.retryable_action =
                       IF HasValidRetryable(s)
                       THEN [@ EXCEPT !.is_recommended = FALSE] ELSE @]
    ELSE s

\* What both branches end with: the next step, "done" and "prepared".
ReplanNext(s) ==
    [s EXCEPT !.status = CASE s.pending_steps = <<>> -> "done"
                           [] s.pending_steps # <<>> /\ @ = "prepared" -> "active"
                           [] OTHER -> @,
              !.recommended_tool =
                  IF s.pending_steps = <<>> THEN "show_diff"
                                            ELSE recommend_for_step(Head(s.pending_steps))]

replan(s, failure) ==
    ReplanNext(IF failure = None THEN ReplanNoFailure(s) ELSE ReplanFailure(s, failure))

-----------------------------------------------------------------------------
\* run_finalize.rs, run_reopen.rs, run_supersede.rs, run_archive.rs,
\* run_unarchive.rs.

CanFinalize(s) == s.finalized_outcome = None

finalize(s, kind) ==
    [s EXCEPT !.finalized_outcome = kind, !.status = FinalizedAs(kind)]

CanReopen(s) == IsFinalized(s)

\* Mutant: the run is reopened without a new status.
Mutant_StatusKept(s) ==
    [s EXCEPT !.finalized_outcome = None, !.reopen_count = @ + 1]

\* Mutant: the reopening is not counted.
Mutant_Uncounted(s) == [s EXCEPT !.status = "active", !.finalized_outcome = None]

reopen(s) ==
    [s EXCEPT !.status = "active", !.finalized_outcome = None,
              !.reopen_count = @ + 1]

CanSupersede(s) == IsFinalized(s)

supersede(s, successor) == [s EXCEPT !.superseded_by_run_id = successor]

\* Mutant: the successor does not name the run it supersedes.
Mutant_NoBackLink(s, r) ==
    [prepare(s.policy_profile) EXCEPT !.pending_steps = <<>>,
                                      !.recommended_tool = "refresh_run_state"]

successor_of(s, r) ==
    [prepare(s.policy_profile) EXCEPT !.pending_steps = <<>>,
                                      !.recommended_tool = "refresh_run_state",
                                      !.supersedes_run_id = r]

CanArchive(s) == IsFinalized(s) /\ ~ s.archive_metadata

archive(s) == [s EXCEPT !.archive_metadata = TRUE]

CanUnarchive(s) == s.archive_metadata /\ ~ s.unarchive_metadata

unarchive(s) == [s EXCEPT !.unarchive_metadata = TRUE]

-----------------------------------------------------------------------------
(***************************************************************************)
(* What every core function keeps true of a row on its own, whatever the   *)
(* rest of the database holds.  A handler writes back a row it has read,   *)
(* so this survives any interleaving of handlers.                          *)
(***************************************************************************)
RowOK(s) ==
    /\ \A kind \in OutcomeKinds :
           s.status = FinalizedAs(kind) => s.finalized_outcome = kind
    /\ s.status = "blocked" => ~ HasValidRetryable(s)
    /\ (HasRetryable(s) /\ s.retryable_action.is_recommended) =>
           s.retryable_action.is_valid
    /\ (s.archive_metadata \/ s.superseded_by_run_id # None) =>
           s.finalized_outcome # None \/ s.reopen_count > 0
    /\ s.supersedes_run_id = None => s.pending_steps # <<>>
    /\ s.status = "done" => s.supersedes_run_id # None
=============================================================================
