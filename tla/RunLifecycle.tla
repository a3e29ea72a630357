----------------------------- MODULE RunLifecycle -----------------------------
(***************************************************************************)
(* The run lifecycle the deterministic daemon offers its clients, with     *)
(* every RPC method as one atomic step: the runs and approvals tables of   *)
(* the SQLite store, and one action per handler of                         *)
(* deterministic-daemon/src/handlers.rs that changes them.                 *)
(*                                                                         *)
(* This is the behaviour of a daemon that serves one request at a time and *)
(* does not crash in the middle of one; the module Daemon splits the same  *)
(* handlers at their store calls.  A rejected request changes neither      *)
(* table, so rejections are the absence of a step.  Read-only methods      *)
(* (run.refresh, run.get, runs.list, the preflights) and the organisation  *)
(* methods (pin, snooze, ...) change no variable of this module.           *)
(***************************************************************************)
EXTENDS RunCore

CONSTANTS
    Outcomes,      \* the outcome kinds clients close runs with
    MaxReopens     \* bound on reopen_count, a counter the code never caps

ASSUME LifecycleAssumption ==
    /\ Outcomes \subseteq OutcomeKinds
    /\ MaxReopens \in Nat

VARIABLES
    runs,        \* the runs table: a RunState or None (no such row) per id
    approvals    \* the approvals table: a PendingApproval or None per id

vars == <<runs, approvals>>

-----------------------------------------------------------------------------

Exists(r) == runs[r] # None

\* get_pending_approvals(run_id)
PendingOf(r) ==
    {a \in Approvals : /\ approvals[a] # None
                       /\ approvals[a].run_id = r
                       /\ approvals[a].status = "pending"}

Init ==
    /\ runs = [r \in Runs |-> None]
    /\ approvals = [a \in Approvals |-> None]

RunPrepare(r, policy) ==
    /\ ~ Exists(r)
    /\ runs' = [runs EXCEPT ![r] = prepare(policy)]
    /\ UNCHANGED approvals

RunReplan(r, failure) ==
    /\ Exists(r)
    /\ runs' = [runs EXCEPT ![r] = replan(@, failure)]
    /\ UNCHANGED approvals

\* patch.apply and tests.run when the policy asks for an approval.
GateRequest(r, request, a) ==
    /\ Exists(r)
    /\ RequiresApproval(request, runs[r].policy_profile)
    /\ approvals[a] = None
    /\ approvals' = [approvals EXCEPT ![a] =
                        [run_id |-> r, action |-> request, status |-> "pending"]]
    /\ runs' = [runs EXCEPT ![r] = create_approval(@, request, a)]

\* patch.apply and tests.run when the policy lets them run.  The row is saved
\* before the request is executed, so its success or failure leaves no trace.
ExecuteRequest(r, request) ==
    /\ Exists(r)
    /\ ~ RequiresApproval(request, runs[r].policy_profile)
    /\ runs' = [runs EXCEPT ![r] = clear_retryable(@)]
    /\ UNCHANGED approvals

\* Mutant: the pending approvals are counted before this one is decided.
Mutant_CountsItself(r, a, decision) ==
    /\ approvals[a] # None
    /\ approvals[a].run_id = r
    /\ Exists(r)
    /\ approvals[a].status = "pending"
    /\ approvals' = [approvals EXCEPT ![a].status =
                        IF decision = "approve" THEN "approved" ELSE "denied"]
    /\ runs' = [runs EXCEPT ![r] = resolve(@, decision, PendingOf(r) = {})]

ApprovalResolve(r, a, decision) ==
    /\ approvals[a] # None
    /\ approvals[a].run_id = r
    /\ Exists(r)
    /\ approvals[a].status = "pending"
    /\ approvals' = [approvals EXCEPT ![a].status =
                        IF decision = "approve" THEN "approved" ELSE "denied"]
    /\ runs' = [runs EXCEPT ![r] = resolve(@, decision, PendingOf(r) = {a})]

RunFinalize(r, kind) ==
    /\ Exists(r) /\ CanFinalize(runs[r])
    /\ runs' = [runs EXCEPT ![r] = finalize(@, kind)]
    /\ UNCHANGED approvals

RunReopen(r) ==
    /\ Exists(r) /\ CanReopen(runs[r])
    /\ runs[r].reopen_count < MaxReopens
    /\ runs' = [runs EXCEPT ![r] = reopen(@)]
    /\ UNCHANGED approvals

\* The successor's id ends in a millisecond timestamp; one request at a time,
\* it is new.
RunSupersede(r, s) ==
    /\ Exists(r) /\ CanSupersede(runs[r])
    /\ ~ Exists(s)
    /\ runs' = [runs EXCEPT ![r] = supersede(@, s), ![s] = successor_of(runs[r], r)]
    /\ UNCHANGED approvals

RunArchive(r) ==
    /\ Exists(r) /\ CanArchive(runs[r])
    /\ runs' = [runs EXCEPT ![r] = archive(@)]
    /\ UNCHANGED approvals

RunUnarchive(r) ==
    /\ Exists(r) /\ CanUnarchive(runs[r])
    /\ runs' = [runs EXCEPT ![r] = unarchive(@)]
    /\ UNCHANGED approvals

Next ==
    \E r \in Runs :
        \/ \E policy \in Policies : RunPrepare(r, policy)
        \/ \E failure \in Failures \cup {None} : RunReplan(r, failure)
        \/ \E request \in Requests, a \in Approvals : GateRequest(r, request, a)
        \/ \E request \in Requests : ExecuteRequest(r, request)
        \/ \E a \in Approvals, decision \in {"approve", "deny"} :
               ApprovalResolve(r, a, decision)
        \/ \E kind \in Outcomes : RunFinalize(r, kind)
        \/ RunReopen(r)
        \/ \E s \in Runs : RunSupersede(r, s)
        \/ RunArchive(r)
        \/ RunUnarchive(r)

Spec == Init /\ [][Next]_vars

-----------------------------------------------------------------------------
\* Both tables hold rows of their schema.
TypeOK ==
    /\ runs \in [Runs -> RunStates \cup {None}]
    /\ approvals \in [Approvals -> PendingApprovals \cup {None}]

\* A closed run shows the outcome it was closed with: a row whose status is
\* finalized:<kind> carries a finalized_outcome of that kind, whatever
\* approvals, replans, reopens and supersessions came before (run_finalize.rs
\* writes both, five other functions rewrite one of them).
FinalizedMatchesOutcome ==
    \A r \in Runs : Exists(r) =>
        \A kind \in OutcomeKinds :
            runs[r].status = FinalizedAs(kind) => runs[r].finalized_outcome = kind

\* approve_action is never asked for in vain: a run that waits for an approval has
\* a pending one, so a client that resolves approvals can always move it on
\* (create_approval and resolve keep the status and the approvals table, two
\* separate pieces of state, in step).
AwaitingHasPending ==
    \A r \in Runs :
        (Exists(r) /\ runs[r].status = "awaiting_approval") => PendingOf(r) # {}

\* A denied action is never offered for retry: once the approval that an action
\* was gated with is denied, the retryable record is invalid for good, or
\* replaced by another action (approval.rs, resolve with "deny").
DeniedActionInvalid ==
    \A r \in Runs : (Exists(r) /\ HasValidRetryable(runs[r])) =>
        approvals[runs[r].retryable_action.approval].status # "denied"

\* A blocked run offers nothing to retry, and was blocked by somebody: some
\* approval of the run was denied.  (So the branch of replan that keeps a valid
\* retryable action of a blocked run is never taken.)
BlockedByDenial ==
    \A r \in Runs : (Exists(r) /\ runs[r].status = "blocked") =>
        /\ ~ HasValidRetryable(runs[r])
        /\ \E a \in Approvals : /\ approvals[a] # None
                                /\ approvals[a].run_id = r
                                /\ approvals[a].status = "denied"

\* A retry is recommended only while it is valid and after a human approved
\* something on this run: neither replan, nor a denial, nor a new gated request
\* leaves a stale recommendation behind.
RecommendedWasApproved ==
    \A r \in Runs :
        (/\ Exists(r)
         /\ HasRetryable(runs[r])
         /\ runs[r].retryable_action.is_recommended) =>
            /\ runs[r].retryable_action.is_valid
            /\ \E a \in Approvals : /\ approvals[a] # None
                                    /\ approvals[a].run_id = r
                                    /\ approvals[a].status = "approved"

\* Only runs that were closed are archived or superseded: such a row still has
\* an outcome, or has been reopened since.
ClosedBefore ==
    \A r \in Runs :
        (/\ Exists(r)
         /\ runs[r].archive_metadata \/ runs[r].superseded_by_run_id # None) =>
            runs[r].finalized_outcome # None \/ runs[r].reopen_count > 0

\* Lineage links agree in both directions: the successor a run names exists and
\* names it back, and the predecessor a run names exists and has been marked
\* superseded (by this run or a later one); a run never supersedes itself.
LineageLinked ==
    \A r \in Runs : Exists(r) =>
        /\ runs[r].superseded_by_run_id # None =>
             LET s == runs[r].superseded_by_run_id
             IN s # r /\ Exists(s) /\ runs[s].supersedes_run_id = r
        /\ runs[r].supersedes_run_id # None =>
             LET o == runs[r].supersedes_run_id
             IN o # r /\ Exists(o) /\ runs[o].superseded_by_run_id # None

\* replan declares a run "done" only when it has no plan at all: no handler
\* ever takes a step off pending_steps, so a prepared run keeps its six steps
\* and only the successor of a superseded run, which starts with none, can
\* become done.
DoneOnlyWithoutPlan ==
    \A r \in Runs : (Exists(r) /\ runs[r].status = "done") =>
        runs[r].supersedes_run_id # None

ApprovalsOnlyDecided ==
    \A a \in Approvals : approvals[a] # None =>
        /\ approvals'[a] # None
        /\ approvals'[a].run_id = approvals[a].run_id
        /\ approvals'[a].action = approvals[a].action
        /\ approvals[a].status # "pending" => approvals'[a].status = approvals[a].status

\* An approval is decided once, and stays with the run and the action it was
\* created for (resolve_approval updates pending rows only).
DecidedOnce == [][ApprovalsOnlyDecided]_vars

OutcomesOnlyReopened ==
    \A r \in Runs : (Exists(r) /\ runs[r].finalized_outcome # None) =>
        \/ runs'[r].finalized_outcome = runs[r].finalized_outcome
        \/ /\ IsFinalized(runs[r])
           /\ runs'[r].finalized_outcome = None
           /\ runs'[r].status = "active"
           /\ runs'[r].reopen_count = runs[r].reopen_count + 1

\* An outcome, once recorded, is replaced by no other: it disappears only when
\* a finalized run is reopened, and the reopening is counted.
OutcomeKeptUntilReopen == [][OutcomesOnlyReopened]_vars

RunsOnlyGrow ==
    \A r \in Runs : Exists(r) =>
        /\ runs'[r] # None
        /\ runs'[r].status = "prepared" => runs[r].status = "prepared"
        /\ runs'[r].policy_profile = runs[r].policy_profile
        /\ runs'[r].supersedes_run_id = runs[r].supersedes_run_id
        /\ \E n \in 0 .. Len(runs'[r].pending_steps) :
               runs[r].pending_steps =
                   SubSeq(runs'[r].pending_steps, n + 1, Len(runs'[r].pending_steps))

\* A run is neither forgotten nor started over: its row stays, no step brings
\* it back to "prepared", and its policy profile, its predecessor and its plan
\* are those it was created with (replan only adds recovery steps in front).
HistoryKept == [][RunsOnlyGrow]_vars

-----------------------------------------------------------------------------
(***************************************************************************)
(* The inductive invariant.  LinkOK is what a row s of run r owes to the   *)
(* approvals table ap whatever happens to the table later (rows are added, *)
(* pending ones are decided, nothing is undone); SyncOK is what holds only *)
(* as long as the row and the table change together.                       *)
(***************************************************************************)
DecidedAs(ap, r, status) ==
    \E a \in Approvals : ap[a] # None /\ ap[a].run_id = r /\ ap[a].status = status

LinkOK(r, s, ap) ==
    /\ HasRetryable(s) =>
           /\ ap[s.retryable_action.approval] # None
           /\ ap[s.retryable_action.approval].run_id = r
           /\ ap[s.retryable_action.approval].action = s.retryable_action.payload
    /\ (HasRetryable(s) /\ s.retryable_action.is_recommended) => DecidedAs(ap, r, "approved")
    /\ s.status = "blocked" => DecidedAs(ap, r, "denied")

SyncOK(r, s, ap) ==
    /\ s.status = "awaiting_approval" => DecidedAs(ap, r, "pending")
    /\ HasValidRetryable(s) => ap[s.retryable_action.approval].status # "denied"

\* Every row is consistent by itself, with the approvals and with its lineage:
\* the strengthening from which the invariants above follow.
Inv ==
    /\ TypeOK
    /\ \A r \in Runs : Exists(r) =>
           /\ RowOK(runs[r])
           /\ LinkOK(r, runs[r], approvals)
           /\ SyncOK(r, runs[r], approvals)
    /\ LineageLinked
=============================================================================
