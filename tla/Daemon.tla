-------------------------------- MODULE Daemon --------------------------------
(***************************************************************************)
(* The deterministic daemon as it runs: axum serves requests on several    *)
(* threads, every handler of deterministic-daemon/src/handlers.rs is a     *)
(* sequence of calls of the Store (persistence.rs), and the Store's mutex  *)
(* is held for one call at a time.  No transaction spans two calls, so     *)
(* handlers interleave between calls, and a crash or a database error      *)
(* between two of them leaves the effects of the first.                    *)
(*                                                                         *)
(* The tables are the variables of RunLifecycle.  A handler starts with    *)
(* its first read (that a request has arrived is invisible until then) and *)
(* keeps the row it read, changed by the core function, in its job until   *)
(* save_run writes the whole row back.                                     *)
(***************************************************************************)
EXTENDS RunLifecycle

CONSTANTS
    Workers,      \* threads that serve requests
    Methods,      \* the methods clients call, as the audit event of each branch
    MaxFaults     \* bound on crashes and database errors

AllMethods ==
    {"run_prepared", "replan_performed", "approval_created", "patch_applied",
     "tests_run", "approval_resolved", "run_finalized", "run_reopened",
     "run_superseded", "run_archived", "run_unarchived", "organised"}


VARIABLES
    job,      \* what each worker is doing: None, or a Job
    audit,    \* the audit_trail table, as pairs <<run id, event>>
    faults    \* crashes and database errors so far

dvars == <<runs, approvals, job, audit, faults>>

(***************************************************************************)
(* at: the store call (or execution) the handler makes next; event: the    *)
(* branch of the handler, named by the audit entry it ends with; state:    *)
(* the loaded row, already changed except before "count".                  *)
(***************************************************************************)
Jobs ==
    [at          : {"save_approval", "resolve_approval", "count", "save_run",
                    "execute", "save_successor", "audit", "audit_successor"},
     event       : AllMethods,
     run_id      : Runs,
     state       : RunStates,
     approval_id : Approvals \cup {None},
     decision    : {"approve", "deny", None}]

ASSUME DaemonAssumption ==
    /\ Methods \subseteq AllMethods
    /\ MaxFaults \in Nat
    /\ None \notin Jobs

Busy(w) == job[w] # None

At(w, label) == Busy(w) /\ job[w].at = label

\* No request in flight is about to write the row of r.
Quiet(r) ==
    \A w \in Workers :
        Busy(w) => r # job[w].run_id /\ r # job[w].state.superseded_by_run_id

DInit ==
    /\ Init
    /\ job = [w \in Workers |-> None]
    /\ audit = {}
    /\ faults = 0

-----------------------------------------------------------------------------
\* The first read of a handler, and the core function applied to it.

Begin(w, event, r, state, at) ==
    /\ ~ Busy(w)
    /\ event \in Methods
    /\ job' = [job EXCEPT ![w] =
                  [at |-> at, event |-> event, run_id |-> r, state |-> state,
                   approval_id |-> None, decision |-> None]]
    /\ UNCHANGED <<runs, approvals, audit, faults>>

\* Ids that a handler in flight has generated and not saved yet.
IdsInFlight ==
    {job[w].run_id : w \in {x \in Workers : Busy(x)}}
        \cup {job[w].state.superseded_by_run_id : w \in {x \in Workers : Busy(x)}}

\* A generated run id occurs nowhere yet.
FreshRun(r) ==
    /\ ~ Exists(r)
    /\ r \notin IdsInFlight
    /\ \A o \in Runs : Exists(o) => runs[o].superseded_by_run_id # r

ApprovalsInFlight ==
    {job[w].state.retryable_action.approval :
        w \in {x \in Workers : Busy(x) /\ HasRetryable(job[x].state)}}

\* The run id is a fresh UUID.
BeginPrepare(w, r, policy) ==
    /\ FreshRun(r)
    /\ Begin(w, "run_prepared", r, prepare(policy), "save_run")

BeginReplan(w, r, failure) ==
    /\ Exists(r)
    /\ Begin(w, "replan_performed", r, replan(runs[r], failure), "save_run")

\* Mutant: the run is saved and its approval is not.
Mutant_ApprovalNotSaved(w, r, request, a) ==
    /\ Exists(r)
    /\ RequiresApproval(request, runs[r].policy_profile)
    /\ approvals[a] = None /\ a \notin ApprovalsInFlight
    /\ Begin(w, "approval_created", r, create_approval(runs[r], request, a), "save_run")

BeginGate(w, r, request, a) ==
    /\ Exists(r)
    /\ RequiresApproval(request, runs[r].policy_profile)
    /\ approvals[a] = None /\ a \notin ApprovalsInFlight
    /\ Begin(w, "approval_created", r, create_approval(runs[r], request, a),
             "save_approval")

BeginExecute(w, r, request) ==
    /\ Exists(r)
    /\ ~ RequiresApproval(request, runs[r].policy_profile)
    /\ Begin(w, IF request.kind = "patch.apply" THEN "patch_applied" ELSE "tests_run",
             r, clear_retryable(runs[r]), "save_run")

\* get_approval and get_run.  An approval's run never changes and rows are
\* never deleted, so reading both at once loses no interleaving.
BeginResolve(w, r, a, decision) ==
    /\ ~ Busy(w)
    /\ "approval_resolved" \in Methods
    /\ approvals[a] # None /\ approvals[a].run_id = r
    /\ Exists(r)
    /\ job' = [job EXCEPT ![w] =
                  [at |-> "resolve_approval", event |-> "approval_resolved",
                   run_id |-> r, state |-> runs[r],
                   approval_id |-> a, decision |-> decision]]
    /\ UNCHANGED <<runs, approvals, audit, faults>>

BeginFinalize(w, r, kind) ==
    /\ Exists(r) /\ CanFinalize(runs[r])
    /\ Begin(w, "run_finalized", r, finalize(runs[r], kind), "save_run")

BeginReopen(w, r) ==
    /\ Exists(r) /\ CanReopen(runs[r])
    /\ runs[r].reopen_count < MaxReopens
    /\ Begin(w, "run_reopened", r, reopen(runs[r]), "save_run")

\* The id of a successor is its original's id and a timestamp in milliseconds:
\* two handlers in flight for the same original may generate the same one.
SameMillisecond(r, s) ==
    \E x \in Workers : /\ Busy(x)
                       /\ job[x].event = "run_superseded"
                       /\ job[x].run_id = r
                       /\ job[x].state.superseded_by_run_id = s

BeginSupersede(w, r, s) ==
    /\ Exists(r) /\ CanSupersede(runs[r])
    /\ FreshRun(s) \/ SameMillisecond(r, s)
    /\ Begin(w, "run_superseded", r, supersede(runs[r], s), "save_run")

BeginArchive(w, r) ==
    /\ Exists(r) /\ CanArchive(runs[r])
    /\ Begin(w, "run_archived", r, archive(runs[r]), "save_run")

BeginUnarchive(w, r) ==
    /\ Exists(r) /\ CanUnarchive(runs[r])
    /\ Begin(w, "run_unarchived", r, unarchive(runs[r]), "save_run")

\* annotate, pin, unpin, snooze, unsnooze, set_priority, assign_owner,
\* set_due_date, set_dependencies, set_effort: each loads the row, changes
\* metadata this model leaves out, and saves the whole row as it was loaded.
BeginOrganise(w, r) ==
    /\ Exists(r)
    /\ Begin(w, "organised", r, runs[r], "save_run")

-----------------------------------------------------------------------------
\* The store calls that follow.

Goto(w, label) == job' = [job EXCEPT ![w].at = label]

Finish(w) == job' = [job EXCEPT ![w] = None]

\* save_approval of the approval that create_approval returned.
SaveApproval(w) ==
    /\ At(w, "save_approval")
    /\ LET ra == job[w].state.retryable_action
       IN approvals' = [approvals EXCEPT ![ra.approval] =
                           [run_id |-> job[w].run_id, action |-> ra.payload,
                            status |-> "pending"]]
    /\ Goto(w, "save_run")
    /\ UNCHANGED <<runs, audit, faults>>

\* Mutant: every decision is stored as an approval.
Mutant_AlwaysApproved(w) ==
    /\ At(w, "resolve_approval")
    /\ approvals[job[w].approval_id].status = "pending"
    /\ approvals' = [approvals EXCEPT ![job[w].approval_id].status = "approved"]
    /\ Goto(w, "count")
    /\ UNCHANGED <<runs, audit, faults>>

\* Mutant: the UPDATE does not ask for a pending row.
Mutant_AnyRow(w) ==
    /\ At(w, "resolve_approval")
    /\ approvals' = [approvals EXCEPT ![job[w].approval_id].status =
                        IF job[w].decision = "approve" THEN "approved" ELSE "denied"]
    /\ Goto(w, "count")
    /\ UNCHANGED <<runs, audit, faults>>

\* UPDATE ... WHERE approval_id = ? AND status = 'pending'
ResolveApproval(w) ==
    /\ At(w, "resolve_approval")
    /\ approvals[job[w].approval_id].status = "pending"
    /\ approvals' = [approvals EXCEPT ![job[w].approval_id].status =
                        IF job[w].decision = "approve" THEN "approved" ELSE "denied"]
    /\ Goto(w, "count")
    /\ UNCHANGED <<runs, audit, faults>>

\* No row was updated: "not found or already resolved".
RejectResolve(w) ==
    /\ At(w, "resolve_approval")
    /\ approvals[job[w].approval_id].status # "pending"
    /\ Finish(w)
    /\ UNCHANGED <<runs, approvals, audit, faults>>

\* Mutant: the run is told that it was approved, whatever the decision.
Mutant_DecisionIgnored(w) ==
    /\ At(w, "count")
    /\ job' = [job EXCEPT ![w].at = "save_run",
                          ![w].state = resolve(@, "approve", PendingOf(job[w].run_id) = {})]
    /\ UNCHANGED <<runs, approvals, audit, faults>>

\* Mutant: the approval just decided is taken for one that is still pending.
Mutant_OneStillPending(w) ==
    /\ At(w, "count")
    /\ job' = [job EXCEPT ![w].at = "save_run",
                          ![w].state = resolve(@, job[w].decision, FALSE)]
    /\ UNCHANGED <<runs, approvals, audit, faults>>

\* get_pending_approvals, then the core function on the row loaded earlier.
CountPending(w) ==
    /\ At(w, "count")
    /\ job' = [job EXCEPT ![w].at = "save_run",
                          ![w].state = resolve(@, job[w].decision,
                                               PendingOf(job[w].run_id) = {})]
    /\ UNCHANGED <<runs, approvals, audit, faults>>

\* Mutant: the successor is audited and not saved.
Mutant_SuccessorForgotten(event) ==
    IF event \in {"patch_applied", "tests_run"} THEN "execute" ELSE "audit"

AfterSave(event) ==
    CASE event = "run_superseded"               -> "save_successor"
      [] event \in {"patch_applied", "tests_run"} -> "execute"
      [] OTHER                                  -> "audit"

\* INSERT OR REPLACE of the whole row.
SaveRun(w) ==
    /\ At(w, "save_run")
    /\ runs' = [runs EXCEPT ![job[w].run_id] = job[w].state]
    /\ Goto(w, AfterSave(job[w].event))
    /\ UNCHANGED <<approvals, audit, faults>>

SaveSuccessor(w) ==
    /\ At(w, "save_successor")
    /\ runs' = [runs EXCEPT ![job[w].state.superseded_by_run_id] =
                   successor_of(job[w].state, job[w].run_id)]
    /\ Goto(w, "audit")
    /\ UNCHANGED <<approvals, audit, faults>>

\* The patch or the test command runs; on an error the handler returns at once.
Execute(w) ==
    /\ At(w, "execute")
    /\ Goto(w, "audit") \/ Finish(w)
    /\ UNCHANGED <<runs, approvals, audit, faults>>

\* Mutant: only the original of a supersession is audited.
Mutant_OneAuditEntry(w) ==
    /\ At(w, "audit")
    /\ audit' = audit \cup {<<job[w].run_id, job[w].event>>}
    /\ Finish(w)
    /\ UNCHANGED <<runs, approvals, faults>>

AppendAudit(w) ==
    /\ At(w, "audit")
    /\ audit' = audit \cup {<<job[w].run_id, job[w].event>>}
    /\ IF job[w].event = "run_superseded" THEN Goto(w, "audit_successor")
                                          ELSE Finish(w)
    /\ UNCHANGED <<runs, approvals, faults>>

AppendSuccessorAudit(w) ==
    /\ At(w, "audit_successor")
    /\ audit' = audit \cup
           {<<job[w].state.superseded_by_run_id, "run_created_from_supersession">>}
    /\ Finish(w)
    /\ UNCHANGED <<runs, approvals, faults>>

\* A store call returns an error: the handler returns, keeping what it has
\* already written.  The error of an audit append is ignored: it is the last call
\* of every handler but run.supersede, which appends the successor's entry next.
StoreError(w) ==
    /\ Busy(w)
    /\ faults < MaxFaults
    /\ faults' = faults + 1
    /\ IF At(w, "audit") /\ job[w].event = "run_superseded"
       THEN Goto(w, "audit_successor")
       ELSE Finish(w)
    /\ UNCHANGED <<runs, approvals, audit>>

\* The process dies and is restarted: the database survives, the jobs do not.
Crash ==
    /\ \E w \in Workers : Busy(w)
    /\ faults < MaxFaults
    /\ faults' = faults + 1
    /\ job' = [w \in Workers |-> None]
    /\ UNCHANGED <<runs, approvals, audit>>

Arrive(w) ==
    \E r \in Runs :
        \/ \E policy \in Policies : BeginPrepare(w, r, policy)
        \/ \E failure \in Failures \cup {None} : BeginReplan(w, r, failure)
        \/ \E request \in Requests, a \in Approvals : BeginGate(w, r, request, a)
        \/ \E request \in Requests : BeginExecute(w, r, request)
        \/ \E a \in Approvals, decision \in {"approve", "deny"} :
               BeginResolve(w, r, a, decision)
        \/ \E kind \in Outcomes : BeginFinalize(w, r, kind)
        \/ BeginReopen(w, r)
        \/ \E s \in Runs : BeginSupersede(w, r, s)
        \/ BeginArchive(w, r)
        \/ BeginUnarchive(w, r)
        \/ BeginOrganise(w, r)

Step(w) ==
    \/ SaveApproval(w)
    \/ ResolveApproval(w)
    \/ RejectResolve(w)
    \/ CountPending(w)
    \/ SaveRun(w)
    \/ SaveSuccessor(w)
    \/ Execute(w)
    \/ AppendAudit(w)
    \/ AppendSuccessorAudit(w)

DNext ==
    \/ \E w \in Workers : Arrive(w) \/ Step(w) \/ StoreError(w)
    \/ Crash

DSpec == DInit /\ [][DNext]_dvars

-----------------------------------------------------------------------------
\* The tables, the jobs and the audit trail hold what their schema allows.
DTypeOK ==
    /\ TypeOK
    /\ job \in [Workers -> Jobs \cup {None}]
    /\ audit \subseteq Runs \X (AllMethods \cup {"run_created_from_supersession"})
    /\ faults \in Nat

\* A retryable action never outruns its approval: whatever handlers interleave
\* or die, a row that offers an action for retry has the approval row the
\* action was gated with, for the same run and the same action (the handlers
\* save the approval before the run).
RetryHasApproval ==
    \A r \in Runs : (Exists(r) /\ HasRetryable(runs[r])) =>
        LET ra == runs[r].retryable_action
        IN /\ approvals[ra.approval] # None
           /\ approvals[ra.approval].run_id = r
           /\ approvals[ra.approval].action = ra.payload

\* The predecessor of a successor run exists, is another run, and runs under the
\* same policy profile.
PredecessorExists ==
    \A r \in Runs : (Exists(r) /\ runs[r].supersedes_run_id # None) =>
        LET o == runs[r].supersedes_run_id
        IN /\ o # r
           /\ Exists(o)
           /\ runs[o].policy_profile = runs[r].policy_profile

\* Without crashes and database errors the audit trail explains every status:
\* when no request on a run is in flight, a closed run has a run_finalized
\* entry, a waiting one an approval_created entry, a blocked one an
\* approval_resolved entry, and a run with a predecessor was audited as created
\* from it.
AuditExplainsStatus ==
    faults = 0 => \A r \in Runs :
        (Exists(r) /\ Quiet(r)) =>
            /\ IsFinalized(runs[r]) => <<r, "run_finalized">> \in audit
            /\ runs[r].status = "awaiting_approval" => <<r, "approval_created">> \in audit
            /\ runs[r].status = "blocked" => <<r, "approval_resolved">> \in audit
            /\ runs[r].supersedes_run_id # None =>
                   <<r, "run_created_from_supersession">> \in audit

\* Worker w has marked a run as superseded and saves its successor s next.
Succeeding(w, s) == At(w, "save_successor") /\ job[w].state.superseded_by_run_id = s

\* A supersession is whole: the successor a run names exists and names that run
\* as its predecessor, whatever stale rows are saved over either, also when two
\* requests generate one id; it is missing only while the request that saved the
\* original is about to save it, or after a fault.  So no two runs share a
\* successor, and without faults no id leads nowhere.
SupersessionWhole ==
    \A o \in Runs : (Exists(o) /\ runs[o].superseded_by_run_id # None) =>
        LET s == runs[o].superseded_by_run_id
        IN IF Exists(s)
           THEN runs[s].supersedes_run_id = o
           ELSE faults > 0 \/ \E w \in Workers : Succeeding(w, s) /\ job[w].run_id = o

-----------------------------------------------------------------------------
(***************************************************************************)
(* The inductive invariant.  A handler in flight carries a row that it has *)
(* read and will write back whatever happens meanwhile, so what holds of   *)
(* the rows must hold of the jobs too.                                     *)
(***************************************************************************)
Verdict(decision) == IF decision = "approve" THEN "approved" ELSE "denied"

RowsLinked ==
    \A r \in Runs : Exists(r) => RowOK(runs[r]) /\ LinkOK(r, runs[r], approvals)

\* The row in job j is as consistent as a saved one, except that its approval
\* may still have to be saved; a decision that was stored stays the one stored.
JobLinked(j) ==
    /\ RowOK(j.state)
    /\ IF j.at = "save_approval"
       THEN /\ j.event = "approval_created"
            /\ j.state.status = "awaiting_approval"
            /\ HasRetryable(j.state)
            /\ ~ j.state.retryable_action.is_recommended
            /\ approvals[j.state.retryable_action.approval] = None
       ELSE LinkOK(j.run_id, j.state, approvals)
    /\ j.at \in {"resolve_approval", "count"} =>
           /\ j.event = "approval_resolved"
           /\ j.approval_id \in Approvals
           /\ j.decision \in {"approve", "deny"}
           /\ approvals[j.approval_id] # None
           /\ approvals[j.approval_id].run_id = j.run_id
           /\ j.at = "count" => approvals[j.approval_id].status = Verdict(j.decision)

\* The row in job j names the policy and the predecessor of the saved one; only
\* run.prepare writes a row that is not there yet, and a successor that exists
\* already was created from the same run.
JobLineage(j) ==
    /\ Exists(j.run_id) =>
           /\ j.state.policy_profile = runs[j.run_id].policy_profile
           /\ j.state.supersedes_run_id = runs[j.run_id].supersedes_run_id
    /\ ~ Exists(j.run_id) =>
           /\ j.event = "run_prepared"
           /\ j.at = "save_run"
           /\ j.state.supersedes_run_id = None
    /\ j.at \in {"save_successor", "audit_successor"} => j.event = "run_superseded"
    /\ j.event = "run_superseded" =>
           LET s == j.state.superseded_by_run_id
           IN  /\ s \in Runs
               /\ s # j.run_id
               /\ Exists(s) => runs[s].supersedes_run_id = j.run_id

\* The ids that two jobs are about to insert are different, except for the
\* successors of one run.
Apart(i, j) ==
    /\ (i.at = "save_approval" /\ j.at = "save_approval") =>
           i.state.retryable_action.approval # j.state.retryable_action.approval
    /\ ~ Exists(i.run_id) =>
           /\ j.run_id # i.run_id
           /\ j.event = "run_superseded" => j.state.superseded_by_run_id # i.run_id
    /\ (/\ i.event = "run_superseded" /\ j.event = "run_superseded"
        /\ i.state.superseded_by_run_id = j.state.superseded_by_run_id) =>
           i.run_id = j.run_id

\* The entry is in the audit trail, or a handler in flight will append it.
Promised(r, event) ==
    \/ <<r, event>> \in audit
    \/ \E w \in Workers : /\ Busy(w)
                          /\ job[w].run_id = r
                          /\ job[w].event = event
                          /\ job[w].at \in {"save_approval", "save_run", "audit"}

StatusPromised(r, s) ==
    /\ IsFinalized(s) => Promised(r, "run_finalized")
    /\ s.status = "awaiting_approval" => Promised(r, "approval_created")
    /\ s.status = "blocked" => Promised(r, "approval_resolved")

SuccessorPromised(r) ==
    \/ <<r, "run_created_from_supersession">> \in audit
    \/ \E w \in Workers : /\ Busy(w)
                          /\ job[w].event = "run_superseded"
                          /\ job[w].state.superseded_by_run_id = r
                          /\ job[w].at \in {"audit", "audit_successor"}

AuditPromised ==
    /\ \A r \in Runs : Exists(r) =>
           /\ StatusPromised(r, runs[r])
           /\ runs[r].supersedes_run_id # None => SuccessorPromised(r)
    /\ \A w \in Workers : Busy(w) => StatusPromised(job[w].run_id, job[w].state)

\* Rows, approvals, lineage and audit trail stay consistent with each other and
\* with what the handlers in flight are about to write.
DInv ==
    /\ DTypeOK
    /\ RowsLinked
    /\ \A w \in Workers : Busy(w) => JobLinked(job[w]) /\ JobLineage(job[w])
    /\ \A v, w \in Workers : (v # w /\ Busy(v) /\ Busy(w)) => Apart(job[v], job[w])
    /\ PredecessorExists
    /\ faults = 0 => AuditPromised

(***************************************************************************)
(* Run o names s as its successor: in its row, or in a row that a handler  *)
(* has read or changed and may write back.  SuccessorsNamed strengthens    *)
(* SupersessionWhole to all of these.                                      *)
(***************************************************************************)
RowNames(o, s) == Exists(o) /\ runs[o].superseded_by_run_id = s

JobNames(w, o, s) ==
    Busy(w) /\ job[w].run_id = o /\ job[w].state.superseded_by_run_id = s

Named(o, s) == RowNames(o, s) \/ \E w \in Workers : JobNames(w, o, s)

\* The supersession of w is not in the table yet.
Unannounced(w) == At(w, "save_run") /\ job[w].event = "run_superseded"

Announced(o, s) ==
    RowNames(o, s) \/ \E w \in Workers : JobNames(w, o, s) /\ ~ Unannounced(w)

SavesSuccessor(w, o, s) == Succeeding(w, s) /\ job[w].run_id = o

\* One run names an id, no new run has it, the run that has it names it back; and
\* without faults an id in the table is that of a run or of one about to be saved.
SuccessorsNamed ==
    /\ \A o, p, s \in Runs : (Named(o, s) /\ Named(p, s)) => o = p
    /\ \A w \in Workers : (Busy(w) /\ ~ Exists(job[w].run_id)) =>
           \A o \in Runs : ~ Named(o, job[w].run_id)
    /\ \A o, s \in Runs : (Named(o, s) /\ Exists(s)) => runs[s].supersedes_run_id = o
    /\ faults = 0 => \A o, s \in Runs : (Announced(o, s) /\ ~ Exists(s)) =>
           \E w \in Workers : SavesSuccessor(w, o, s)

-----------------------------------------------------------------------------
(***************************************************************************)
(* One worker and no fault: the daemon implements RunLifecycle.  A request *)
(* takes effect when its row is saved: until then the approval it created  *)
(* or decided is shown as it was before, and from then on a successor that *)
(* is still to be saved is shown already.                                  *)
(***************************************************************************)
CreatedByJob(a) ==
    \E w \in Workers : /\ At(w, "save_run")
                       /\ job[w].event = "approval_created"
                       /\ job[w].state.retryable_action.approval = a

DecidedByJob(a) ==
    \E w \in Workers : (At(w, "count") \/ At(w, "save_run")) /\ job[w].approval_id = a

shownApprovals ==
    [a \in Approvals |->
        IF CreatedByJob(a) THEN None
        ELSE IF DecidedByJob(a) THEN [approvals[a] EXCEPT !.status = "pending"]
        ELSE approvals[a]]

shownRuns ==
    [r \in Runs |->
        IF \E w \in Workers : Succeeding(w, r)
        THEN LET w == CHOOSE x \in Workers : Succeeding(x, r)
             IN successor_of(job[w].state, job[w].run_id)
        ELSE runs[r]]

Atomic == INSTANCE RunLifecycle WITH runs <- shownRuns, approvals <- shownApprovals

\* Served one at a time and without faults, requests are atomic: every handler,
\* store call by store call, implements the action of RunLifecycle.
SerialIsAtomic == Atomic!Spec
=============================================================================
