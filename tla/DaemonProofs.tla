----------------------------- MODULE DaemonProofs -----------------------------
(***************************************************************************)
(* DInv is an invariant of Daemon for every number of workers, runs,       *)
(* approvals, crashes and database errors: what the handlers promise about *)
(* the tables does not depend on the order in which their store calls      *)
(* interleave.                                                             *)
(***************************************************************************)
EXTENDS Daemon, RunLifecycleProofs

-----------------------------------------------------------------------------
\* One worker's job changes and the others keep theirs.
LEMMA JobChange ==
    ASSUME job \in [Workers -> Jobs \cup {None}], NEW w \in Workers,
           NEW j \in Jobs \cup {None}, job' = [job EXCEPT ![w] = j]
    PROVE  /\ job' \in [Workers -> Jobs \cup {None}]
           /\ job'[w] = j
           /\ \A v \in Workers : v # w => job'[v] = job[v]
  OBVIOUS

\* A handler that moves on to its next store call keeps everything else.
LEMMA GotoJob ==
    ASSUME NEW j \in Jobs, NEW k,
           NEW label \in {"save_run", "count", "execute", "save_successor", "audit",
                          "audit_successor"},
           k = [j EXCEPT !.at = label]
    PROVE  /\ k \in Jobs /\ k # None
           /\ k.at = label /\ k.event = j.event /\ k.run_id = j.run_id
           /\ k.state = j.state /\ k.approval_id = j.approval_id /\ k.decision = j.decision
<1>1. /\ k \in Jobs
      /\ k.at = label /\ k.event = j.event /\ k.run_id = j.run_id
      /\ k.state = j.state /\ k.approval_id = j.approval_id /\ k.decision = j.decision
  BY DEF Jobs
<1> QED
  BY <1>1, DaemonAssumption

(***************************************************************************)
(* The job of a request that starts: consistent with the tables, apart     *)
(* from the jobs in flight, and with a status that is the one of the row   *)
(* it read or the one its own audit entry explains.                        *)
(***************************************************************************)
StatusExplained(j) ==
    /\ IsFinalized(j.state) =>
           \/ j.event = "run_finalized" /\ j.at = "save_run"
           \/ Exists(j.run_id) /\ IsFinalized(runs[j.run_id])
    /\ j.state.status = "awaiting_approval" =>
           \/ j.event = "approval_created" /\ j.at = "save_approval"
           \/ Exists(j.run_id) /\ runs[j.run_id].status = "awaiting_approval"
    /\ j.state.status = "blocked" =>
           Exists(j.run_id) /\ runs[j.run_id].status = "blocked"

NewJob(w, j) ==
    /\ j \in Jobs
    /\ ~ Busy(w)
    /\ JobLinked(j) /\ JobLineage(j) /\ StatusExplained(j)
    /\ \A v \in Workers : (v # w /\ Busy(v)) => Apart(job[v], j) /\ Apart(j, job[v])

\* Starting such a job keeps the invariant.
LEMMA ArriveKeeps ==
    ASSUME DInv, NEW w \in Workers, NEW j, NewJob(w, j),
           job' = [job EXCEPT ![w] = j], UNCHANGED <<runs, approvals, audit, faults>>
    PROVE  DInv'
<1>1. /\ job' \in [Workers -> Jobs \cup {None}]
      /\ job'[w] = j /\ j \in Jobs /\ j # None /\ ~ Busy(w)
      /\ \A v \in Workers : v # w => job'[v] = job[v]
  BY JobChange, DaemonAssumption DEF DInv, DTypeOK, NewJob
<1>2. DTypeOK'
  BY <1>1 DEF DInv, DTypeOK, TypeOK
<1>3. RowsLinked' /\ PredecessorExists'
  BY DEF DInv, RowsLinked, PredecessorExists, Exists
<1>4. ASSUME NEW v \in Workers, Busy(v)'
      PROVE  (JobLinked(job[v]) /\ JobLineage(job[v]))'
  <2>1. JobLinked(job'[v]) /\ JobLineage(job'[v])
    BY <1>1, <1>4 DEF DInv, Busy, NewJob
  <2> QED
    BY <2>1 DEF JobLinked, JobLineage, Exists
<1>5. ASSUME NEW u \in Workers, NEW v \in Workers, u # v, Busy(u)', Busy(v)'
      PROVE  Apart(job[u], job[v])'
  <2>1. Apart(job'[u], job'[v])
    BY <1>1, <1>5 DEF DInv, Busy, NewJob
  <2> QED
    BY <2>1 DEF Apart, Exists
<1>6. (faults = 0 => AuditPromised)'
  <2> SUFFICES ASSUME faults = 0
               PROVE  AuditPromised'
    OBVIOUS
  <2>1. AuditPromised
    BY DEF DInv
  <2>2. \A r, event : Promised(r, event) => Promised(r, event)'
    BY <1>1 DEF Promised, Busy
  <2>3. \A r : SuccessorPromised(r) => SuccessorPromised(r)'
    BY <1>1 DEF SuccessorPromised, Busy
  <2>4. \A r, s : StatusPromised(r, s) => StatusPromised(r, s)'
    BY <2>2 DEF StatusPromised
  <2>5. StatusPromised(j.run_id, j.state)'
    <3>1. j.event \in {"run_finalized", "approval_created"} /\ j.at \in {"save_approval", "save_run"}
             => Promised(j.run_id, j.event)'
      BY <1>1 DEF Promised, Busy
    <3>2. j.run_id \in Runs
      BY <1>1 DEF Jobs
    <3>3. Exists(j.run_id) => StatusPromised(j.run_id, runs[j.run_id])
      BY <2>1, <3>2 DEF AuditPromised
    <3> QED
      BY <2>2, <3>1, <3>3 DEF NewJob, StatusExplained, StatusPromised
  <2>6. ASSUME NEW v \in Workers, Busy(v)'
        PROVE  StatusPromised(job[v].run_id, job[v].state)'
    BY <1>1, <2>1, <2>4, <2>5, <2>6 DEF AuditPromised, Busy
  <2> QED
    BY <2>1, <2>3, <2>4, <2>6 DEF AuditPromised, Exists
<1> QED
  BY <1>2, <1>3, <1>4, <1>5, <1>6 DEF DInv

\* A request that fails before it has promised anything, or by a fault, keeps it.
LEMMA LeaveKeeps ==
    ASSUME DInv, NEW w \in Workers, Busy(w),
           job' = [job EXCEPT ![w] = None], UNCHANGED <<runs, approvals, audit>>,
           \/ faults' = faults /\ job[w].at \in {"resolve_approval", "execute"}
           \/ faults' = faults + 1
    PROVE  DInv'
<1>1. /\ job' \in [Workers -> Jobs \cup {None}]
      /\ job'[w] = None
      /\ \A v \in Workers : v # w => job'[v] = job[v]
  BY JobChange DEF DInv, DTypeOK
<1>2. DTypeOK'
  BY <1>1 DEF DInv, DTypeOK, TypeOK
<1>3. RowsLinked' /\ PredecessorExists'
  BY DEF DInv, RowsLinked, PredecessorExists, Exists
<1>4. ASSUME NEW v \in Workers, Busy(v)'
      PROVE  (JobLinked(job[v]) /\ JobLineage(job[v]))'
  <2>1. JobLinked(job'[v]) /\ JobLineage(job'[v])
    BY <1>1, <1>4 DEF DInv, Busy
  <2> QED
    BY <2>1 DEF JobLinked, JobLineage, Exists
<1>5. ASSUME NEW u \in Workers, NEW v \in Workers, u # v, Busy(u)', Busy(v)'
      PROVE  Apart(job[u], job[v])'
  <2>1. Apart(job'[u], job'[v])
    BY <1>1, <1>5 DEF DInv, Busy
  <2> QED
    BY <2>1 DEF Apart, Exists
<1>6. (faults = 0 => AuditPromised)'
  <2> SUFFICES ASSUME faults' = 0
               PROVE  AuditPromised'
    OBVIOUS
  <2>1. faults = 0 /\ job[w].at \in {"resolve_approval", "execute"}
    BY DEF DInv, DTypeOK
  <2>2. AuditPromised
    BY <2>1 DEF DInv
  <2>3. \A r, event : Promised(r, event) => Promised(r, event)'
    BY <1>1, <2>1 DEF Promised, Busy
  <2>4. \A r : SuccessorPromised(r) => SuccessorPromised(r)'
    BY <1>1, <2>1 DEF SuccessorPromised, Busy
  <2>5. \A r, s : StatusPromised(r, s) => StatusPromised(r, s)'
    BY <2>3 DEF StatusPromised
  <2>6. ASSUME NEW v \in Workers, Busy(v)'
        PROVE  StatusPromised(job[v].run_id, job[v].state)'
    BY <1>1, <2>2, <2>5, <2>6 DEF AuditPromised, Busy
  <2> QED
    BY <2>2, <2>4, <2>5, <2>6 DEF AuditPromised, Exists
<1> QED
  BY <1>2, <1>3, <1>4, <1>5, <1>6 DEF DInv

\* The entry of the original of a supersession cannot be appended.
LEMMA AuditErrorOK ==
    ASSUME DInv, NEW w \in Workers, Busy(w), job[w].at = "audit",
           job[w].event = "run_superseded",
           job' = [job EXCEPT ![w].at = "audit_successor"],
           UNCHANGED <<runs, approvals, audit>>, faults' = faults + 1
    PROVE  DInv'
<1>1. PICK k : k = [job[w] EXCEPT !.at = "audit_successor"]
  OBVIOUS
<1>2. /\ job[w] \in Jobs /\ JobLinked(job[w]) /\ JobLineage(job[w])
      /\ job \in [Workers -> Jobs \cup {None}]
  BY DEF DInv, DTypeOK, Busy
<1>3. /\ k \in Jobs /\ k # None /\ k.at = "audit_successor" /\ k.event = job[w].event
      /\ k.run_id = job[w].run_id /\ k.state = job[w].state
  BY <1>1, <1>2, GotoJob
<1>4. job' = [job EXCEPT ![w] = k]
  BY <1>1
<1>5. /\ job' \in [Workers -> Jobs \cup {None}]
      /\ job'[w] = k
      /\ \A v \in Workers : v # w => job'[v] = job[v]
  BY <1>2, <1>3, <1>4, JobChange
<1>6. DTypeOK' /\ faults' # 0
  BY <1>5 DEF DInv, DTypeOK, TypeOK
<1>7. RowsLinked' /\ PredecessorExists'
  BY DEF DInv, RowsLinked, PredecessorExists, Exists
<1>8. ASSUME NEW v \in Workers, Busy(v)'
      PROVE  (JobLinked(job[v]) /\ JobLineage(job[v]))'
  <2>1. CASE v = w
    BY <1>2, <1>3, <1>5, <2>1 DEF JobLinked, JobLineage, Exists
  <2>2. CASE v # w
    <3>1. JobLinked(job'[v]) /\ JobLineage(job'[v])
      BY <1>5, <1>8, <2>2 DEF DInv, Busy
    <3> QED
      BY <3>1 DEF JobLinked, JobLineage, Exists
  <2> QED
    BY <2>1, <2>2
<1>9. ASSUME NEW u \in Workers, NEW v \in Workers, u # v, Busy(u)', Busy(v)'
      PROVE  Apart(job[u], job[v])'
  <2>1. Apart(job[u], job[v])
    BY <1>5, <1>9 DEF DInv, Busy
  <2> QED
    BY <1>3, <1>5, <1>9, <2>1 DEF Apart, Exists
<1> QED
  BY <1>6, <1>7, <1>8, <1>9 DEF DInv

-----------------------------------------------------------------------------
\* The requests that read a row and will write back one that asks no more of the
\* approvals: they start with a consistent job.
LEMMA RowJob ==
    ASSUME DInv, NEW w \in Workers, NEW event \in AllMethods, NEW r \in Runs, Exists(r),
           NEW t \in RunStates, RowOK(t), Follows(runs[r], t),
           t.policy_profile = runs[r].policy_profile,
           t.supersedes_run_id = runs[r].supersedes_run_id,
           event # "run_superseded",
           event = "run_finalized" \/ ClosesNothing(runs[r], t),
           Begin(w, event, r, t, "save_run")
    PROVE  DInv'
<1> DEFINE j == [at |-> "save_run", event |-> event, run_id |-> r, state |-> t,
                 approval_id |-> None, decision |-> None]
<1>1. /\ j \in Jobs
      /\ j.at = "save_run" /\ j.event = event /\ j.run_id = r /\ j.state = t
  BY DEF Jobs
<1>2. ~ Busy(w) /\ job' = [job EXCEPT ![w] = j] /\ UNCHANGED <<runs, approvals, audit, faults>>
  BY DEF Begin
<1> HIDE DEF j
<1>3. LinkOK(r, t, approvals)
  BY FollowsKeeps DEF DInv, RowsLinked
<1>4. JobLinked(j) /\ JobLineage(j)
  BY <1>1, <1>3 DEF JobLinked, JobLineage
<1>5. StatusExplained(j)
  BY <1>1 DEF StatusExplained, Follows, ClosesNothing
<1>6. ASSUME NEW v \in Workers, v # w, Busy(v)
      PROVE  Apart(job[v], j) /\ Apart(j, job[v])
  BY <1>1 DEF Apart
<1> QED
  BY <1>1, <1>2, <1>4, <1>5, <1>6, ArriveKeeps DEF NewJob

\* A generated run id is about to be inserted by no handler in flight.
LEMMA FreshApart ==
    ASSUME NEW r, FreshRun(r), NEW v \in Workers, Busy(v)
    PROVE  job[v].run_id # r /\ job[v].state.superseded_by_run_id # r
  BY DEF FreshRun, IdsInFlight

\* run.prepare
LEMMA PrepareJob ==
    ASSUME DInv, NEW w \in Workers, NEW r \in Runs, NEW policy \in Policies,
           BeginPrepare(w, r, policy)
    PROVE  DInv'
<1> DEFINE t == prepare(policy)
           j == [at |-> "save_run", event |-> "run_prepared", run_id |-> r, state |-> t,
                 approval_id |-> None, decision |-> None]
<1>1. t \in RunStates /\ RowOK(t)
  BY PrepareOK
<1>2. /\ t.status = "prepared" /\ ~ HasRetryable(t)
      /\ t.supersedes_run_id = None
  BY DEF prepare, HasRetryable
<1>3. /\ ~ Busy(w) /\ job' = [job EXCEPT ![w] = j]
      /\ UNCHANGED <<runs, approvals, audit, faults>>
      /\ FreshRun(r)
  BY DEF BeginPrepare, Begin
<1> HIDE DEF t
<1>4. /\ j \in Jobs
      /\ j.at = "save_run" /\ j.event = "run_prepared" /\ j.run_id = r /\ j.state = t
  BY <1>1 DEF Jobs, AllMethods
<1> HIDE DEF j
<1>5. JobLinked(j) /\ JobLineage(j) /\ StatusExplained(j)
  BY <1>1, <1>2, <1>3, <1>4
     DEF JobLinked, JobLineage, StatusExplained, LinkOK, FreshRun, IsFinalized,
         FinalizedStatuses
<1>6. ASSUME NEW v \in Workers, v # w, Busy(v)
      PROVE  Apart(job[v], j) /\ Apart(j, job[v])
  BY <1>3, <1>4, <1>6, FreshApart DEF Apart
<1> QED
  BY <1>3, <1>4, <1>5, <1>6, ArriveKeeps DEF NewJob

\* patch.apply and tests.run that need an approval
LEMMA GateJob ==
    ASSUME DInv, NEW w \in Workers, NEW r \in Runs, NEW request \in Requests,
           NEW a \in Approvals, BeginGate(w, r, request, a)
    PROVE  DInv'
<1> DEFINE t == create_approval(runs[r], request, a)
           j == [at |-> "save_approval", event |-> "approval_created", run_id |-> r,
                 state |-> t, approval_id |-> None, decision |-> None]
<1>1. /\ ~ Busy(w) /\ job' = [job EXCEPT ![w] = j]
      /\ UNCHANGED <<runs, approvals, audit, faults>>
      /\ Exists(r) /\ approvals[a] = None /\ a \notin ApprovalsInFlight
  BY DEF BeginGate, Begin
<1>2. runs[r] \in RunStates /\ RowOK(runs[r])
  BY <1>1 DEF DInv, DTypeOK, TypeOK, RowsLinked, Exists
<1>3. t \in RunStates /\ RowOK(t)
  BY <1>2, CreateApprovalOK
<1>4. /\ SameLineage(runs[r], t)
      /\ t.status = "awaiting_approval"
      /\ t.retryable_action.approval = a
      /\ ~ t.retryable_action.is_recommended
  BY <1>2, CreateApprovalChanges
<1>5. HasRetryable(t)
  <2> DEFINE ra == [payload |-> request, approval |-> a, is_valid |-> TRUE,
                    is_recommended |-> FALSE]
  <2>1. ra \in RetryableActions /\ t.retryable_action = ra
    BY <1>2 DEF create_approval, RunStates, RetryableActions
  <2> QED
    BY <2>1, NoneAssumption DEF HasRetryable
<1> HIDE DEF t
<1>6. /\ j \in Jobs
      /\ j.at = "save_approval" /\ j.event = "approval_created" /\ j.run_id = r
      /\ j.state = t
  BY <1>3 DEF Jobs, AllMethods
<1> HIDE DEF j
<1>7. JobLinked(j) /\ JobLineage(j) /\ StatusExplained(j)
  BY <1>1, <1>3, <1>4, <1>5, <1>6
     DEF JobLinked, JobLineage, StatusExplained, SameLineage, IsFinalized, FinalizedStatuses
<1>8. ASSUME NEW v \in Workers, v # w, Busy(v)
      PROVE  Apart(job[v], j) /\ Apart(j, job[v])
  <2>1. JobLinked(job[v]) /\ JobLineage(job[v])
    BY <1>8 DEF DInv
  <2>2. job[v].at = "save_approval" => job[v].state.retryable_action.approval # a
    BY <1>1, <1>8, <2>1 DEF ApprovalsInFlight, JobLinked
  <2>3. ~ Exists(job[v].run_id) => r # job[v].run_id
    BY <1>1
  <2> QED
    BY <1>1, <1>4, <1>6, <2>2, <2>3 DEF Apart
<1> QED
  BY <1>1, <1>6, <1>7, <1>8, ArriveKeeps DEF NewJob

\* approval.resolve
LEMMA ResolveJob ==
    ASSUME DInv, NEW w \in Workers, NEW r \in Runs, NEW a \in Approvals,
           NEW decision \in {"approve", "deny"}, BeginResolve(w, r, a, decision)
    PROVE  DInv'
<1> DEFINE j == [at |-> "resolve_approval", event |-> "approval_resolved", run_id |-> r,
                 state |-> runs[r], approval_id |-> a, decision |-> decision]
<1>1. /\ ~ Busy(w) /\ job' = [job EXCEPT ![w] = j]
      /\ UNCHANGED <<runs, approvals, audit, faults>>
      /\ Exists(r) /\ approvals[a] # None /\ approvals[a].run_id = r
  BY DEF BeginResolve
<1>2. runs[r] \in RunStates /\ RowOK(runs[r]) /\ LinkOK(r, runs[r], approvals)
  BY <1>1 DEF DInv, DTypeOK, TypeOK, RowsLinked, Exists
<1>3. /\ j \in Jobs
      /\ j.at = "resolve_approval" /\ j.event = "approval_resolved" /\ j.run_id = r
      /\ j.state = runs[r] /\ j.approval_id = a /\ j.decision = decision
  BY <1>2 DEF Jobs, AllMethods
<1> HIDE DEF j
<1>4. JobLinked(j) /\ JobLineage(j) /\ StatusExplained(j)
  BY <1>1, <1>2, <1>3 DEF JobLinked, JobLineage, StatusExplained
<1>5. ASSUME NEW v \in Workers, v # w, Busy(v)
      PROVE  Apart(job[v], j) /\ Apart(j, job[v])
  BY <1>1, <1>3 DEF Apart
<1> QED
  BY <1>1, <1>3, <1>4, <1>5, ArriveKeeps DEF NewJob

\* run.supersede
LEMMA SupersedeJob ==
    ASSUME DInv, NEW w \in Workers, NEW r \in Runs, NEW s \in Runs, BeginSupersede(w, r, s)
    PROVE  DInv'
<1> DEFINE t == supersede(runs[r], s)
           j == [at |-> "save_run", event |-> "run_superseded", run_id |-> r,
                 state |-> t, approval_id |-> None, decision |-> None]
<1>1. /\ ~ Busy(w) /\ job' = [job EXCEPT ![w] = j]
      /\ UNCHANGED <<runs, approvals, audit, faults>>
      /\ Exists(r) /\ CanSupersede(runs[r]) /\ (FreshRun(s) \/ SameMillisecond(r, s))
  BY DEF BeginSupersede, Begin
<1>2. runs[r] \in RunStates /\ RowOK(runs[r]) /\ LinkOK(r, runs[r], approvals)
  BY <1>1 DEF DInv, DTypeOK, TypeOK, RowsLinked, Exists
<1>3. t \in RunStates /\ RowOK(t) /\ Follows(runs[r], t) /\ ClosesNothing(runs[r], t)
  BY <1>1, <1>2, SupersedeOK, ClosingFollows, ClosingKeeps
<1>4. /\ t.superseded_by_run_id = s
      /\ t.policy_profile = runs[r].policy_profile
      /\ t.supersedes_run_id = runs[r].supersedes_run_id
  BY <1>2 DEF supersede, RunStates
<1> HIDE DEF t
<1>5. /\ j \in Jobs
      /\ j.at = "save_run" /\ j.event = "run_superseded" /\ j.run_id = r /\ j.state = t
  BY <1>3 DEF Jobs, AllMethods
<1> HIDE DEF j
<1>6. LinkOK(r, t, approvals)
  BY <1>2, <1>3, FollowsKeeps
<1>7. JobLinked(j) /\ StatusExplained(j)
  BY <1>1, <1>3, <1>5, <1>6 DEF JobLinked, StatusExplained, Follows, ClosesNothing
<1>8. ASSUME NEW x \in Workers, Busy(x), job[x].event = "run_superseded",
             job[x].state.superseded_by_run_id = s
      PROVE  job[x].run_id = r
  BY <1>1, <1>8, FreshApart DEF SameMillisecond, DInv, Apart
<1>9. s # r /\ (Exists(s) => runs[s].supersedes_run_id = r)
  BY <1>1 DEF FreshRun, SameMillisecond, DInv, JobLineage
<1>10. JobLineage(j)
  BY <1>1, <1>4, <1>5, <1>9 DEF JobLineage
<1>11. ASSUME NEW v \in Workers, v # w, Busy(v)
      PROVE  Apart(job[v], j) /\ Apart(j, job[v])
  <2>1. JobLineage(job[v])
    BY <1>11 DEF DInv
  <2>2. ~ Exists(job[v].run_id) => s # job[v].run_id
    <3>1. CASE FreshRun(s)
      BY <3>1, <1>11, FreshApart
    <3>2. CASE SameMillisecond(r, s)
      <4>1. PICK x \in Workers : /\ Busy(x) /\ job[x].event = "run_superseded"
                                 /\ job[x].run_id = r
                                 /\ job[x].state.superseded_by_run_id = s
        BY <3>2 DEF SameMillisecond
      <4>2. CASE x = v
        BY <1>1, <4>1, <4>2
      <4>3. CASE x # v
        BY <1>11, <4>1, <4>3 DEF DInv, Apart
      <4> QED
        BY <4>2, <4>3
    <3> QED
      BY <1>1, <3>1, <3>2
  <2> QED
    BY <1>1, <1>4, <1>5, <1>8, <1>11, <2>2 DEF Apart
<1> QED
  BY <1>1, <1>5, <1>7, <1>10, <1>11, ArriveKeeps DEF NewJob

\* Whatever request arrives, its first read keeps the invariant.
LEMMA ArriveOK ==
    ASSUME DInv, NEW w \in Workers, Arrive(w)
    PROVE  DInv'
<1>1. \A r \in Runs : Exists(r) => runs[r] \in RunStates /\ RowOK(runs[r])
  BY DEF DInv, DTypeOK, TypeOK, RowsLinked, Exists
<1>2. {"replan_performed", "patch_applied", "tests_run", "run_finalized", "run_reopened",
       "run_archived", "run_unarchived", "organised"} \subseteq AllMethods
  BY DEF AllMethods
<1>3. ASSUME NEW r \in Runs, NEW failure \in Failures \cup {None},
             BeginReplan(w, r, failure)
      PROVE  DInv'
  BY <1>1, <1>2, <1>3, ReplanOK, ReplanKeeps, RowJob DEF BeginReplan, SameLineage
<1>4. ASSUME NEW r \in Runs, NEW request \in Requests, BeginExecute(w, r, request)
      PROVE  DInv'
  <2>1. PICK event \in {"patch_applied", "tests_run"} :
            Exists(r) /\ Begin(w, event, r, clear_retryable(runs[r]), "save_run")
    BY <1>4 DEF BeginExecute
  <2> QED
    BY <1>1, <1>2, <2>1, ClearRetryableOK, ClosingFollows, ClosingKeeps, RowJob
       DEF SameLineage
<1>5. ASSUME NEW r \in Runs, NEW kind \in Outcomes, BeginFinalize(w, r, kind)
      PROVE  DInv'
  BY <1>1, <1>2, <1>5, FinalizeOK, ClosingFollows, RowJob, LifecycleAssumption
     DEF BeginFinalize, SameLineage
<1>6. ASSUME NEW r \in Runs, BeginReopen(w, r)
      PROVE  DInv'
  BY <1>1, <1>2, <1>6, ReopenOK, ClosingFollows, ClosingKeeps, RowJob
     DEF BeginReopen, SameLineage
<1>7. ASSUME NEW r \in Runs, BeginArchive(w, r)
      PROVE  DInv'
  BY <1>1, <1>2, <1>7, ArchiveOK, ClosingFollows, ClosingKeeps, RowJob
     DEF BeginArchive, SameLineage
<1>8. ASSUME NEW r \in Runs, BeginUnarchive(w, r)
      PROVE  DInv'
  BY <1>1, <1>2, <1>8, UnarchiveOK, ClosingFollows, ClosingKeeps, RowJob
     DEF BeginUnarchive, SameLineage
<1>9. ASSUME NEW r \in Runs, BeginOrganise(w, r)
      PROVE  DInv'
  <2>1. Exists(r) => Follows(runs[r], runs[r]) /\ ClosesNothing(runs[r], runs[r])
    BY DEF Follows, ClosesNothing
  <2> QED
    BY <1>1, <1>2, <1>9, <2>1, RowJob DEF BeginOrganise
<1> QED
  BY <1>3, <1>4, <1>5, <1>6, <1>7, <1>8, <1>9, PrepareJob, GateJob, ResolveJob,
     SupersedeJob DEF Arrive

-----------------------------------------------------------------------------
\* The statuses that the audit trail explains, and the entries that do.
Explaining == {"run_finalized", "approval_created", "approval_resolved"}

\* Worker w goes on with job k (or ends, k = None) and breaks no promise: what its
\* job was to append it has appended, or k will.
KeepsPromises(w, k) ==
    /\ audit \subseteq audit'
    /\ (job[w].at \in {"save_approval", "save_run", "audit"} /\ job[w].event \in Explaining) =>
           \/ <<job[w].run_id, job[w].event>> \in audit'
           \/ /\ k # None
              /\ k.run_id = job[w].run_id /\ k.event = job[w].event
              /\ k.at \in {"save_approval", "save_run", "audit"}
    /\ (job[w].at \in {"audit", "audit_successor"} /\ job[w].event = "run_superseded") =>
           \/ <<job[w].state.superseded_by_run_id, "run_created_from_supersession">> \in audit'
           \/ /\ k # None
              /\ k.event = job[w].event
              /\ k.state.superseded_by_run_id = job[w].state.superseded_by_run_id
              /\ k.at \in {"audit", "audit_successor"}

\* Then every promise stands.
LEMMA PromisesStand ==
    ASSUME job \in [Workers -> Jobs \cup {None}], NEW w \in Workers,
           NEW k \in Jobs \cup {None}, job' = [job EXCEPT ![w] = k], KeepsPromises(w, k)
    PROVE  /\ \A r, s : StatusPromised(r, s) => StatusPromised(r, s)'
           /\ \A r : SuccessorPromised(r) => SuccessorPromised(r)'
<1>1. /\ job'[w] = k
      /\ \A v \in Workers : v # w => job'[v] = job[v]
  BY JobChange
<1>2. ASSUME NEW r, NEW event \in Explaining, Promised(r, event)
      PROVE  Promised(r, event)'
  <2>1. CASE <<r, event>> \in audit
    BY <2>1 DEF Promised, KeepsPromises
  <2>2. ASSUME NEW v \in Workers, Busy(v), job[v].run_id = r, job[v].event = event,
               job[v].at \in {"save_approval", "save_run", "audit"}
        PROVE  Promised(r, event)'
    <3>1. CASE v = w
      BY <1>1, <2>2, <3>1 DEF Promised, KeepsPromises, Busy
    <3>2. CASE v # w
      BY <1>1, <2>2, <3>2 DEF Promised, Busy
    <3> QED
      BY <3>1, <3>2
  <2> QED
    BY <1>2, <2>1, <2>2 DEF Promised
<1>3. ASSUME NEW r, SuccessorPromised(r)
      PROVE  SuccessorPromised(r)'
  <2>1. CASE <<r, "run_created_from_supersession">> \in audit
    BY <2>1 DEF SuccessorPromised, KeepsPromises
  <2>2. ASSUME NEW v \in Workers, Busy(v), job[v].event = "run_superseded",
               job[v].state.superseded_by_run_id = r,
               job[v].at \in {"audit", "audit_successor"}
        PROVE  SuccessorPromised(r)'
    <3>1. CASE v = w
      BY <1>1, <2>2, <3>1 DEF SuccessorPromised, KeepsPromises, Busy
    <3>2. CASE v # w
      BY <1>1, <2>2, <3>2 DEF SuccessorPromised, Busy
    <3> QED
      BY <3>1, <3>2
  <2> QED
    BY <1>3, <2>1, <2>2 DEF SuccessorPromised
<1>4. "run_finalized" \in Explaining /\ "approval_created" \in Explaining
      /\ "approval_resolved" \in Explaining
  BY DEF Explaining
<1> QED
  BY <1>2, <1>3, <1>4 DEF StatusPromised

\* A job keeps its links when the approvals table progresses, as long as the
\* approval it is still to save stays free.
LEMMA ProgressKeepsJob ==
    ASSUME NEW j \in Jobs, JobLinked(j), Progress(approvals, approvals'),
           j.at = "save_approval" => approvals'[j.state.retryable_action.approval] = None
    PROVE  JobLinked(j)'
<1>1. j.state \in RunStates
  BY DEF Jobs
<1>2. j.at # "save_approval" => LinkOK(j.run_id, j.state, approvals')
  BY <1>1, ProgressKeepsLink DEF JobLinked
<1>3. \A decision : Verdict(decision) # "pending"
  BY DEF Verdict
<1> QED
  BY <1>2, <1>3 DEF JobLinked, Progress

\* A step of w that leaves the runs table alone.
LEMMA JobStep ==
    ASSUME DInv, NEW w \in Workers, Busy(w), NEW k \in Jobs \cup {None},
           job' = [job EXCEPT ![w] = k], UNCHANGED <<runs, faults>>,
           approvals' \in [Approvals -> PendingApprovals \cup {None}],
           Progress(approvals, approvals'),
           \A v \in Workers : (v # w /\ At(v, "save_approval")) =>
               approvals'[job[v].state.retryable_action.approval] = None,
           audit' \subseteq Runs \X (AllMethods \cup {"run_created_from_supersession"}),
           KeepsPromises(w, k),
           k # None => /\ k.at # "save_approval"
                       /\ k.run_id = job[w].run_id /\ k.event = job[w].event
                       /\ k.state.superseded_by_run_id = job[w].state.superseded_by_run_id
                       /\ JobLinked(k)' /\ JobLineage(k)
                       /\ faults = 0 => StatusPromised(k.run_id, k.state)'
    PROVE  DInv'
<1>0. job \in [Workers -> Jobs \cup {None}]
  BY DEF DInv, DTypeOK
<1>1. /\ job' \in [Workers -> Jobs \cup {None}]
      /\ job'[w] = k
      /\ \A v \in Workers : v # w => job'[v] = job[v]
  BY <1>0, JobChange
<1>2. DTypeOK'
  BY <1>1 DEF DInv, DTypeOK, TypeOK
<1>3. RowsLinked' /\ PredecessorExists'
  <2>1. ASSUME NEW r \in Runs, Exists(r)
        PROVE  RowOK(runs[r]) /\ LinkOK(r, runs[r], approvals')
    BY <2>1, ProgressKeepsLink DEF DInv, DTypeOK, TypeOK, RowsLinked, Exists
  <2> QED
    BY <2>1 DEF DInv, RowsLinked, PredecessorExists, Exists
<1>4. ASSUME NEW v \in Workers, Busy(v)'
      PROVE  (JobLinked(job[v]) /\ JobLineage(job[v]))'
  <2>1. CASE v = w
    <3>1. job'[v] = k /\ k # None
      BY <1>1, <1>4, <2>1 DEF Busy
    <3> QED
      BY <3>1 DEF JobLinked, JobLineage, Exists
  <2>2. CASE v # w
    <3>1. job'[v] = job[v] /\ Busy(v) /\ job[v] \in Jobs
      BY <1>0, <1>1, <1>4, <2>2 DEF Busy
    <3>2. JobLinked(job[v]) /\ JobLineage(job[v])
      BY <3>1 DEF DInv
    <3>3. job[v].at = "save_approval" =>
              approvals'[job[v].state.retryable_action.approval] = None
      BY <2>2, <3>1 DEF At
    <3> DEFINE j == job[v]
    <3>4. j \in Jobs /\ JobLinked(j) /\ JobLineage(j) /\ job'[v] = j
          /\ (j.at = "save_approval" => approvals'[j.state.retryable_action.approval] = None)
      BY <3>1, <3>2, <3>3
    <3> HIDE DEF j
    <3>5. JobLinked(job[v])'
      BY <3>4, ProgressKeepsJob DEF JobLinked
    <3>6. JobLineage(job[v])'
      BY <3>4 DEF JobLineage, Exists
    <3> QED
      BY <3>5, <3>6
  <2> QED
    BY <2>1, <2>2
<1>5. ASSUME NEW u \in Workers, NEW v \in Workers, u # v, Busy(u)', Busy(v)'
      PROVE  Apart(job[u], job[v])'
  <2>1. Busy(u) /\ Busy(v) /\ Apart(job[u], job[v])
    BY <1>1, <1>5 DEF DInv, Busy
  <2>2. CASE u = w
    BY <1>1, <1>5, <2>1, <2>2 DEF Apart, Exists, Busy
  <2>3. CASE v = w
    BY <1>1, <1>5, <2>1, <2>3 DEF Apart, Exists, Busy
  <2>4. CASE u # w /\ v # w
    BY <1>1, <2>1, <2>4 DEF Apart, Exists
  <2> QED
    BY <2>2, <2>3, <2>4
<1>6. (faults = 0 => AuditPromised)'
  <2> SUFFICES ASSUME faults = 0
               PROVE  AuditPromised'
    OBVIOUS
  <2>1. AuditPromised
    BY DEF DInv
  <2>2. /\ \A r, s : StatusPromised(r, s) => StatusPromised(r, s)'
        /\ \A r : SuccessorPromised(r) => SuccessorPromised(r)'
    BY <1>0, PromisesStand
  <2>3. ASSUME NEW v \in Workers, Busy(v)'
        PROVE  StatusPromised(job[v].run_id, job[v].state)'
    BY <1>1, <2>1, <2>2, <2>3 DEF AuditPromised, Busy
  <2> QED
    BY <2>1, <2>2, <2>3 DEF AuditPromised, Exists
<1> QED
  BY <1>2, <1>3, <1>4, <1>5, <1>6 DEF DInv

\* Unchanged approvals are a progress.
LEMMA NoProgress ==
    ASSUME DInv, approvals' = approvals
    PROVE  /\ approvals' \in [Approvals -> PendingApprovals \cup {None}]
           /\ Progress(approvals, approvals')
           /\ \A v \in Workers : At(v, "save_approval") =>
                  approvals'[job[v].state.retryable_action.approval] = None
  BY DEF DInv, DTypeOK, TypeOK, Progress, At, JobLinked

\* save_approval
LEMMA SaveApprovalOK ==
    ASSUME DInv, NEW w \in Workers, SaveApproval(w)
    PROVE  DInv'
<1>1. /\ Busy(w) /\ job[w] \in Jobs /\ job[w].at = "save_approval"
      /\ JobLinked(job[w]) /\ JobLineage(job[w])
  BY DEF DInv, DTypeOK, SaveApproval, At, Busy
<1>2. PICK k : k = [job[w] EXCEPT !.at = "save_run"]
  OBVIOUS
<1>3. /\ k \in Jobs /\ k.at = "save_run" /\ k.event = job[w].event
      /\ k.run_id = job[w].run_id /\ k.state = job[w].state
  BY <1>1, <1>2, GotoJob
<1>4. PICK a, row : /\ a = k.state.retryable_action.approval
                    /\ row = [run_id |-> k.run_id, action |-> k.state.retryable_action.payload,
                              status |-> "pending"]
  OBVIOUS
<1>5. /\ job' = [job EXCEPT ![w] = k] /\ UNCHANGED <<runs, audit, faults>>
      /\ approvals' = [approvals EXCEPT ![a] = row]
  BY <1>2, <1>3, <1>4 DEF SaveApproval, Goto
<1>6. /\ k.state.retryable_action \in RetryableActions /\ HasRetryable(k.state)
      /\ k.event = "approval_created" /\ k.state.status = "awaiting_approval"
      /\ ~ k.state.retryable_action.is_recommended /\ RowOK(k.state)
      /\ k.run_id \in Runs /\ k.state \in RunStates
      /\ approvals[a] = None
  BY <1>1, <1>3, <1>4 DEF JobLinked, Jobs, RunStates, HasRetryable
<1>7. /\ a \in Approvals /\ row \in PendingApprovals /\ row # None
      /\ row.run_id = k.run_id /\ row.action = k.state.retryable_action.payload
  BY <1>4, <1>6, NoneAssumption DEF RetryableActions, PendingApprovals
<1>8. /\ approvals' \in [Approvals -> PendingApprovals \cup {None}]
      /\ approvals'[a] = row
      /\ \A b \in Approvals : b # a => approvals'[b] = approvals[b]
  BY <1>5, <1>7 DEF DInv, DTypeOK, TypeOK
<1>9. Progress(approvals, approvals')
  BY <1>6, <1>8 DEF Progress
<1>10. ASSUME NEW v \in Workers, v # w, At(v, "save_approval")
       PROVE  approvals'[job[v].state.retryable_action.approval] = None
  <2>1. Apart(job[v], job[w]) /\ JobLinked(job[v]) /\ job[v] \in Jobs
    BY <1>1, <1>10 DEF DInv, DTypeOK, At, Busy
  <2>2. job[v].state.retryable_action.approval \in Approvals
    BY <1>10, <2>1 DEF At, JobLinked, HasRetryable, Jobs, RunStates, RetryableActions
  <2> QED
    BY <1>1, <1>3, <1>4, <1>8, <1>10, <2>1, <2>2 DEF Apart, At, JobLinked
<1>11. JobLinked(k)'
  <2>1. LinkOK(k.run_id, k.state, approvals')
    BY <1>4, <1>6, <1>7, <1>8 DEF LinkOK
  <2> QED
    BY <1>3, <1>6, <2>1 DEF JobLinked
<1>12. JobLineage(k)
  BY <1>1, <1>3 DEF JobLineage
<1>13. KeepsPromises(w, k)
  BY <1>1, <1>3, <1>5, DaemonAssumption DEF KeepsPromises
<1>14. faults = 0 => StatusPromised(k.run_id, k.state)'
  <2>1. faults = 0 => StatusPromised(k.run_id, k.state)
    BY <1>1, <1>3 DEF DInv, AuditPromised
  <2>2. job \in [Workers -> Jobs \cup {None}]
    BY DEF DInv, DTypeOK
  <2> QED
    BY <1>3, <1>5, <1>13, <2>1, <2>2, PromisesStand
<1>15. audit' \subseteq Runs \X (AllMethods \cup {"run_created_from_supersession"})
  BY <1>5 DEF DInv, DTypeOK
<1> QED
  BY <1>1, <1>3, <1>5, <1>8, <1>9, <1>10, <1>11, <1>12, <1>13, <1>14, <1>15, JobStep

\* resolve_approval
LEMMA ResolveApprovalOK ==
    ASSUME DInv, NEW w \in Workers, ResolveApproval(w)
    PROVE  DInv'
<1>1. /\ Busy(w) /\ job[w] \in Jobs /\ job[w].at = "resolve_approval"
      /\ JobLinked(job[w]) /\ JobLineage(job[w])
  BY DEF DInv, DTypeOK, ResolveApproval, At, Busy
<1>2. PICK k : k = [job[w] EXCEPT !.at = "count"]
  OBVIOUS
<1>3. /\ k \in Jobs /\ k.at = "count" /\ k.event = job[w].event
      /\ k.run_id = job[w].run_id /\ k.state = job[w].state
      /\ k.approval_id = job[w].approval_id /\ k.decision = job[w].decision
  BY <1>1, <1>2, GotoJob
<1>4. PICK a, row : /\ a = k.approval_id
                    /\ row = [approvals[a] EXCEPT !.status = Verdict(k.decision)]
  OBVIOUS
<1>5. /\ k.event = "approval_resolved" /\ k.decision \in {"approve", "deny"}
      /\ a \in Approvals /\ approvals[a] # None /\ approvals[a].run_id = k.run_id
      /\ RowOK(k.state) /\ LinkOK(k.run_id, k.state, approvals)
      /\ k.state \in RunStates
      /\ approvals[a] \in PendingApprovals
  BY <1>1, <1>3, <1>4 DEF JobLinked, Jobs, DInv, DTypeOK, TypeOK
<1>6. /\ job' = [job EXCEPT ![w] = k] /\ UNCHANGED <<runs, audit, faults>>
      /\ approvals' = [approvals EXCEPT ![a] = row] /\ approvals[a].status = "pending"
  BY <1>2, <1>3, <1>4 DEF ResolveApproval, Goto, Verdict
<1>7. /\ row \in PendingApprovals /\ row # None
      /\ row.run_id = k.run_id /\ row.action = approvals[a].action
      /\ row.status = Verdict(k.decision)
  BY <1>4, <1>5, NoneAssumption DEF PendingApprovals, Verdict
<1>8. /\ approvals' \in [Approvals -> PendingApprovals \cup {None}]
      /\ approvals'[a] = row
      /\ \A b \in Approvals : b # a => approvals'[b] = approvals[b]
  BY <1>5, <1>6, <1>7 DEF DInv, DTypeOK, TypeOK
<1>9. Progress(approvals, approvals')
  BY <1>5, <1>6, <1>7, <1>8 DEF Progress
<1>10. ASSUME NEW v \in Workers, v # w, At(v, "save_approval")
       PROVE  approvals'[job[v].state.retryable_action.approval] = None
  <2>1. JobLinked(job[v]) /\ job[v] \in Jobs
    BY <1>10 DEF DInv, DTypeOK, At, Busy
  <2>2. job[v].state.retryable_action.approval \in Approvals
    BY <1>10, <2>1 DEF At, JobLinked, HasRetryable, Jobs, RunStates, RetryableActions
  <2> QED
    BY <1>5, <1>8, <1>10, <2>1, <2>2 DEF At, JobLinked
<1>11. JobLinked(k)'
  <2>1. LinkOK(k.run_id, k.state, approvals')
    BY <1>5, <1>9, ProgressKeepsLink
  <2> QED
    BY <1>3, <1>4, <1>5, <1>7, <1>8, <2>1 DEF JobLinked
<1>12. JobLineage(k)
  BY <1>1, <1>3 DEF JobLineage
<1>13. KeepsPromises(w, k)
  BY <1>1, <1>6 DEF KeepsPromises
<1>14. faults = 0 => StatusPromised(k.run_id, k.state)'
  <2>1. faults = 0 => StatusPromised(k.run_id, k.state)
    BY <1>1, <1>3 DEF DInv, AuditPromised
  <2>2. job \in [Workers -> Jobs \cup {None}]
    BY DEF DInv, DTypeOK
  <2> QED
    BY <1>3, <1>6, <1>13, <2>1, <2>2, PromisesStand
<1>15. audit' \subseteq Runs \X (AllMethods \cup {"run_created_from_supersession"})
  BY <1>6 DEF DInv, DTypeOK
<1> QED
  BY <1>1, <1>3, <1>6, <1>8, <1>9, <1>10, <1>11, <1>12, <1>13, <1>14, <1>15, JobStep

\* get_pending_approvals and the core function
LEMMA CountPendingOK ==
    ASSUME DInv, NEW w \in Workers, CountPending(w)
    PROVE  DInv'
<1>1. /\ Busy(w) /\ job[w] \in Jobs /\ job[w].at = "count"
      /\ JobLinked(job[w]) /\ JobLineage(job[w])
  BY DEF DInv, DTypeOK, CountPending, At, Busy
<1>2. PICK j, nothing_pending, t, k :
          /\ j = job[w]
          /\ nothing_pending = (PendingOf(j.run_id) = {})
          /\ t = resolve(j.state, j.decision, nothing_pending)
          /\ k = [[j EXCEPT !.at = "save_run"] EXCEPT !.state = t]
  OBVIOUS
<1>3. nothing_pending \in BOOLEAN
  BY <1>2
<1>4. /\ j.event = "approval_resolved" /\ j.decision \in {"approve", "deny"}
      /\ j.approval_id \in Approvals /\ approvals[j.approval_id] # None
      /\ approvals[j.approval_id].run_id = j.run_id
      /\ approvals[j.approval_id].status = Verdict(j.decision)
      /\ RowOK(j.state) /\ LinkOK(j.run_id, j.state, approvals)
      /\ j.state \in RunStates
  BY <1>1, <1>2 DEF JobLinked, Jobs
<1>5. job' = [job EXCEPT ![w] = k] /\ UNCHANGED <<runs, approvals, audit, faults>>
  BY <1>2 DEF CountPending
<1>6. /\ t \in RunStates /\ RowOK(t) /\ SameLineage(j.state, t)
      /\ ClosesNothing(j.state, t)
      /\ j.decision = "approve" => t.status \in {"active", j.state.status}
      /\ j.decision = "deny" => t.status = "blocked"
  <2>1. t = resolve(j.state, j.decision, nothing_pending)
    BY <1>2
  <2>2. t \in RunStates /\ RowOK(t)
    BY <1>3, <1>4, <2>1, ResolveOK
  <2>3. ClosesNothing(j.state, t)
    BY <1>3, <1>4, <2>1, ApprovalKeeps
  <2>4. /\ SameLineage(j.state, t)
        /\ j.decision = "approve" =>
               t.status = IF nothing_pending THEN "active" ELSE j.state.status
        /\ j.decision = "deny" => t.status = "blocked"
    BY <1>3, <1>4, <2>1, ResolveChanges
  <2> QED
    BY <2>2, <2>3, <2>4
<1>7. DecidedAs(approvals, j.run_id, Verdict(j.decision))
  BY <1>4 DEF DecidedAs
<1>8. LinkOK(j.run_id, t, approvals)
  BY <1>2, <1>3, <1>4, <1>7, ResolveLinks DEF Verdict
<1>9. /\ k \in Jobs /\ k.at = "save_run" /\ k.event = "approval_resolved"
      /\ k.run_id = j.run_id /\ k.state = t
  BY <1>1, <1>2, <1>4, <1>6 DEF Jobs
<1>10. JobLinked(k)'
  BY <1>5, <1>6, <1>8, <1>9 DEF JobLinked
<1>11. JobLineage(k)
  BY <1>1, <1>2, <1>4, <1>6, <1>9 DEF JobLineage, SameLineage
<1>12. KeepsPromises(w, k)
  BY <1>1, <1>5 DEF KeepsPromises
<1>13. faults = 0 => StatusPromised(k.run_id, k.state)'
  <2> SUFFICES ASSUME faults = 0
               PROVE  StatusPromised(j.run_id, t)'
    BY <1>9
  <2>1. StatusPromised(j.run_id, j.state)
    BY <1>1, <1>2 DEF DInv, AuditPromised
  <2>2. job \in [Workers -> Jobs \cup {None}] /\ k # None
    BY <1>9, DaemonAssumption DEF DInv, DTypeOK
  <2>3. StatusPromised(j.run_id, j.state)'
    BY <1>5, <1>9, <1>12, <2>1, <2>2, PromisesStand
  <2>4. Promised(j.run_id, "approval_resolved")'
    BY <1>5, <1>9, <2>2, JobChange DEF Promised, Busy
  <2> QED
    BY <1>4, <1>6, <2>3, <2>4 DEF StatusPromised, ClosesNothing
<1>14. audit' \subseteq Runs \X (AllMethods \cup {"run_created_from_supersession"})
  BY <1>5 DEF DInv, DTypeOK
<1>15. /\ approvals' \in [Approvals -> PendingApprovals \cup {None}]
       /\ Progress(approvals, approvals')
       /\ \A v \in Workers : At(v, "save_approval") =>
              approvals'[job[v].state.retryable_action.approval] = None
  BY <1>5, NoProgress
<1>16. /\ k.event = job[w].event /\ k.run_id = job[w].run_id
       /\ k.state.superseded_by_run_id = job[w].state.superseded_by_run_id
  BY <1>2, <1>4, <1>6, <1>9 DEF SameLineage
<1> QED
  BY <1>1, <1>5, <1>9, <1>10, <1>11, <1>12, <1>13, <1>14, <1>15, <1>16, JobStep

\* A request that only ends or moves on, as far as the tables are concerned.
LEMMA MoveOK ==
    ASSUME DInv, NEW w \in Workers, Busy(w), NEW k \in Jobs \cup {None},
           job' = [job EXCEPT ![w] = k], UNCHANGED <<runs, approvals, faults>>,
           k # None => /\ k.event = job[w].event /\ k.run_id = job[w].run_id
                       /\ k.state = job[w].state
                       /\ \/ k.at = "audit"
                          \/ k.at = "audit_successor" /\ job[w].event = "run_superseded",
           job[w].at \in {"execute", "audit", "audit_successor"},
           audit' \subseteq Runs \X (AllMethods \cup {"run_created_from_supersession"}),
           KeepsPromises(w, k)
    PROVE  DInv'
<1>1. JobLinked(job[w]) /\ JobLineage(job[w]) /\ job \in [Workers -> Jobs \cup {None}]
  BY DEF DInv, DTypeOK
<1>2. k # None => JobLinked(k)'
  BY <1>1 DEF JobLinked
<1>3. k # None => JobLineage(k)
  BY <1>1 DEF JobLineage
<1>4. k # None /\ faults = 0 => StatusPromised(k.run_id, k.state)'
  <2>1. k # None /\ faults = 0 => StatusPromised(k.run_id, k.state)
    BY DEF DInv, AuditPromised
  <2> QED
    BY <1>1, <2>1, PromisesStand
<1>5. /\ approvals' \in [Approvals -> PendingApprovals \cup {None}]
      /\ Progress(approvals, approvals')
      /\ \A v \in Workers : At(v, "save_approval") =>
             approvals'[job[v].state.retryable_action.approval] = None
  BY NoProgress
<1> QED
  BY <1>2, <1>3, <1>4, <1>5, JobStep

\* The execution of a patch or a test command.
LEMMA ExecuteOK ==
    ASSUME DInv, NEW w \in Workers, Execute(w)
    PROVE  DInv'
<1>1. /\ Busy(w) /\ job[w] \in Jobs /\ job[w].at = "execute"
      /\ UNCHANGED <<runs, approvals, audit, faults>>
  BY DEF DInv, DTypeOK, Execute, At, Busy
<1>2. CASE Goto(w, "audit")
  <2>1. PICK k : k = [job[w] EXCEPT !.at = "audit"]
    OBVIOUS
  <2>2. /\ k \in Jobs /\ k.at = "audit" /\ k.event = job[w].event
        /\ k.run_id = job[w].run_id /\ k.state = job[w].state
    BY <1>1, <2>1, GotoJob
  <2>3. job' = [job EXCEPT ![w] = k]
    BY <1>2, <2>1 DEF Goto
  <2>4. KeepsPromises(w, k)
    BY <1>1 DEF KeepsPromises
  <2>5. audit' \subseteq Runs \X (AllMethods \cup {"run_created_from_supersession"})
    BY <1>1 DEF DInv, DTypeOK
  <2> QED
    BY <1>1, <2>2, <2>3, <2>4, <2>5, MoveOK
<1>3. CASE Finish(w)
  BY <1>1, <1>3, LeaveKeeps DEF Finish
<1> QED
  BY <1>2, <1>3 DEF Execute

\* append_audit
LEMMA AppendAuditOK ==
    ASSUME DInv, NEW w \in Workers, AppendAudit(w)
    PROVE  DInv'
<1>1. /\ Busy(w) /\ job[w] \in Jobs /\ job[w].at = "audit"
      /\ UNCHANGED <<runs, approvals, faults>>
      /\ audit' = audit \cup {<<job[w].run_id, job[w].event>>}
  BY DEF DInv, DTypeOK, AppendAudit, At, Busy
<1>2. audit' \subseteq Runs \X (AllMethods \cup {"run_created_from_supersession"})
  <2>1. job[w].run_id \in Runs /\ job[w].event \in AllMethods
    BY <1>1 DEF Jobs
  <2> QED
    BY <1>1, <2>1 DEF DInv, DTypeOK
<1>3. CASE job[w].event = "run_superseded"
  <2>1. PICK k : k = [job[w] EXCEPT !.at = "audit_successor"]
    OBVIOUS
  <2>2. /\ k \in Jobs /\ k.at = "audit_successor" /\ k.event = job[w].event
        /\ k.run_id = job[w].run_id /\ k.state = job[w].state /\ k # None
    BY <1>1, <2>1, GotoJob
  <2>3. job' = [job EXCEPT ![w] = k]
    BY <1>3, <2>1 DEF AppendAudit, Goto
  <2>4. KeepsPromises(w, k)
    BY <1>1, <1>3, <2>2 DEF KeepsPromises
  <2> QED
    BY <1>1, <1>2, <1>3, <2>2, <2>3, <2>4, MoveOK
<1>4. CASE job[w].event # "run_superseded"
  <2>1. job' = [job EXCEPT ![w] = None]
    BY <1>4 DEF AppendAudit, Finish
  <2>2. KeepsPromises(w, None)
    BY <1>1, <1>4 DEF KeepsPromises
  <2> QED
    BY <1>1, <1>2, <2>1, <2>2, MoveOK
<1> QED
  BY <1>3, <1>4

\* The second audit entry of a supersession.
LEMMA AppendSuccessorAuditOK ==
    ASSUME DInv, NEW w \in Workers, AppendSuccessorAudit(w)
    PROVE  DInv'
<1>1. /\ Busy(w) /\ job[w] \in Jobs /\ job[w].at = "audit_successor"
      /\ UNCHANGED <<runs, approvals, faults>> /\ job' = [job EXCEPT ![w] = None]
      /\ audit' = audit \cup {<<job[w].state.superseded_by_run_id,
                                "run_created_from_supersession">>}
  BY DEF DInv, DTypeOK, AppendSuccessorAudit, At, Busy, Finish
<1>2. audit' \subseteq Runs \X (AllMethods \cup {"run_created_from_supersession"})
  <2>1. job[w].state.superseded_by_run_id \in Runs
    BY <1>1 DEF DInv, JobLineage
  <2> QED
    BY <1>1, <2>1 DEF DInv, DTypeOK
<1>3. KeepsPromises(w, None)
  BY <1>1 DEF KeepsPromises
<1> QED
  BY <1>1, <1>2, <1>3, MoveOK

-----------------------------------------------------------------------------
\* A step of w that writes row t of run q and moves on.
LEMMA SaveStep ==
    ASSUME DInv, NEW w \in Workers, Busy(w), NEW k \in Jobs, NEW q \in Runs,
           NEW t \in RunStates,
           job' = [job EXCEPT ![w] = k], runs' = [runs EXCEPT ![q] = t],
           UNCHANGED <<approvals, audit, faults>>,
           k.event = job[w].event, k.run_id = job[w].run_id, k.state = job[w].state,
           k.at \in {"save_successor", "execute", "audit"},
           k.at = "save_successor" => k.event = "run_superseded",
           job[w].at \notin {"save_approval"},
           RowOK(t), LinkOK(q, t, approvals),
           Exists(q) => /\ t.policy_profile = runs[q].policy_profile
                        /\ t.supersedes_run_id = runs[q].supersedes_run_id,
           ~ Exists(q) => \A v \in Workers : (v # w /\ Busy(v)) => job[v].run_id # q,
           \A v \in Workers :
               (/\ Busy(v) /\ job[v].event = "run_superseded"
                /\ job[v].state.superseded_by_run_id = q) =>
                   t.supersedes_run_id = job[v].run_id,
           t.supersedes_run_id # None =>
               /\ t.supersedes_run_id # q
               /\ Exists(t.supersedes_run_id)
               /\ runs[t.supersedes_run_id].policy_profile = t.policy_profile,
           k.run_id = q \/ Exists(k.run_id),
           k.run_id = q => /\ k.state.policy_profile = t.policy_profile
                           /\ k.state.supersedes_run_id = t.supersedes_run_id,
           KeepsPromises(w, k),
           faults = 0 => StatusPromised(q, t)',
           faults = 0 /\ t.supersedes_run_id # None => SuccessorPromised(q)'
    PROVE  DInv'
<1>0. /\ job \in [Workers -> Jobs \cup {None}]
      /\ \A v \in Workers : Busy(v) => JobLinked(job[v]) /\ JobLineage(job[v])
  BY DEF DInv, DTypeOK
<1>1. /\ job' \in [Workers -> Jobs \cup {None}]
      /\ job'[w] = k /\ k # None
      /\ \A v \in Workers : v # w => job'[v] = job[v]
      /\ \A v \in Workers : Busy(v)' <=> Busy(v)
  BY <1>0, JobChange, DaemonAssumption DEF Busy
<1>2. DTypeOK'
  BY <1>1 DEF DInv, DTypeOK, TypeOK
<1>3. /\ \A r \in Runs : Exists(r)' <=> (Exists(r) \/ r = q)
      /\ runs'[q] = t
      /\ \A r \in Runs : r # q => runs'[r] = runs[r]
  BY NoneAssumption DEF DInv, DTypeOK, TypeOK, Exists
<1>4. \A r \in Runs : Exists(r) =>
          /\ runs'[r].policy_profile = runs[r].policy_profile
          /\ runs'[r].supersedes_run_id = runs[r].supersedes_run_id
  BY <1>3
<1>5. RowsLinked'
  BY <1>3 DEF DInv, RowsLinked
<1>6. PredecessorExists'
  <2>1. \A r \in Runs : Exists(r) => runs[r].supersedes_run_id \in Runs \cup {None}
    BY DEF DInv, DTypeOK, TypeOK, RunStates, Exists
  <2>2. t.supersedes_run_id \in Runs \cup {None}
    BY DEF RunStates
  <2>3. ASSUME NEW r \in Runs, Exists(r)', NEW o \in Runs, runs'[r].supersedes_run_id = o,
               o # None
        PROVE  o # r /\ Exists(o)' /\ runs'[o].policy_profile = runs'[r].policy_profile
    <3>1. CASE r = q
      BY <1>3, <1>4, <2>3, <3>1
    <3>2. CASE r # q
      <4>1. Exists(r) /\ runs'[r] = runs[r]
        BY <1>3, <2>3, <3>2
      <4>2. o # r /\ Exists(o) /\ runs[o].policy_profile = runs[r].policy_profile
        BY <2>3, <4>1 DEF DInv, PredecessorExists
      <4> QED
        BY <1>3, <1>4, <2>3, <4>1, <4>2
    <3> QED
      BY <3>1, <3>2
  <2> QED
    BY <1>3, <2>1, <2>2, <2>3 DEF PredecessorExists
<1>7. ASSUME NEW v \in Workers, Busy(v)'
      PROVE  (JobLinked(job[v]) /\ JobLineage(job[v]))'
  <2>1. Busy(v) /\ JobLinked(job[v]) /\ JobLineage(job[v]) /\ job[v] \in Jobs
    BY <1>0, <1>1, <1>7 DEF Busy
  <2>2. JobLinked(job[v])'
    <3>1. CASE v = w
      BY <1>1, <2>1, <3>1 DEF JobLinked
    <3>2. CASE v # w
      BY <1>1, <2>1, <3>2 DEF JobLinked
    <3> QED
      BY <3>1, <3>2
  <2>3. job[v].run_id \in Runs /\ k.run_id \in Runs
    BY <2>1 DEF Jobs
  <2>4. JobLineage(job[v])'
    <3>1. CASE v = w
      BY <1>1, <1>3, <1>4, <2>1, <2>3, <3>1 DEF JobLineage
    <3>2. CASE v # w
      BY <1>1, <1>3, <1>4, <2>1, <2>3, <3>2 DEF JobLineage
    <3> QED
      BY <3>1, <3>2
  <2> QED
    BY <2>2, <2>4
<1>8. ASSUME NEW u \in Workers, NEW v \in Workers, u # v, Busy(u)', Busy(v)'
      PROVE  Apart(job[u], job[v])'
  <2>1. Busy(u) /\ Busy(v) /\ Apart(job[u], job[v])
    BY <1>1, <1>8 DEF DInv
  <2>2. job[u].run_id \in Runs
    BY <1>0, <2>1 DEF Busy, Jobs
  <2>3. Exists(job[u].run_id) => Exists(job[u].run_id)'
    BY <1>1, <1>3, <2>2
  <2>4. CASE u = w
    BY <1>1, <1>3, <1>8, <2>1, <2>2, <2>4 DEF Apart
  <2>5. CASE v = w
    BY <1>1, <1>3, <1>8, <2>1, <2>2, <2>5 DEF Apart
  <2>6. CASE u # w /\ v # w
    BY <1>1, <1>3, <2>1, <2>2, <2>6 DEF Apart
  <2> QED
    BY <2>4, <2>5, <2>6
<1>9. (faults = 0 => AuditPromised)'
  <2> SUFFICES ASSUME faults = 0
               PROVE  AuditPromised'
    OBVIOUS
  <2>1. AuditPromised
    BY DEF DInv
  <2>2. /\ \A r, s : StatusPromised(r, s) => StatusPromised(r, s)'
        /\ \A r : SuccessorPromised(r) => SuccessorPromised(r)'
    BY <1>0, PromisesStand
  <2>3. ASSUME NEW v \in Workers, Busy(v)'
        PROVE  StatusPromised(job[v].run_id, job[v].state)'
    <3>1. Busy(v) /\ StatusPromised(job[v].run_id, job[v].state)
      BY <1>1, <2>1, <2>3 DEF AuditPromised
    <3>2. job'[v].run_id = job[v].run_id /\ job'[v].state = job[v].state
      BY <1>1
    <3> QED
      BY <2>2, <3>1, <3>2
  <2>4. ASSUME NEW r \in Runs, Exists(r)'
        PROVE  /\ StatusPromised(r, runs[r])'
               /\ runs'[r].supersedes_run_id # None => SuccessorPromised(r)'
    <3>1. CASE r = q
      BY <1>3, <3>1
    <3>2. CASE r # q
      BY <1>3, <2>1, <2>2, <2>4, <3>2 DEF AuditPromised
    <3> QED
      BY <3>1, <3>2
  <2> QED
    BY <2>3, <2>4 DEF AuditPromised
<1> QED
  BY <1>2, <1>5, <1>6, <1>7, <1>8, <1>9 DEF DInv

\* save_run
LEMMA SaveRunOK ==
    ASSUME DInv, NEW w \in Workers, SaveRun(w)
    PROVE  DInv'
<1>1. /\ Busy(w) /\ job[w] \in Jobs /\ job[w].at = "save_run"
      /\ JobLinked(job[w]) /\ JobLineage(job[w])
      /\ UNCHANGED <<approvals, audit, faults>>
  BY DEF DInv, DTypeOK, SaveRun, At, Busy
<1>2. PICK label : label = AfterSave(job[w].event)
  OBVIOUS
<1>3. /\ label \in {"save_successor", "execute", "audit"}
      /\ label = "save_successor" <=> job[w].event = "run_superseded"
      /\ job[w].event \in Explaining => label = "audit"
  BY <1>2 DEF AfterSave, Explaining
<1>4. PICK k : k = [job[w] EXCEPT !.at = label]
  OBVIOUS
<1>5. /\ k \in Jobs /\ k.at = label /\ k.event = job[w].event
      /\ k.run_id = job[w].run_id /\ k.state = job[w].state /\ k # None
  <2>1. label \in {"save_run", "count", "execute", "save_successor", "audit",
                   "audit_successor"}
    BY <1>3
  <2>2. /\ k \in Jobs /\ k # None /\ k.at = label /\ k.event = job[w].event
        /\ k.run_id = job[w].run_id /\ k.state = job[w].state
    BY <1>1, <1>4, <2>1, GotoJob
  <2> QED
    BY <2>2
<1>6. /\ job' = [job EXCEPT ![w] = k] /\ runs' = [runs EXCEPT ![k.run_id] = k.state]
      /\ k.run_id \in Runs /\ k.state \in RunStates
  BY <1>2, <1>4, <1>5 DEF SaveRun, Goto, Jobs
<1>7. RowOK(k.state) /\ LinkOK(k.run_id, k.state, approvals)
  BY <1>1, <1>5 DEF JobLinked
<1>8. /\ Exists(k.run_id) =>
             /\ k.state.policy_profile = runs[k.run_id].policy_profile
             /\ k.state.supersedes_run_id = runs[k.run_id].supersedes_run_id
      /\ ~ Exists(k.run_id) => /\ k.event = "run_prepared"
                               /\ k.state.supersedes_run_id = None
  BY <1>1, <1>5 DEF JobLineage
<1>9. ASSUME ~ Exists(k.run_id), NEW v \in Workers, v # w, Busy(v)
      PROVE  /\ job[v].run_id # k.run_id
             /\ job[v].event = "run_superseded" =>
                    job[v].state.superseded_by_run_id # k.run_id
  BY <1>1, <1>5, <1>9 DEF DInv, Apart
<1>10. ASSUME NEW v \in Workers, Busy(v), job[v].event = "run_superseded",
              job[v].state.superseded_by_run_id = k.run_id
       PROVE  k.state.supersedes_run_id = job[v].run_id
  <2>1. Exists(k.run_id)
    BY <1>5, <1>8, <1>9, <1>10
  <2>2. JobLineage(job[v])
    BY <1>10 DEF DInv
  <2> QED
    BY <1>8, <1>10, <2>1, <2>2 DEF JobLineage
<1>11. k.state.supersedes_run_id # None =>
           /\ k.state.supersedes_run_id # k.run_id
           /\ Exists(k.state.supersedes_run_id)
           /\ runs[k.state.supersedes_run_id].policy_profile = k.state.policy_profile
  BY <1>6, <1>8 DEF DInv, PredecessorExists
<1>12. KeepsPromises(w, k)
  BY <1>1, <1>3, <1>5 DEF KeepsPromises
<1>13. job \in [Workers -> Jobs \cup {None}]
  BY DEF DInv, DTypeOK
<1>14. faults = 0 => StatusPromised(k.run_id, k.state)'
  <2>1. faults = 0 => StatusPromised(k.run_id, k.state)
    BY <1>1, <1>5 DEF DInv, AuditPromised
  <2> QED
    BY <1>5, <1>6, <1>12, <1>13, <2>1, PromisesStand
<1>15. faults = 0 /\ k.state.supersedes_run_id # None => SuccessorPromised(k.run_id)'
  <2>1. faults = 0 /\ k.state.supersedes_run_id # None => SuccessorPromised(k.run_id)
    BY <1>6, <1>8 DEF DInv, AuditPromised
  <2> QED
    BY <1>5, <1>6, <1>12, <1>13, <2>1, PromisesStand
<1> QED
  BY <1>1, <1>3, <1>5, <1>6, <1>7, <1>8, <1>9, <1>10, <1>11, <1>12, <1>14, <1>15, SaveStep

\* save_run of the successor
LEMMA SaveSuccessorOK ==
    ASSUME DInv, NEW w \in Workers, SaveSuccessor(w)
    PROVE  DInv'
<1>1. /\ Busy(w) /\ job[w] \in Jobs /\ job[w].at = "save_successor"
      /\ JobLinked(job[w]) /\ JobLineage(job[w])
      /\ UNCHANGED <<approvals, audit, faults>>
  BY DEF DInv, DTypeOK, SaveSuccessor, At, Busy
<1>2. PICK k : k = [job[w] EXCEPT !.at = "audit"]
  OBVIOUS
<1>3. /\ k \in Jobs /\ k.at = "audit" /\ k.event = job[w].event
      /\ k.run_id = job[w].run_id /\ k.state = job[w].state /\ k # None
  BY <1>1, <1>2, GotoJob
<1>4. PICK s, t : s = k.state.superseded_by_run_id /\ t = successor_of(k.state, k.run_id)
  OBVIOUS
<1>5. job' = [job EXCEPT ![w] = k] /\ runs' = [runs EXCEPT ![s] = t]
  BY <1>2, <1>3, <1>4 DEF SaveSuccessor, Goto
<1>6. /\ k.event = "run_superseded" /\ s \in Runs /\ s # k.run_id
      /\ k.run_id \in Runs /\ k.state \in RunStates
      /\ Exists(k.run_id) /\ k.state.policy_profile = runs[k.run_id].policy_profile
      /\ Exists(s) => runs[s].supersedes_run_id = k.run_id
  BY <1>1, <1>3, <1>4 DEF JobLineage, Jobs
<1>7. t \in RunStates /\ RowOK(t)
  BY <1>4, <1>6, SuccessorOK
<1>8. /\ t.policy_profile = k.state.policy_profile /\ t.supersedes_run_id = k.run_id
      /\ t.status = "prepared" /\ ~ HasRetryable(t)
  BY <1>4 DEF successor_of, prepare, HasRetryable
<1>9. LinkOK(s, t, approvals)
  BY <1>8 DEF LinkOK
<1>10. Exists(s) => /\ t.policy_profile = runs[s].policy_profile
                    /\ t.supersedes_run_id = runs[s].supersedes_run_id
  BY <1>6, <1>8, NoneAssumption DEF DInv, PredecessorExists
<1>11. ASSUME ~ Exists(s), NEW v \in Workers, v # w, Busy(v)
       PROVE  job[v].run_id # s
  <2>1. Apart(job[v], job[w])
    BY <1>1, <1>11 DEF DInv
  <2> QED
    BY <1>3, <1>4, <1>6, <1>11, <2>1 DEF Apart
<1>12. ASSUME NEW v \in Workers, Busy(v), job[v].event = "run_superseded",
              job[v].state.superseded_by_run_id = s
       PROVE  t.supersedes_run_id = job[v].run_id
  <2>1. v # w => Apart(job[v], job[w])
    BY <1>1, <1>12 DEF DInv
  <2> QED
    BY <1>3, <1>4, <1>6, <1>8, <1>12, <2>1 DEF Apart
<1>13. KeepsPromises(w, k)
  BY <1>1 DEF KeepsPromises
<1>14. StatusPromised(s, t)'
  BY <1>8 DEF StatusPromised, IsFinalized, FinalizedStatuses
<1>15. SuccessorPromised(s)'
  <2>1. job'[w] = k
    BY <1>3, <1>5, JobChange DEF DInv, DTypeOK
  <2> QED
    BY <1>3, <1>4, <1>6, <2>1 DEF SuccessorPromised, Busy
<1> QED
  BY <1>1, <1>3, <1>5, <1>6, <1>7, <1>8, <1>9, <1>10, <1>11, <1>12, <1>13, <1>14, <1>15,
     SaveStep

-----------------------------------------------------------------------------
\* The empty database and idle workers satisfy the invariant.
LEMMA DInitInv == DInit => DInv
<1> SUFFICES ASSUME DInit
             PROVE  DInv
  OBVIOUS
<1>1. /\ \A r \in Runs : ~ Exists(r)
      /\ \A w \in Workers : ~ Busy(w)
  BY DEF DInit, Init, Exists, Busy
<1>2. DTypeOK
  BY DEF DInit, Init, DTypeOK, TypeOK
<1> QED
  BY <1>1, <1>2 DEF DInv, RowsLinked, PredecessorExists, AuditPromised

\* Every step, of every worker, keeps the invariant, and so does a crash.
LEMMA DNextKeepsInv ==
    ASSUME DInv, [DNext]_dvars
    PROVE  DInv'
<1>1. ASSUME NEW w \in Workers, Step(w)
      PROVE  DInv'
  <2>1. CASE RejectResolve(w)
    <3>1. Busy(w) /\ job[w].at = "resolve_approval"
      BY <2>1 DEF RejectResolve, At
    <3> QED
      BY <2>1, <3>1, LeaveKeeps DEF RejectResolve, Finish
  <2> QED
    BY <1>1, <2>1, SaveApprovalOK, ResolveApprovalOK, CountPendingOK, SaveRunOK,
       SaveSuccessorOK, ExecuteOK, AppendAuditOK, AppendSuccessorAuditOK DEF Step
<1>2. ASSUME NEW w \in Workers, StoreError(w)
      PROVE  DInv'
  <2>1. Busy(w) /\ faults' = faults + 1 /\ UNCHANGED <<runs, approvals, audit>>
    BY <1>2 DEF StoreError
  <2>2. CASE job' = [job EXCEPT ![w] = None]
    BY <2>1, <2>2, LeaveKeeps
  <2>3. CASE At(w, "audit") /\ job[w].event = "run_superseded" /\ Goto(w, "audit_successor")
    BY <2>1, <2>3, AuditErrorOK DEF At, Goto
  <2> QED
    BY <1>2, <2>2, <2>3 DEF StoreError, Finish
<1>3. CASE Crash
  <2>1. faults' # 0 /\ faults' \in Nat
    BY <1>3 DEF Crash, DInv, DTypeOK
  <2>2. \A w \in Workers : ~ Busy(w)'
    BY <1>3 DEF Crash, Busy
  <2>3. DTypeOK'
    BY <1>3, <2>1 DEF Crash, DInv, DTypeOK, TypeOK
  <2>4. RowsLinked' /\ PredecessorExists'
    BY <1>3 DEF Crash, DInv, RowsLinked, PredecessorExists, Exists
  <2> QED
    BY <2>1, <2>2, <2>3, <2>4 DEF DInv
<1>4. CASE UNCHANGED dvars
  BY <1>4 DEF dvars, DInv, DTypeOK, TypeOK, RowsLinked, JobLinked, JobLineage, Apart,
              PredecessorExists, AuditPromised, StatusPromised, SuccessorPromised,
              Promised, Busy, Exists
<1> QED
  BY <1>1, <1>2, <1>3, <1>4, ArriveOK DEF DNext

\* Rows, approvals, lineage and audit trail stay consistent under any
\* interleaving of the handlers' store calls, any crash and any database error.
THEOREM DaemonSafe == DSpec => []DInv
<1> QED
  BY DInitInv, DNextKeepsInv, PTL DEF DSpec

\* No row offers an action for retry whose approval was not saved.
THEOREM RetryGated == DSpec => []RetryHasApproval
<1>1. DInv => RetryHasApproval
  BY DEF DInv, RowsLinked, LinkOK, RetryHasApproval
<1> QED
  BY <1>1, DaemonSafe, PTL

\* Only a denial blocks a run, however stale the row that a handler writes.
THEOREM DaemonOnlyDenialBlocks == DSpec => []BlockedByDenial
<1>1. DInv => BlockedByDenial
  BY DEF DInv, RowsLinked, RowOK, LinkOK, DecidedAs, BlockedByDenial
<1> QED
  BY <1>1, DaemonSafe, PTL

\* No retry is recommended without an approval on the run.
THEOREM DaemonNoRetryUnapproved == DSpec => []RecommendedWasApproved
<1>1. DInv => RecommendedWasApproved
  BY DEF DInv, RowsLinked, RowOK, LinkOK, DecidedAs, RecommendedWasApproved
<1> QED
  BY <1>1, DaemonSafe, PTL

\* A finalized run shows the outcome it was closed with.
THEOREM DaemonOutcomeShown == DSpec => []FinalizedMatchesOutcome
<1>1. DInv => FinalizedMatchesOutcome
  BY DEF DInv, RowsLinked, RowOK, FinalizedMatchesOutcome
<1> QED
  BY <1>1, DaemonSafe, PTL

\* Without faults the audit trail explains the status of every run that no
\* request is about to change.
THEOREM AuditComplete == DSpec => []AuditExplainsStatus
<1>1. ASSUME DInv
      PROVE  AuditExplainsStatus
  <2> SUFFICES ASSUME faults = 0, NEW r \in Runs, Exists(r), Quiet(r)
               PROVE  /\ IsFinalized(runs[r]) => <<r, "run_finalized">> \in audit
                      /\ runs[r].status = "awaiting_approval" =>
                             <<r, "approval_created">> \in audit
                      /\ runs[r].status = "blocked" => <<r, "approval_resolved">> \in audit
                      /\ runs[r].supersedes_run_id # None =>
                             <<r, "run_created_from_supersession">> \in audit
    BY DEF AuditExplainsStatus
  <2>1. \A event : Promised(r, event) => <<r, event>> \in audit
    BY DEF Promised, Quiet
  <2>2. SuccessorPromised(r) => <<r, "run_created_from_supersession">> \in audit
    BY DEF SuccessorPromised, Quiet
  <2>3. /\ StatusPromised(r, runs[r])
        /\ runs[r].supersedes_run_id # None => SuccessorPromised(r)
    BY <1>1 DEF DInv, AuditPromised
  <2> QED
    BY <2>1, <2>2, <2>3 DEF StatusPromised
<1> QED
  BY <1>1, DaemonSafe, PTL

-----------------------------------------------------------------------------
(***************************************************************************)
(* Supersessions.  Apart from run.supersede, which announces a new id, a   *)
(* step only copies or drops names of successors.                          *)
(***************************************************************************)
LEMMA NamesKeep ==
    ASSUME SuccessorsNamed,
           \A o, s \in Runs : Named(o, s)' => Named(o, s),
           \A r \in Runs : Exists(r) =>
               Exists(r)' /\ runs'[r].supersedes_run_id = runs[r].supersedes_run_id,
           \A r \in Runs : (~ Exists(r) /\ Exists(r)') =>
               \A o \in Runs : Named(o, r) => runs'[r].supersedes_run_id = o,
           \A w \in Workers : (Busy(w)' /\ ~ Exists(job[w].run_id)') =>
               /\ job'[w].run_id \in Runs
               /\ \/ Busy(w) /\ job[w].run_id = job'[w].run_id
                  \/ \A o \in Runs : ~ Named(o, job'[w].run_id),
           faults' = 0 =>
               /\ faults = 0
               /\ \A o, s \in Runs : (Announced(o, s)' /\ ~ Exists(s)') =>
                      Announced(o, s) \/ \E w \in Workers : SavesSuccessor(w, o, s)'
               /\ \A w \in Workers : \A o, s \in Runs : SavesSuccessor(w, o, s) =>
                      SavesSuccessor(w, o, s)' \/ Exists(s)'
    PROVE  SuccessorsNamed'
<1>1. \A o, p, s \in Runs : (Named(o, s)' /\ Named(p, s)') => o = p
  BY DEF SuccessorsNamed
<1>2. ASSUME NEW w \in Workers, Busy(w)', ~ Exists(job[w].run_id)', NEW o \in Runs
      PROVE  ~ Named(o, job[w].run_id)'
  <2>1. job'[w].run_id \in Runs /\ ~ Exists(job'[w].run_id)
    <3>1. job'[w].run_id \in Runs
      BY <1>2
    <3> QED
      BY <1>2, <3>1 DEF Exists
  <2>2. ~ Named(o, job'[w].run_id)
    BY <1>2, <2>1 DEF SuccessorsNamed
  <2>3. ASSUME NEW s \in Runs, s = job'[w].run_id
        PROVE  ~ Named(o, s)'
    BY <2>2, <2>3
  <2> QED
    BY <2>1, <2>3 DEF Named, RowNames, JobNames
<1>3. \A o, s \in Runs : (Named(o, s)' /\ Exists(s)') => runs'[s].supersedes_run_id = o
  BY DEF SuccessorsNamed
<1>4. ASSUME faults' = 0, NEW o \in Runs, NEW s \in Runs, Announced(o, s)', ~ Exists(s)'
      PROVE  \E w \in Workers : SavesSuccessor(w, o, s)'
  BY <1>4 DEF SuccessorsNamed
<1> QED
  BY <1>1, <1>2, <1>3, <1>4 DEF SuccessorsNamed

\* A job of w that moves on or ends, names what it named and leaves the table alone.
LEMMA MoveNames ==
    ASSUME DInv, SuccessorsNamed, NEW w \in Workers, Busy(w), NEW k \in Jobs \cup {None},
           job' = [job EXCEPT ![w] = k], UNCHANGED runs,
           k # None => /\ k.run_id = job[w].run_id
                       /\ k.state.superseded_by_run_id = job[w].state.superseded_by_run_id
                       /\ ~ Unannounced(w),
           faults' = 0 => faults = 0 /\ job[w].at # "save_successor"
    PROVE  SuccessorsNamed'
<1>1. /\ job'[w] = k /\ job \in [Workers -> Jobs \cup {None}]
      /\ \A v \in Workers : v # w => job'[v] = job[v]
  BY JobChange DEF DInv, DTypeOK
<1>2. \A v \in Workers : \A o, s : JobNames(v, o, s)' => JobNames(v, o, s)
  BY <1>1 DEF JobNames, Busy
<1>3. \A o, s : Named(o, s)' => Named(o, s)
  BY <1>2 DEF Named, RowNames, Exists
<1>4. ASSUME NEW o, NEW s, Announced(o, s)'
      PROVE  Announced(o, s)
  BY <1>1, <1>2, <1>4 DEF Announced, RowNames, Exists, Unannounced, At, Busy, JobNames
<1>5. ASSUME NEW v \in Workers, Busy(v)', ~ Exists(job[v].run_id)'
      PROVE  job'[v].run_id \in Runs /\ Busy(v) /\ job[v].run_id = job'[v].run_id
  BY <1>1, <1>5 DEF Busy, Jobs
<1>6. ASSUME faults' = 0, NEW v \in Workers, NEW o, NEW s, SavesSuccessor(v, o, s)
      PROVE  SavesSuccessor(v, o, s)'
  BY <1>1, <1>6 DEF SavesSuccessor, Succeeding, At, Busy
<1>7. \A r \in Runs : Exists(r)' <=> Exists(r)
  BY DEF Exists
<1> QED
  BY <1>3, <1>4, <1>5, <1>6, <1>7, NamesKeep

\* A request that reads a row and keeps the successor it names.
LEMMA ReadNames ==
    ASSUME DInv, SuccessorsNamed, NEW w \in Workers, ~ Busy(w), NEW j \in Jobs,
           job' = [job EXCEPT ![w] = j], UNCHANGED <<runs, faults>>,
           Exists(j.run_id),
           j.state.superseded_by_run_id = runs[j.run_id].superseded_by_run_id
    PROVE  SuccessorsNamed'
<1>1. /\ job'[w] = j /\ j # None /\ job \in [Workers -> Jobs \cup {None}]
      /\ \A v \in Workers : v # w => job'[v] = job[v]
  BY JobChange, DaemonAssumption DEF DInv, DTypeOK
<1>2. \A o, s : JobNames(w, o, s)' => RowNames(o, s)
  BY <1>1 DEF JobNames, RowNames
<1>3. \A v \in Workers : v # w =>
          \A o, s : /\ JobNames(v, o, s)' <=> JobNames(v, o, s)
                    /\ Unannounced(v)' <=> Unannounced(v)
  BY <1>1 DEF JobNames, Unannounced, At, Busy
<1>4. \A o, s : RowNames(o, s)' <=> RowNames(o, s)
  BY DEF RowNames, Exists
<1>5. \A o, s : /\ Named(o, s)' => Named(o, s)
                /\ Announced(o, s)' => Announced(o, s)
  BY <1>2, <1>3, <1>4 DEF Named, Announced
<1>6. ASSUME NEW v \in Workers, Busy(v)', ~ Exists(job[v].run_id)'
      PROVE  job'[v].run_id \in Runs /\ Busy(v) /\ job[v].run_id = job'[v].run_id
  BY <1>1, <1>6 DEF Busy, Jobs, Exists
<1>7. \A v \in Workers : \A o, s : SavesSuccessor(v, o, s) => SavesSuccessor(v, o, s)'
  BY <1>1 DEF SavesSuccessor, Succeeding, At, Busy
<1>8. \A r \in Runs : Exists(r)' <=> Exists(r)
  BY DEF Exists
<1> QED
  BY <1>5, <1>6, <1>7, <1>8, NamesKeep

\* run.prepare: nobody names the new run.
LEMMA PrepareNames ==
    ASSUME DInv, SuccessorsNamed, NEW w \in Workers, NEW r \in Runs, NEW policy \in Policies,
           BeginPrepare(w, r, policy)
    PROVE  SuccessorsNamed'
<1> DEFINE j == [at |-> "save_run", event |-> "run_prepared", run_id |-> r,
                 state |-> prepare(policy), approval_id |-> None, decision |-> None]
<1>1. /\ ~ Busy(w) /\ FreshRun(r) /\ job' = [job EXCEPT ![w] = j]
      /\ UNCHANGED <<runs, faults>>
  BY DEF BeginPrepare, Begin
<1>2. /\ j \in Jobs /\ j.run_id = r /\ j.state.superseded_by_run_id = None
      /\ j.at = "save_run"
  BY PrepareOK DEF Jobs, AllMethods, prepare
<1> HIDE DEF j
<1>3. /\ job'[w] = j /\ j # None /\ job \in [Workers -> Jobs \cup {None}]
      /\ \A v \in Workers : v # w => job'[v] = job[v]
  BY <1>1, <1>2, JobChange, DaemonAssumption DEF DInv, DTypeOK
<1>4. \A o \in Runs : ~ Named(o, r)
  BY <1>1, FreshApart DEF FreshRun, Named, RowNames, JobNames
<1>5. \A o, s \in Runs : ~ JobNames(w, o, s)'
  BY <1>2, <1>3, NoneAssumption DEF JobNames
<1>6. \A v \in Workers : v # w =>
          \A o, s : /\ JobNames(v, o, s)' <=> JobNames(v, o, s)
                    /\ Unannounced(v)' <=> Unannounced(v)
  BY <1>3 DEF JobNames, Unannounced, At, Busy
<1>7. \A o, s : RowNames(o, s)' <=> RowNames(o, s)
  BY <1>1 DEF RowNames, Exists
<1>8. \A o, s \in Runs : /\ Named(o, s)' => Named(o, s)
                         /\ Announced(o, s)' => Announced(o, s)
  BY <1>5, <1>6, <1>7 DEF Named, Announced
<1>9. ASSUME NEW v \in Workers, Busy(v)', ~ Exists(job[v].run_id)'
      PROVE  /\ job'[v].run_id \in Runs
             /\ \/ Busy(v) /\ job[v].run_id = job'[v].run_id
                \/ \A o \in Runs : ~ Named(o, job'[v].run_id)
  BY <1>2, <1>3, <1>4, <1>9 DEF Busy, Jobs
<1>10. \A v \in Workers : \A o, s : SavesSuccessor(v, o, s) => SavesSuccessor(v, o, s)'
  BY <1>1, <1>3 DEF SavesSuccessor, Succeeding, At, Busy
<1>11. \A r1 \in Runs : Exists(r1)' <=> Exists(r1)
  BY <1>1 DEF Exists
<1> QED
  BY <1>1, <1>8, <1>9, <1>10, <1>11, NamesKeep

\* run.supersede: the id is fresh, or named by a request for the same run already.
LEMMA SupersedeNames ==
    ASSUME DInv, SuccessorsNamed, NEW w \in Workers, NEW r \in Runs, NEW n \in Runs,
           BeginSupersede(w, r, n)
    PROVE  SuccessorsNamed'
<1> DEFINE j == [at |-> "save_run", event |-> "run_superseded", run_id |-> r,
                 state |-> supersede(runs[r], n), approval_id |-> None, decision |-> None]
<1>1. /\ ~ Busy(w) /\ Exists(r) /\ CanSupersede(runs[r])
      /\ FreshRun(n) \/ SameMillisecond(r, n)
      /\ job' = [job EXCEPT ![w] = j] /\ UNCHANGED <<runs, faults>>
  BY DEF BeginSupersede, Begin
<1>2. runs[r] \in RunStates /\ RowOK(runs[r])
  BY <1>1 DEF DInv, DTypeOK, TypeOK, RowsLinked, Exists
<1>3. /\ supersede(runs[r], n) \in RunStates
      /\ supersede(runs[r], n).superseded_by_run_id = n
  BY <1>1, <1>2, SupersedeOK DEF supersede, RunStates
<1>4. /\ j \in Jobs /\ j.run_id = r /\ j.state.superseded_by_run_id = n
      /\ j.at = "save_run" /\ j.event = "run_superseded"
  BY <1>3 DEF Jobs, AllMethods
<1> HIDE DEF j
<1>5. /\ job'[w] = j /\ j # None /\ job \in [Workers -> Jobs \cup {None}]
      /\ \A v \in Workers : v # w => job'[v] = job[v]
  BY <1>1, <1>4, JobChange, DaemonAssumption DEF DInv, DTypeOK
<1>6. Unannounced(w)' /\ \A o, s : JobNames(w, o, s)' <=> o = r /\ s = n
  BY <1>4, <1>5 DEF JobNames, Unannounced, At, Busy
<1>7. \A v \in Workers : v # w =>
          \A o, s : /\ JobNames(v, o, s)' <=> JobNames(v, o, s)
                    /\ Unannounced(v)' <=> Unannounced(v)
  BY <1>5 DEF JobNames, Unannounced, At, Busy
<1>8. \A o, s : ~ JobNames(w, o, s)
  BY <1>1 DEF JobNames
<1>9. \A o, s : RowNames(o, s)' <=> RowNames(o, s)
  BY <1>1 DEF RowNames, Exists
<1>10. \A o, s : /\ Named(o, s)' <=> Named(o, s) \/ (o = r /\ s = n)
                 /\ Announced(o, s)' => Announced(o, s)
  BY <1>6, <1>7, <1>8, <1>9 DEF Named, Announced
<1>11. ASSUME NEW v \in Workers, Busy(v)', ~ Exists(job[v].run_id)'
       PROVE  job'[v].run_id \in Runs /\ Busy(v) /\ job[v].run_id = job'[v].run_id
  BY <1>1, <1>4, <1>5, <1>11 DEF Busy, Jobs, Exists
<1>12. \A v \in Workers : \A o, s : SavesSuccessor(v, o, s) => SavesSuccessor(v, o, s)'
  BY <1>1, <1>5 DEF SavesSuccessor, Succeeding, At, Busy
<1>13. \A q \in Runs : Exists(q)' <=> Exists(q)
  BY <1>1 DEF Exists
<1>14. CASE SameMillisecond(r, n)
  <2>1. Named(r, n)
    BY <1>14 DEF SameMillisecond, Named, JobNames
  <2>2. \A o, s \in Runs : Named(o, s)' => Named(o, s)
    BY <1>10, <2>1
  <2> QED
    BY <1>1, <1>10, <1>11, <1>12, <1>13, <2>2, NamesKeep
<1>15. CASE FreshRun(n)
  <2>1. \A o \in Runs : ~ Named(o, n)
    BY <1>15, FreshApart DEF FreshRun, Named, RowNames, JobNames
  <2>2. ~ Exists(n) /\ \A v \in Workers : Busy(v) => job[v].run_id # n
    BY <1>15, FreshApart DEF FreshRun
  <2>3. \A o, p, s \in Runs : (Named(o, s)' /\ Named(p, s)') => o = p
    BY <1>10, <2>1 DEF SuccessorsNamed
  <2>4. ASSUME NEW v \in Workers, Busy(v)', ~ Exists(job[v].run_id)', NEW o \in Runs
        PROVE  ~ Named(o, job[v].run_id)'
    <3>1. /\ job'[v].run_id \in Runs /\ Busy(v) /\ job[v].run_id = job'[v].run_id
          /\ ~ Exists(job[v].run_id) /\ job[v].run_id # n
      BY <1>1, <1>11, <2>2, <2>4 DEF Exists
    <3>2. ~ Named(o, job[v].run_id)
      BY <3>1 DEF SuccessorsNamed
    <3>3. ASSUME NEW s, s = job'[v].run_id
          PROVE  ~ Named(o, s)'
      BY <1>10, <3>1, <3>2, <3>3
    <3> QED
      BY <3>3 DEF Named, RowNames, JobNames
  <2>5. \A o, s \in Runs : (Named(o, s)' /\ Exists(s)') => runs'[s].supersedes_run_id = o
    BY <1>1, <1>10, <1>13, <2>2 DEF SuccessorsNamed
  <2>6. ASSUME faults' = 0, NEW o \in Runs, NEW s \in Runs, Announced(o, s)', ~ Exists(s)'
        PROVE  \E v \in Workers : SavesSuccessor(v, o, s)'
    BY <1>1, <1>10, <1>12, <1>13, <2>6 DEF SuccessorsNamed
  <2> QED
    BY <2>3, <2>4, <2>5, <2>6 DEF SuccessorsNamed
<1> QED
  BY <1>1, <1>14, <1>15

\* save_run
LEMMA SaveRunNames ==
    ASSUME DInv, SuccessorsNamed, NEW w \in Workers, SaveRun(w)
    PROVE  SuccessorsNamed'
<1>1. /\ Busy(w) /\ job[w] \in Jobs /\ job[w].at = "save_run" /\ JobLineage(job[w])
      /\ UNCHANGED faults
      /\ job \in [Workers -> Jobs \cup {None}] /\ runs \in [Runs -> RunStates \cup {None}]
  BY DEF DInv, DTypeOK, TypeOK, SaveRun, At, Busy
<1>2. PICK q, t, label : /\ q = job[w].run_id /\ t = job[w].state
                         /\ label = AfterSave(job[w].event)
  OBVIOUS
<1>3. /\ label \in {"save_successor", "execute", "audit"}
      /\ job[w].event = "run_superseded" => label = "save_successor"
  BY <1>2 DEF AfterSave
<1>4. PICK k : k = [job[w] EXCEPT !.at = label]
  OBVIOUS
<1>5. /\ k \in Jobs /\ k # None /\ k.at = label /\ k.event = job[w].event
      /\ k.run_id = q /\ k.state = t
  <2>1. label \in {"save_run", "count", "execute", "save_successor", "audit",
                   "audit_successor"}
    BY <1>3
  <2>2. /\ k \in Jobs /\ k # None /\ k.at = label /\ k.event = job[w].event
        /\ k.run_id = job[w].run_id /\ k.state = job[w].state
    BY <1>1, <1>4, <2>1, GotoJob
  <2> QED
    BY <1>2, <2>2
<1>6. job' = [job EXCEPT ![w] = k] /\ runs' = [runs EXCEPT ![q] = t]
  BY <1>2, <1>4 DEF SaveRun, Goto
<1>7. q \in Runs /\ t \in RunStates /\ t # None
  BY <1>1, <1>2, NoneAssumption DEF Jobs
<1>8. /\ job'[w] = k
      /\ \A v \in Workers : v # w => job'[v] = job[v]
  BY <1>1, <1>5, <1>6, JobChange
<1>9. /\ \A r \in Runs : Exists(r)' <=> (Exists(r) \/ r = q)
      /\ runs'[q] = t
      /\ \A r \in Runs : r # q => runs'[r] = runs[r]
  BY <1>1, <1>6, <1>7 DEF Exists
<1>10. \A v \in Workers : \A o, s : JobNames(v, o, s)' <=> JobNames(v, o, s)
  BY <1>1, <1>2, <1>5, <1>8 DEF JobNames, Busy
<1>11. \A o, s \in Runs : RowNames(o, s)' => RowNames(o, s) \/ JobNames(w, o, s)
  BY <1>1, <1>2, <1>9 DEF RowNames, JobNames
<1>12. \A o, s \in Runs : Named(o, s)' => Named(o, s)
  BY <1>10, <1>11 DEF Named
<1>13. \A r \in Runs : Exists(r) =>
           Exists(r)' /\ runs'[r].supersedes_run_id = runs[r].supersedes_run_id
  BY <1>1, <1>2, <1>9 DEF JobLineage
<1>14. ASSUME NEW r \in Runs, ~ Exists(r), Exists(r)', NEW o \in Runs
       PROVE  ~ Named(o, r)
  BY <1>1, <1>2, <1>9, <1>14 DEF SuccessorsNamed
<1>15. ASSUME NEW v \in Workers, Busy(v)', ~ Exists(job[v].run_id)'
       PROVE  job'[v].run_id \in Runs /\ Busy(v) /\ job[v].run_id = job'[v].run_id
  BY <1>1, <1>2, <1>5, <1>8, <1>15 DEF Busy, Jobs
<1>16. ASSUME NEW o \in Runs, NEW s \in Runs, Announced(o, s)'
       PROVE  Announced(o, s) \/ SavesSuccessor(w, o, s)'
  <2>1. JobNames(w, o, s) /\ Unannounced(w) => SavesSuccessor(w, o, s)'
    BY <1>2, <1>3, <1>5, <1>8 DEF JobNames, Unannounced, At, SavesSuccessor, Succeeding, Busy
  <2>2. \A v \in Workers : v # w => (Unannounced(v)' <=> Unannounced(v))
    BY <1>8 DEF Unannounced, At, Busy
  <2> QED
    BY <1>10, <1>11, <1>16, <2>1, <2>2 DEF Announced
<1>17. \A v \in Workers : \A o, s : SavesSuccessor(v, o, s) => SavesSuccessor(v, o, s)'
  BY <1>1, <1>8 DEF SavesSuccessor, Succeeding, At, Busy
<1> QED
  BY <1>1, <1>12, <1>13, <1>14, <1>15, <1>16, <1>17, NamesKeep

\* save_run of the successor: all who name it are the run it succeeds.
LEMMA SaveSuccessorNames ==
    ASSUME DInv, SuccessorsNamed, NEW w \in Workers, SaveSuccessor(w)
    PROVE  SuccessorsNamed'
<1>1. /\ Busy(w) /\ job[w] \in Jobs /\ job[w].at = "save_successor" /\ JobLineage(job[w])
      /\ UNCHANGED faults
      /\ job \in [Workers -> Jobs \cup {None}] /\ runs \in [Runs -> RunStates \cup {None}]
  BY DEF DInv, DTypeOK, TypeOK, SaveSuccessor, At, Busy
<1>2. PICK o1, n, t, k : /\ o1 = job[w].run_id /\ n = job[w].state.superseded_by_run_id
                         /\ t = successor_of(job[w].state, o1)
                         /\ k = [job[w] EXCEPT !.at = "audit"]
  OBVIOUS
<1>3. /\ k \in Jobs /\ k # None /\ k.at = "audit" /\ k.event = job[w].event
      /\ k.run_id = o1 /\ k.state = job[w].state
  BY <1>1, <1>2, GotoJob
<1>4. job' = [job EXCEPT ![w] = k] /\ runs' = [runs EXCEPT ![n] = t]
  BY <1>2 DEF SaveSuccessor, Goto
<1>5. /\ n \in Runs /\ o1 \in Runs
      /\ Exists(n) => runs[n].supersedes_run_id = o1
      /\ job[w].event = "run_superseded"
  BY <1>1, <1>2 DEF JobLineage, Jobs
<1>6. t \in RunStates /\ t # None
  BY <1>1, <1>2, <1>5, SuccessorOK, NoneAssumption DEF Jobs
<1>7. t.supersedes_run_id = o1 /\ t.superseded_by_run_id = None
  BY <1>2 DEF successor_of, prepare
<1>8. /\ job'[w] = k
      /\ \A v \in Workers : v # w => job'[v] = job[v]
  BY <1>1, <1>3, <1>4, JobChange
<1>9. /\ \A r \in Runs : Exists(r)' <=> (Exists(r) \/ r = n)
      /\ runs'[n] = t
      /\ \A r \in Runs : r # n => runs'[r] = runs[r]
  BY <1>1, <1>4, <1>5, <1>6 DEF Exists
<1>10. \A v \in Workers : \A o, s : JobNames(v, o, s)' <=> JobNames(v, o, s)
  <2>1. Busy(w) /\ Busy(w)' /\ job'[w].run_id = job[w].run_id /\ job'[w].state = job[w].state
    BY <1>1, <1>2, <1>3, <1>8 DEF Busy
  <2> QED
    BY <1>8, <2>1 DEF JobNames, Busy
<1>11. \A o, s \in Runs : RowNames(o, s)' => RowNames(o, s)
  BY <1>7, <1>9, NoneAssumption DEF RowNames
<1>12. \A o, s \in Runs : Named(o, s)' => Named(o, s)
  BY <1>10, <1>11 DEF Named
<1>13. \A r \in Runs : Exists(r) =>
           Exists(r)' /\ runs'[r].supersedes_run_id = runs[r].supersedes_run_id
  BY <1>5, <1>7, <1>9
<1>14. Named(o1, n)
  BY <1>1, <1>2 DEF Named, JobNames
<1>15. ASSUME NEW r \in Runs, ~ Exists(r), Exists(r)', NEW o \in Runs, Named(o, r)
       PROVE  runs'[r].supersedes_run_id = o
  BY <1>5, <1>7, <1>9, <1>14, <1>15 DEF SuccessorsNamed
<1>16. ASSUME NEW v \in Workers, Busy(v)', ~ Exists(job[v].run_id)'
       PROVE  job'[v].run_id \in Runs /\ Busy(v) /\ job[v].run_id = job'[v].run_id
  BY <1>1, <1>2, <1>3, <1>8, <1>16 DEF Busy, Jobs
<1>17. ASSUME NEW o \in Runs, NEW s \in Runs, Announced(o, s)'
       PROVE  Announced(o, s)
  <2>1. \A v \in Workers : Unannounced(v) => Unannounced(v)'
    BY <1>1, <1>8 DEF Unannounced, At, Busy
  <2> QED
    BY <1>10, <1>11, <1>17, <2>1 DEF Announced
<1>18. \A v \in Workers : \A o, s \in Runs : SavesSuccessor(v, o, s) =>
           SavesSuccessor(v, o, s)' \/ Exists(s)'
  BY <1>2, <1>8, <1>9 DEF SavesSuccessor, Succeeding, At, Busy
<1> QED
  BY <1>1, <1>12, <1>13, <1>15, <1>16, <1>17, <1>18, NamesKeep

\* Whatever request arrives.
LEMMA ArriveNames ==
    ASSUME DInv, SuccessorsNamed, NEW w \in Workers, Arrive(w)
    PROVE  SuccessorsNamed'
<1>1. \A r \in Runs : Exists(r) => runs[r] \in RunStates /\ RowOK(runs[r])
  BY DEF DInv, DTypeOK, TypeOK, RowsLinked, Exists
<1>2. ASSUME NEW event \in AllMethods, NEW r \in Runs, Exists(r), NEW t \in RunStates,
             SameLineage(runs[r], t), NEW at \in {"save_run", "save_approval"},
             Begin(w, event, r, t, at)
      PROVE  SuccessorsNamed'
  <2> DEFINE j == [at |-> at, event |-> event, run_id |-> r, state |-> t,
                   approval_id |-> None, decision |-> None]
  <2>1. j \in Jobs /\ j.run_id = r /\ j.state = t
    BY DEF Jobs
  <2>2. ~ Busy(w) /\ job' = [job EXCEPT ![w] = j] /\ UNCHANGED <<runs, faults>>
    BY <1>2 DEF Begin
  <2> HIDE DEF j
  <2> QED
    BY <1>2, <2>1, <2>2, ReadNames DEF SameLineage
<1>3. {"replan_performed", "approval_created", "patch_applied", "tests_run", "run_finalized",
       "run_reopened", "run_archived", "run_unarchived", "organised"} \subseteq AllMethods
  BY DEF AllMethods
<1>4. ASSUME NEW r \in Runs, NEW failure \in Failures \cup {None}, BeginReplan(w, r, failure)
      PROVE  SuccessorsNamed'
  BY <1>1, <1>2, <1>3, <1>4, ReplanOK DEF BeginReplan
<1>5. ASSUME NEW r \in Runs, NEW request \in Requests, NEW a \in Approvals,
             BeginGate(w, r, request, a)
      PROVE  SuccessorsNamed'
  BY <1>1, <1>2, <1>3, <1>5, CreateApprovalOK, CreateApprovalChanges DEF BeginGate
<1>6. ASSUME NEW r \in Runs, NEW request \in Requests, BeginExecute(w, r, request)
      PROVE  SuccessorsNamed'
  <2>1. PICK event \in {"patch_applied", "tests_run"} :
            Exists(r) /\ Begin(w, event, r, clear_retryable(runs[r]), "save_run")
    BY <1>6 DEF BeginExecute
  <2> QED
    BY <1>1, <1>2, <1>3, <2>1, ClearRetryableOK, ClosingFollows
<1>7. ASSUME NEW r \in Runs, NEW a \in Approvals, NEW decision \in {"approve", "deny"},
             BeginResolve(w, r, a, decision)
      PROVE  SuccessorsNamed'
  <2> DEFINE j == [at |-> "resolve_approval", event |-> "approval_resolved", run_id |-> r,
                   state |-> runs[r], approval_id |-> a, decision |-> decision]
  <2>1. ~ Busy(w) /\ Exists(r) /\ job' = [job EXCEPT ![w] = j] /\ UNCHANGED <<runs, faults>>
    BY <1>7 DEF BeginResolve
  <2>2. j \in Jobs /\ j.run_id = r /\ j.state = runs[r]
    BY <1>1, <2>1 DEF Jobs, AllMethods
  <2> HIDE DEF j
  <2> QED
    BY <2>1, <2>2, ReadNames
<1>8. ASSUME NEW r \in Runs, NEW kind \in Outcomes, BeginFinalize(w, r, kind)
      PROVE  SuccessorsNamed'
  BY <1>1, <1>2, <1>3, <1>8, FinalizeOK, ClosingFollows, LifecycleAssumption
     DEF BeginFinalize
<1>9. ASSUME NEW r \in Runs, BeginReopen(w, r)
      PROVE  SuccessorsNamed'
  BY <1>1, <1>2, <1>3, <1>9, ReopenOK, ClosingFollows DEF BeginReopen
<1>10. ASSUME NEW r \in Runs, BeginArchive(w, r)
       PROVE  SuccessorsNamed'
  BY <1>1, <1>2, <1>3, <1>10, ArchiveOK, ClosingFollows DEF BeginArchive
<1>11. ASSUME NEW r \in Runs, BeginUnarchive(w, r)
       PROVE  SuccessorsNamed'
  BY <1>1, <1>2, <1>3, <1>11, UnarchiveOK, ClosingFollows DEF BeginUnarchive
<1>12. ASSUME NEW r \in Runs, BeginOrganise(w, r)
       PROVE  SuccessorsNamed'
  BY <1>1, <1>2, <1>3, <1>12 DEF BeginOrganise, SameLineage
<1> QED
  BY <1>4, <1>5, <1>6, <1>7, <1>8, <1>9, <1>10, <1>11, <1>12, PrepareNames, SupersedeNames
     DEF Arrive

\* Every step keeps the names of successors in order.
LEMMA NextNames ==
    ASSUME DInv, SuccessorsNamed, [DNext]_dvars
    PROVE  SuccessorsNamed'
<1>1. ASSUME NEW w \in Workers, Step(w) \/ StoreError(w)
      PROVE  SuccessorsNamed'
  <2>1. Busy(w) /\ job[w] \in Jobs /\ JobLinked(job[w]) /\ JobLineage(job[w]) /\ faults \in Nat
    BY <1>1 DEF DInv, DTypeOK, Step, StoreError, At, Busy, SaveApproval, ResolveApproval,
                RejectResolve, CountPending, SaveRun, SaveSuccessor, Execute, AppendAudit,
                AppendSuccessorAudit
  <2>2. ASSUME NEW label \in {"save_run", "count", "audit", "audit_successor"},
               Goto(w, label), UNCHANGED runs, ~ Unannounced(w),
               faults' = 0 => faults = 0 /\ job[w].at # "save_successor"
        PROVE  SuccessorsNamed'
    <3>1. PICK k : k = [job[w] EXCEPT !.at = label]
      OBVIOUS
    <3>2. k \in Jobs /\ k.run_id = job[w].run_id /\ k.state = job[w].state
      BY <2>1, <3>1, GotoJob
    <3>3. job' = [job EXCEPT ![w] = k]
      BY <2>2, <3>1 DEF Goto
    <3> QED
      BY <2>1, <2>2, <3>2, <3>3, MoveNames
  <2>3. ASSUME Finish(w), UNCHANGED runs,
               faults' = 0 => faults = 0 /\ job[w].at # "save_successor"
        PROVE  SuccessorsNamed'
    BY <2>1, <2>3, MoveNames DEF Finish
  <2>4. CASE SaveApproval(w)
    BY <2>2, <2>4 DEF SaveApproval, At, Unannounced
  <2>5. CASE ResolveApproval(w)
    BY <2>2, <2>5 DEF ResolveApproval, At, Unannounced
  <2>6. CASE RejectResolve(w)
    BY <2>3, <2>6 DEF RejectResolve, At
  <2>7. CASE CountPending(w)
    <3>1. PICK j, nothing_pending, t, k :
              /\ j = job[w]
              /\ nothing_pending = (PendingOf(j.run_id) = {})
              /\ t = resolve(j.state, j.decision, nothing_pending)
              /\ k = [[j EXCEPT !.at = "save_run"] EXCEPT !.state = t]
      OBVIOUS
    <3>2. /\ job' = [job EXCEPT ![w] = k] /\ UNCHANGED <<runs, faults>>
          /\ j.at = "count" /\ j \in Jobs
      BY <2>1, <2>7, <3>1 DEF CountPending, At
    <3>3. j.state \in RunStates /\ RowOK(j.state) /\ j.decision \in {"approve", "deny"}
          /\ nothing_pending \in BOOLEAN
      BY <2>1, <3>1, <3>2 DEF JobLinked, Jobs
    <3>4. t \in RunStates
      BY <3>1, <3>3, ResolveOK
    <3>5. SameLineage(j.state, t)
      BY <3>1, <3>3, ResolveChanges
    <3>6. k \in Jobs /\ k.run_id = j.run_id /\ k.state = t
      BY <3>1, <3>2, <3>4 DEF Jobs
    <3> QED
      BY <2>1, <3>1, <3>2, <3>5, <3>6, MoveNames DEF SameLineage, Unannounced, At
  <2>8. CASE Execute(w)
    BY <2>2, <2>3, <2>8 DEF Execute, At, Unannounced
  <2>9. CASE AppendAudit(w)
    BY <2>2, <2>3, <2>9 DEF AppendAudit, At, Unannounced
  <2>10. CASE AppendSuccessorAudit(w)
    BY <2>3, <2>10 DEF AppendSuccessorAudit, At
  <2>11. CASE StoreError(w)
    <3>1. faults' # 0 /\ UNCHANGED runs
      BY <2>1, <2>11 DEF StoreError
    <3> QED
      BY <2>2, <2>3, <2>11, <3>1 DEF StoreError, At, Unannounced
  <2> QED
    BY <1>1, <2>4, <2>5, <2>6, <2>7, <2>8, <2>9, <2>10, <2>11, SaveRunNames,
       SaveSuccessorNames DEF Step
<1>2. CASE Crash
  <2>1. faults' # 0 /\ UNCHANGED runs /\ \A w \in Workers : ~ Busy(w)'
    BY <1>2 DEF Crash, DInv, DTypeOK, Busy
  <2>2. \A o, s : Named(o, s)' => Named(o, s)
    BY <2>1 DEF Named, RowNames, JobNames, Exists
  <2>3. \A r \in Runs : Exists(r)' <=> Exists(r)
    BY <2>1 DEF Exists
  <2> QED
    BY <2>1, <2>2, <2>3, NamesKeep
<1>3. CASE UNCHANGED dvars
  BY <1>3 DEF dvars, SuccessorsNamed, Named, RowNames, JobNames, Announced, Unannounced,
              SavesSuccessor, Succeeding, At, Busy, Exists
<1> QED
  BY <1>1, <1>2, <1>3, ArriveNames DEF DNext

\* A run names a successor only when that run exists and names it back, or is
\* about to be saved, or a fault came in between.
THEOREM SupersessionsWhole == DSpec => []SupersessionWhole
<1>1. DInit => DInv /\ SuccessorsNamed
  BY DInitInv DEF DInit, Init, SuccessorsNamed, Named, RowNames, JobNames, Announced,
                  Exists, Busy
<1>2. DInv /\ SuccessorsNamed /\ [DNext]_dvars => (DInv /\ SuccessorsNamed)'
  BY DNextKeepsInv, NextNames
<1>3. DInv /\ SuccessorsNamed => SupersessionWhole
  <2> SUFFICES ASSUME DInv, SuccessorsNamed, NEW o \in Runs, Exists(o),
                      NEW s, s = runs[o].superseded_by_run_id, s # None
               PROVE  IF Exists(s)
                      THEN runs[s].supersedes_run_id = o
                      ELSE faults > 0 \/ \E w \in Workers : Succeeding(w, s) /\ job[w].run_id = o
    BY DEF SupersessionWhole
  <2>1. s \in Runs /\ faults \in Nat
    BY DEF DInv, DTypeOK, TypeOK, RunStates, Exists
  <2>2. RowNames(o, s) /\ Named(o, s) /\ Announced(o, s)
    BY DEF RowNames, Named, Announced
  <2> QED
    BY <2>1, <2>2 DEF SuccessorsNamed, SavesSuccessor
<1> QED
  BY <1>1, <1>2, <1>3, PTL DEF DSpec

\* No interleaving of handlers decides an approval twice or moves it to another
\* run or action.
THEOREM DaemonDecisionsStand == DSpec => DecidedOnce
<1>1. ASSUME DInv, [DNext]_dvars
      PROVE  [ApprovalsOnlyDecided]_vars
  <2>0. approvals \in [Approvals -> PendingApprovals \cup {None}]
    BY <1>1 DEF DInv, DTypeOK, TypeOK
  <2>1. ASSUME NEW w \in Workers, SaveApproval(w)
        PROVE  ApprovalsOnlyDecided
    <3>1. PICK a, row : approvals' = [approvals EXCEPT ![a] = row]
                        /\ a = job[w].state.retryable_action.approval
      BY <2>1 DEF SaveApproval
    <3>2. approvals[a] = None
      BY <1>1, <2>1, <3>1 DEF DInv, JobLinked, SaveApproval, At
    <3> QED
      BY <2>0, <3>1, <3>2 DEF ApprovalsOnlyDecided
  <2>2. ASSUME NEW w \in Workers, ResolveApproval(w)
        PROVE  ApprovalsOnlyDecided
    <3>1. PICK a, verdict : /\ a = job[w].approval_id
                            /\ verdict = Verdict(job[w].decision)
      OBVIOUS
    <3>2. a \in Approvals /\ approvals[a] # None /\ approvals[a].status = "pending"
      BY <1>1, <2>2, <3>1 DEF DInv, JobLinked, ResolveApproval, At
    <3>3. PICK row : row = [approvals[a] EXCEPT !.status = verdict]
      OBVIOUS
    <3>4. approvals' = [approvals EXCEPT ![a] = row]
      BY <2>2, <3>1, <3>3 DEF ResolveApproval, Verdict
    <3>5. verdict \in {"approved", "denied"} /\ approvals[a] \in PendingApprovals
      BY <2>0, <3>1, <3>2 DEF Verdict
    <3>6. /\ row \in PendingApprovals /\ row # None
          /\ row.run_id = approvals[a].run_id /\ row.action = approvals[a].action
      BY <3>3, <3>5, NoneAssumption DEF PendingApprovals
    <3> QED
      BY <2>0, <3>2, <3>4, <3>6 DEF ApprovalsOnlyDecided
  <2>3. UNCHANGED approvals => ApprovalsOnlyDecided
    BY DEF ApprovalsOnlyDecided
  <2>4. ASSUME NEW w \in Workers, Arrive(w)
        PROVE  UNCHANGED approvals
    BY <2>4 DEF Arrive, BeginPrepare, BeginReplan, BeginGate, BeginExecute, BeginResolve,
                BeginFinalize, BeginReopen, BeginSupersede, BeginArchive, BeginUnarchive,
                BeginOrganise, Begin
  <2>5. ASSUME NEW w \in Workers, Step(w), ~ SaveApproval(w), ~ ResolveApproval(w)
        PROVE  UNCHANGED approvals
    BY <2>5 DEF Step, RejectResolve, CountPending, SaveRun, SaveSuccessor, Execute,
                AppendAudit, AppendSuccessorAudit
  <2> QED
    BY <1>1, <2>1, <2>2, <2>3, <2>4, <2>5 DEF DNext, dvars, StoreError, Crash
<1> QED
  BY <1>1, DaemonSafe, PTL DEF DSpec, DecidedOnce

-----------------------------------------------------------------------------
(***************************************************************************)
(* One worker and no fault.  Between its first read and its save_run the   *)
(* only job carries what the core function makes of the row that is still  *)
(* in the table, and the guard of the handler still holds.                 *)
(***************************************************************************)
Computed(j) ==
    /\ j.event = "run_prepared" =>
           ~ Exists(j.run_id) /\ \E policy \in Policies : j.state = prepare(policy)
    /\ j.event # "run_prepared" => Exists(j.run_id)
    /\ j.event = "replan_performed" =>
           \E failure \in Failures \cup {None} : j.state = replan(runs[j.run_id], failure)
    /\ j.event = "approval_created" =>
           \E request \in Requests, a \in Approvals :
               /\ RequiresApproval(request, runs[j.run_id].policy_profile)
               /\ j.state = create_approval(runs[j.run_id], request, a)
               /\ approvals[a] =
                      IF j.at = "save_approval" THEN None
                      ELSE [run_id |-> j.run_id, action |-> request, status |-> "pending"]
    /\ j.event \in {"patch_applied", "tests_run"} =>
           \E request \in Requests :
               /\ ~ RequiresApproval(request, runs[j.run_id].policy_profile)
               /\ j.state = clear_retryable(runs[j.run_id])
    /\ j.event = "approval_resolved" =>
           /\ j.approval_id \in Approvals
           /\ j.decision \in {"approve", "deny"}
           /\ approvals[j.approval_id] # None
           /\ approvals[j.approval_id].run_id = j.run_id
           /\ j.at \in {"resolve_approval", "count"} => j.state = runs[j.run_id]
           /\ j.at = "save_run" =>
                  /\ approvals[j.approval_id].status = Verdict(j.decision)
                  /\ j.state = resolve(runs[j.run_id], j.decision, PendingOf(j.run_id) = {})
    /\ j.event # "approval_resolved" => j.approval_id = None
    /\ j.event = "run_finalized" =>
           /\ CanFinalize(runs[j.run_id])
           /\ \E kind \in Outcomes : j.state = finalize(runs[j.run_id], kind)
    /\ j.event = "run_reopened" =>
           /\ CanReopen(runs[j.run_id]) /\ runs[j.run_id].reopen_count < MaxReopens
           /\ j.state = reopen(runs[j.run_id])
    /\ j.event = "run_superseded" =>
           \E s \in Runs : /\ CanSupersede(runs[j.run_id]) /\ ~ Exists(s)
                           /\ j.state = supersede(runs[j.run_id], s)
    /\ j.event = "run_archived" =>
           CanArchive(runs[j.run_id]) /\ j.state = archive(runs[j.run_id])
    /\ j.event = "run_unarchived" =>
           CanUnarchive(runs[j.run_id]) /\ j.state = unarchive(runs[j.run_id])
    /\ j.event = "organised" => j.state = runs[j.run_id]

\* The store calls up to save_run.
Unsaved == {"save_approval", "resolve_approval", "count", "save_run"}

SerialInv ==
    /\ DInv
    /\ \A w \in Workers : (Busy(w) /\ job[w].at \in Unsaved) => Computed(job[w])

\* A handler that starts carries what its core function computed.
LEMMA ArriveComputes ==
    ASSUME SerialInv, NEW w \in Workers, Workers = {w}, Arrive(w)
    PROVE  /\ ~ Busy(w) /\ UNCHANGED <<runs, approvals>>
           /\ Computed(job[w])'
           /\ job'[w].at \in {"save_approval", "resolve_approval", "save_run"}
           /\ job'[w].at = "save_run" =>
                  job'[w].event # "approval_created" /\ job'[w].approval_id = None
<1> DEFINE Goal == /\ ~ Busy(w) /\ UNCHANGED <<runs, approvals>>
                   /\ Computed(job[w])'
                   /\ job'[w].at \in {"save_approval", "resolve_approval", "save_run"}
                   /\ job'[w].at = "save_run" =>
                          job'[w].event # "approval_created" /\ job'[w].approval_id = None
<1>0. job \in [Workers -> Jobs \cup {None}]
  BY DEF SerialInv, DInv, DTypeOK
<1>1. ASSUME NEW e, NEW r, NEW t, NEW l, Begin(w, e, r, t, l)
      PROVE  /\ ~ Busy(w) /\ UNCHANGED <<runs, approvals>>
             /\ job'[w].at = l /\ job'[w].event = e /\ job'[w].run_id = r
             /\ job'[w].state = t /\ job'[w].approval_id = None
  BY <1>0, <1>1 DEF Begin
<1>2. ASSUME NEW r \in Runs, NEW policy \in Policies, BeginPrepare(w, r, policy)
      PROVE  Goal
  BY <1>1, <1>2 DEF BeginPrepare, FreshRun, Computed, Exists
<1>3. ASSUME NEW r \in Runs, NEW failure \in Failures \cup {None}, BeginReplan(w, r, failure)
      PROVE  Goal
  BY <1>1, <1>3 DEF BeginReplan, Computed, Exists
<1>4. ASSUME NEW r \in Runs, NEW request \in Requests, NEW a \in Approvals,
             BeginGate(w, r, request, a)
      PROVE  Goal
  BY <1>1, <1>4 DEF BeginGate, Computed, Exists
<1>5. ASSUME NEW r \in Runs, NEW request \in Requests, BeginExecute(w, r, request)
      PROVE  Goal
  <2>1. PICK e \in {"patch_applied", "tests_run"} :
            Begin(w, e, r, clear_retryable(runs[r]), "save_run")
    BY <1>5 DEF BeginExecute
  <2>2. Exists(r) /\ ~ RequiresApproval(request, runs[r].policy_profile)
    BY <1>5 DEF BeginExecute
  <2> QED
    BY <1>1, <2>1, <2>2 DEF Computed, Exists
<1>6. ASSUME NEW r \in Runs, NEW a \in Approvals, NEW decision \in {"approve", "deny"},
             BeginResolve(w, r, a, decision)
      PROVE  Goal
  <2>1. /\ job'[w].at = "resolve_approval" /\ job'[w].event = "approval_resolved"
        /\ job'[w].run_id = r /\ job'[w].state = runs[r]
        /\ job'[w].approval_id = a /\ job'[w].decision = decision
    BY <1>0, <1>6 DEF BeginResolve
  <2> QED
    BY <1>6, <2>1 DEF BeginResolve, Computed, Exists
<1>7. ASSUME NEW r \in Runs, NEW kind \in Outcomes, BeginFinalize(w, r, kind)
      PROVE  Goal
  BY <1>1, <1>7 DEF BeginFinalize, Computed, Exists
<1>8. ASSUME NEW r \in Runs, BeginReopen(w, r)
      PROVE  Goal
  BY <1>1, <1>8 DEF BeginReopen, Computed, Exists
<1>9. ASSUME NEW r \in Runs, NEW s \in Runs, BeginSupersede(w, r, s)
      PROVE  Goal
  <2>1. ~ Busy(w)
    BY <1>9 DEF BeginSupersede, Begin
  <2>2. ~ Exists(s)
    BY <1>9, <2>1 DEF BeginSupersede, SameMillisecond, FreshRun
  <2> QED
    BY <1>1, <1>9, <2>2 DEF BeginSupersede, Computed, Exists
<1>10. ASSUME NEW r \in Runs, BeginArchive(w, r)
       PROVE  Goal
  BY <1>1, <1>10 DEF BeginArchive, Computed, Exists
<1>11. ASSUME NEW r \in Runs, BeginUnarchive(w, r)
       PROVE  Goal
  BY <1>1, <1>11 DEF BeginUnarchive, Computed, Exists
<1>12. ASSUME NEW r \in Runs, BeginOrganise(w, r)
       PROVE  Goal
  BY <1>1, <1>12 DEF BeginOrganise, Computed, Exists
<1> HIDE DEF Goal
<1>13. Goal
  BY <1>2, <1>3, <1>4, <1>5, <1>6, <1>7, <1>8, <1>9, <1>10, <1>11, <1>12 DEF Arrive
<1> QED
  BY <1>13 DEF Goal

-----------------------------------------------------------------------------
(***************************************************************************)
(* The refinement.  The two instances of RunCore compute the same.         *)
(***************************************************************************)
LEMMA SameCore ==
    ASSUME NEW s, NEW x, NEW y
    PROVE  /\ Atomic!prepare(x) = prepare(x)
           /\ Atomic!create_approval(s, x, y) = create_approval(s, x, y)
           /\ Atomic!clear_retryable(s) = clear_retryable(s)
           /\ Atomic!finalize(s, x) = finalize(s, x)
           /\ Atomic!reopen(s) = reopen(s)
           /\ Atomic!supersede(s, x) = supersede(s, x)
           /\ Atomic!successor_of(s, x) = successor_of(s, x)
           /\ Atomic!archive(s) = archive(s)
           /\ Atomic!unarchive(s) = unarchive(s)
           /\ Atomic!CanFinalize(s) = CanFinalize(s)
           /\ Atomic!CanReopen(s) = CanReopen(s)
           /\ Atomic!CanSupersede(s) = CanSupersede(s)
           /\ Atomic!CanArchive(s) = CanArchive(s)
           /\ Atomic!CanUnarchive(s) = CanUnarchive(s)
  BY DEF Atomic!prepare, prepare, Atomic!PlanSteps, PlanSteps,
         Atomic!create_approval, create_approval, Atomic!clear_retryable, clear_retryable,
         Atomic!finalize, finalize, Atomic!FinalizedAs, FinalizedAs, Atomic!reopen, reopen,
         Atomic!supersede, supersede, Atomic!successor_of, successor_of,
         Atomic!archive, archive, Atomic!unarchive, unarchive,
         Atomic!CanFinalize, CanFinalize, Atomic!CanReopen, CanReopen,
         Atomic!CanSupersede, CanSupersede, Atomic!CanArchive, CanArchive,
         Atomic!CanUnarchive, CanUnarchive, Atomic!IsFinalized, IsFinalized,
         Atomic!FinalizedStatuses, FinalizedStatuses

LEMMA SameReplan ==
    ASSUME NEW s, NEW failure
    PROVE  Atomic!replan(s, failure) = replan(s, failure)
  BY DEF Atomic!replan, replan, Atomic!ReplanNext, ReplanNext,
         Atomic!ReplanNoFailure, ReplanNoFailure, Atomic!ReplanFailure, ReplanFailure,
         Atomic!Invalidated, Invalidated, Atomic!HasRetryable, HasRetryable,
         Atomic!HasValidRetryable, HasValidRetryable, Atomic!Contains, Contains,
         Atomic!recommend_for_step, recommend_for_step

LEMMA SameResolve ==
    ASSUME NEW s, NEW decision, NEW nothing_pending
    PROVE  Atomic!resolve(s, decision, nothing_pending) = resolve(s, decision, nothing_pending)
  BY DEF Atomic!resolve, resolve, Atomic!resolve_approve, resolve_approve,
         Atomic!resolve_deny, resolve_deny, Atomic!Recommended, Recommended,
         Atomic!ToolAfterApproval, ToolAfterApproval, Atomic!ToolOf, ToolOf,
         Atomic!Invalidated, Invalidated, Atomic!HasRetryable, HasRetryable,
         Atomic!HasValidRetryable, HasValidRetryable

LEMMA SamePolicy ==
    ASSUME NEW request, NEW policy
    PROVE  Atomic!RequiresApproval(request, policy) = RequiresApproval(request, policy)
  BY DEF Atomic!RequiresApproval, RequiresApproval, Atomic!evaluate_patch, evaluate_patch,
         Atomic!evaluate_test_run, evaluate_test_run, Atomic!Deleted, Deleted,
         Atomic!Sensitive, Sensitive, Atomic!Unfocused, Unfocused,
         Atomic!is_within_focus_paths, is_within_focus_paths

\* What the tables look like while the only worker does job j.
SeenApproval(ap, j, a) ==
    IF j # None /\ j.at = "save_run" /\ j.event = "approval_created"
         /\ j.state.retryable_action.approval = a
    THEN None
    ELSE IF j # None /\ j.at \in {"count", "save_run"} /\ j.approval_id = a
    THEN [ap[a] EXCEPT !.status = "pending"]
    ELSE ap[a]

SeenRow(rs, j, r) ==
    IF j # None /\ j.at = "save_successor" /\ j.state.superseded_by_run_id = r
    THEN successor_of(j.state, j.run_id)
    ELSE rs[r]

LEMMA Seen ==
    ASSUME NEW w \in Workers, Workers = {w}
    PROVE  /\ shownApprovals = [a \in Approvals |-> SeenApproval(approvals, job[w], a)]
           /\ shownRuns = [r \in Runs |-> SeenRow(runs, job[w], r)]
           /\ shownApprovals' = [a \in Approvals |-> SeenApproval(approvals', job'[w], a)]
           /\ shownRuns' = [r \in Runs |-> SeenRow(runs', job'[w], r)]
<1>1. \A a : /\ CreatedByJob(a) <=>
                  /\ job[w] # None /\ job[w].at = "save_run"
                  /\ job[w].event = "approval_created"
                  /\ job[w].state.retryable_action.approval = a
             /\ DecidedByJob(a) <=>
                  /\ job[w] # None /\ job[w].at \in {"count", "save_run"}
                  /\ job[w].approval_id = a
             /\ CreatedByJob(a)' <=>
                  /\ job'[w] # None /\ job'[w].at = "save_run"
                  /\ job'[w].event = "approval_created"
                  /\ job'[w].state.retryable_action.approval = a
             /\ DecidedByJob(a)' <=>
                  /\ job'[w] # None /\ job'[w].at \in {"count", "save_run"}
                  /\ job'[w].approval_id = a
  BY DEF CreatedByJob, DecidedByJob, At, Busy
<1>2. /\ shownApprovals = [a \in Approvals |-> SeenApproval(approvals, job[w], a)]
      /\ shownApprovals' = [a \in Approvals |-> SeenApproval(approvals', job'[w], a)]
  BY <1>1 DEF shownApprovals, SeenApproval
<1>3. \A r : /\ Succeeding(w, r) <=>
                  /\ job[w] # None /\ job[w].at = "save_successor"
                  /\ job[w].state.superseded_by_run_id = r
             /\ Succeeding(w, r)' <=>
                  /\ job'[w] # None /\ job'[w].at = "save_successor"
                  /\ job'[w].state.superseded_by_run_id = r
  BY DEF Succeeding, At, Busy
<1>4. \A r : /\ Succeeding(w, r) => (CHOOSE x \in Workers : Succeeding(x, r)) = w
             /\ Succeeding(w, r)' => (CHOOSE x \in Workers : Succeeding(x, r)') = w
  OBVIOUS
<1>5. \A r : /\ (\E x \in Workers : Succeeding(x, r)) <=> Succeeding(w, r)
             /\ (\E x \in Workers : Succeeding(x, r)') <=> Succeeding(w, r)'
  OBVIOUS
<1>6. shownRuns = [r \in Runs |-> SeenRow(runs, job[w], r)]
  BY <1>3, <1>4, <1>5 DEF shownRuns, SeenRow
<1>7. shownRuns' = [r \in Runs |-> SeenRow(runs', job'[w], r)]
  BY <1>3, <1>4, <1>5 DEF shownRuns, SeenRow
<1> QED
  BY <1>2, <1>6, <1>7

\* The first store calls show nothing yet.
LEMMA SaveApprovalShows ==
    ASSUME SerialInv, NEW w \in Workers, Workers = {w}, SaveApproval(w)
    PROVE  Computed(job[w])' /\ UNCHANGED <<shownRuns, shownApprovals>>
<1>1. /\ Busy(w) /\ job[w] \in Jobs /\ job[w].at = "save_approval" /\ Computed(job[w])
      /\ job[w].event = "approval_created"
      /\ approvals \in [Approvals -> PendingApprovals \cup {None}]
      /\ job \in [Workers -> Jobs \cup {None}]
  BY DEF SerialInv, DInv, DTypeOK, TypeOK, JobLinked, SaveApproval, At, Busy, Unsaved
<1>2. PICK k : k = [job[w] EXCEPT !.at = "save_run"]
  OBVIOUS
<1>3. /\ k \in Jobs /\ k.at = "save_run" /\ k.event = job[w].event /\ k # None
      /\ k.run_id = job[w].run_id /\ k.state = job[w].state
      /\ k.approval_id = job[w].approval_id
  BY <1>1, <1>2, GotoJob
<1>4. PICK request \in Requests, a \in Approvals :
          /\ RequiresApproval(request, runs[k.run_id].policy_profile)
          /\ k.state = create_approval(runs[k.run_id], request, a)
          /\ approvals[a] = None
  BY <1>1, <1>3 DEF Computed
<1>5. Exists(k.run_id) /\ k.approval_id = None /\ runs[k.run_id] \in RunStates
  BY <1>1, <1>3 DEF Computed, SerialInv, DInv, DTypeOK, TypeOK, Jobs, Exists
<1>6. k.state.retryable_action.approval = a /\ k.state.retryable_action.payload = request
  BY <1>4, <1>5, CreateApprovalChanges
<1>7. /\ job'[w] = k /\ UNCHANGED runs
      /\ approvals' = [approvals EXCEPT ![a] = [run_id |-> k.run_id, action |-> request,
                                                status |-> "pending"]]
  BY <1>1, <1>2, <1>3, <1>6 DEF SaveApproval, Goto
<1>8. Computed(k)'
  <2>1. approvals'[a] = [run_id |-> k.run_id, action |-> request, status |-> "pending"]
    BY <1>1, <1>7
  <2> QED
    BY <1>1, <1>3, <1>4, <1>5, <1>7, <2>1 DEF Computed, Exists
<1>9. \A b \in Approvals : SeenApproval(approvals', k, b) = SeenApproval(approvals, job[w], b)
  BY <1>1, <1>3, <1>4, <1>5, <1>6, <1>7, NoneAssumption DEF SeenApproval
<1>10. \A r \in Runs : SeenRow(runs', k, r) = SeenRow(runs, job[w], r)
  BY <1>1, <1>3, <1>7 DEF SeenRow
<1>11. UNCHANGED <<shownRuns, shownApprovals>>
  BY <1>7, <1>9, <1>10, Seen
<1> QED
  BY <1>7, <1>8, <1>11 DEF Computed

LEMMA ResolveApprovalShows ==
    ASSUME SerialInv, NEW w \in Workers, Workers = {w}, ResolveApproval(w)
    PROVE  Computed(job[w])' /\ UNCHANGED <<shownRuns, shownApprovals>>
<1>1. /\ Busy(w) /\ job[w] \in Jobs /\ job[w].at = "resolve_approval" /\ Computed(job[w])
      /\ job[w].event = "approval_resolved"
      /\ approvals \in [Approvals -> PendingApprovals \cup {None}]
      /\ job \in [Workers -> Jobs \cup {None}]
  BY DEF SerialInv, DInv, DTypeOK, TypeOK, JobLinked, ResolveApproval, At, Busy, Unsaved
<1>2. PICK k : k = [job[w] EXCEPT !.at = "count"]
  OBVIOUS
<1>3. /\ k \in Jobs /\ k.at = "count" /\ k.event = job[w].event /\ k # None
      /\ k.run_id = job[w].run_id /\ k.state = job[w].state
      /\ k.approval_id = job[w].approval_id /\ k.decision = job[w].decision
  BY <1>1, <1>2, GotoJob
<1>4. PICK a, row : /\ a = k.approval_id
                    /\ row = [approvals[a] EXCEPT !.status = Verdict(k.decision)]
  OBVIOUS
<1>5. /\ a \in Approvals /\ k.decision \in {"approve", "deny"}
      /\ approvals[a] # None /\ approvals[a].run_id = k.run_id
      /\ approvals[a] \in PendingApprovals /\ approvals[a].status = "pending"
      /\ Exists(k.run_id) /\ k.state = runs[k.run_id]
  BY <1>1, <1>3, <1>4 DEF Computed, ResolveApproval
<1>6. /\ job'[w] = k /\ UNCHANGED runs
      /\ approvals' = [approvals EXCEPT ![a] = row]
  BY <1>1, <1>2, <1>3, <1>4 DEF ResolveApproval, Goto, Verdict
<1>7. /\ row \in PendingApprovals /\ row # None /\ row.run_id = k.run_id
      /\ [row EXCEPT !.status = "pending"] = approvals[a]
  BY <1>4, <1>5, NoneAssumption DEF PendingApprovals, Verdict
<1>8. approvals'[a] = row
  BY <1>1, <1>5, <1>6
<1>9. Computed(k)'
  BY <1>1, <1>3, <1>4, <1>5, <1>6, <1>7, <1>8 DEF Computed, Exists
<1>10. \A b \in Approvals : SeenApproval(approvals', k, b) = SeenApproval(approvals, job[w], b)
  <2>1. SeenApproval(approvals', k, a) = [approvals'[a] EXCEPT !.status = "pending"]
    BY <1>1, <1>3, <1>4 DEF SeenApproval
  <2>2. \A b \in Approvals : SeenApproval(approvals, job[w], b) = approvals[b]
    BY <1>1 DEF SeenApproval
  <2>3. \A b \in Approvals : b # a => SeenApproval(approvals', k, b) = approvals[b]
    BY <1>1, <1>3, <1>4, <1>6 DEF SeenApproval
  <2> QED
    BY <1>7, <1>8, <2>1, <2>2, <2>3
<1>11. \A r \in Runs : SeenRow(runs', k, r) = SeenRow(runs, job[w], r)
  BY <1>1, <1>3, <1>6 DEF SeenRow
<1>12. UNCHANGED <<shownRuns, shownApprovals>>
  BY <1>6, <1>10, <1>11, Seen
<1> QED
  BY <1>6, <1>9, <1>12 DEF Computed

LEMMA CountPendingShows ==
    ASSUME SerialInv, NEW w \in Workers, Workers = {w}, CountPending(w)
    PROVE  Computed(job[w])' /\ UNCHANGED <<shownRuns, shownApprovals>>
<1>1. /\ Busy(w) /\ job[w] \in Jobs /\ job[w].at = "count" /\ Computed(job[w])
      /\ job[w].event = "approval_resolved"
      /\ approvals[job[w].approval_id].status = Verdict(job[w].decision)
      /\ job \in [Workers -> Jobs \cup {None}]
  BY DEF SerialInv, DInv, DTypeOK, JobLinked, CountPending, At, Busy, Unsaved
<1>2. PICK j, t, k : /\ j = job[w]
                     /\ t = resolve(j.state, j.decision, PendingOf(j.run_id) = {})
                     /\ k = [[j EXCEPT !.at = "save_run"] EXCEPT !.state = t]
  OBVIOUS
<1>3. job' = [job EXCEPT ![w] = k] /\ UNCHANGED <<runs, approvals>>
  BY <1>2 DEF CountPending
<1>4. /\ k.at = "save_run" /\ k.event = "approval_resolved" /\ k.run_id = j.run_id
      /\ k.state = t /\ k.approval_id = j.approval_id /\ k.decision = j.decision
  BY <1>1, <1>2 DEF Jobs
<1>5. /\ j.approval_id \in Approvals /\ j.decision \in {"approve", "deny"}
      /\ approvals[j.approval_id] # None /\ approvals[j.approval_id].run_id = j.run_id
      /\ approvals[j.approval_id].status = Verdict(j.decision)
      /\ Exists(j.run_id) /\ j.state = runs[j.run_id]
  BY <1>1, <1>2 DEF Computed
<1>6. k \in Jobs /\ k # None /\ job'[w] = k
  <2>1. j.state \in RunStates /\ RowOK(j.state)
    BY <1>1, <1>2 DEF SerialInv, DInv, JobLinked, Jobs
  <2>2. t \in RunStates
    BY <1>2, <1>5, <2>1, ResolveOK
  <2>3. k \in Jobs
    BY <1>1, <1>2, <2>2 DEF Jobs
  <2> QED
    BY <1>1, <1>3, <2>3, DaemonAssumption
<1>7. PendingOf(k.run_id)' = PendingOf(j.run_id)
  BY <1>3, <1>4 DEF PendingOf
<1>8. Computed(k)'
  BY <1>2, <1>3, <1>4, <1>5, <1>7 DEF Computed, Exists
<1>9. Computed(job[w])'
  BY <1>6, <1>8 DEF Computed, Exists, PendingOf
<1>10. /\ \A b \in Approvals : SeenApproval(approvals', k, b) = SeenApproval(approvals, job[w], b)
       /\ \A r \in Runs : SeenRow(runs', k, r) = SeenRow(runs, job[w], r)
  BY <1>1, <1>2, <1>3, <1>4, <1>6 DEF SeenApproval, SeenRow, Busy
<1>11. UNCHANGED <<shownRuns, shownApprovals>>
  BY <1>6, <1>10, Seen
<1> QED
  BY <1>9, <1>11

\* save_run is the step that shows: the action of RunLifecycle for its method.
LEMMA RowShows ==
    ASSUME NEW r \in Runs, shownApprovals' = shownApprovals,
           NEW t, shownRuns' = [shownRuns EXCEPT ![r] = t],
           \/ shownRuns[r] = None /\ \E policy \in Policies : t = prepare(policy)
           \/ /\ shownRuns[r] # None
              /\ \/ \E failure \in Failures \cup {None} : t = replan(shownRuns[r], failure)
                 \/ \E request \in Requests :
                        /\ ~ RequiresApproval(request, shownRuns[r].policy_profile)
                        /\ t = clear_retryable(shownRuns[r])
                 \/ /\ CanFinalize(shownRuns[r])
                    /\ \E kind \in Outcomes : t = finalize(shownRuns[r], kind)
                 \/ /\ CanReopen(shownRuns[r]) /\ shownRuns[r].reopen_count < MaxReopens
                    /\ t = reopen(shownRuns[r])
                 \/ CanArchive(shownRuns[r]) /\ t = archive(shownRuns[r])
                 \/ CanUnarchive(shownRuns[r]) /\ t = unarchive(shownRuns[r])
    PROVE  Atomic!Next
<1>1. ASSUME NEW policy \in Policies, shownRuns[r] = None, t = prepare(policy)
      PROVE  Atomic!Next
  BY <1>1, SameCore DEF Atomic!Next, Atomic!RunPrepare, Atomic!Exists
<1>2. ASSUME NEW failure \in Failures \cup {None}, shownRuns[r] # None,
             t = replan(shownRuns[r], failure)
      PROVE  Atomic!Next
  BY <1>2, SameReplan DEF Atomic!Next, Atomic!RunReplan, Atomic!Exists
<1>3. ASSUME NEW request \in Requests, shownRuns[r] # None,
             ~ RequiresApproval(request, shownRuns[r].policy_profile),
             t = clear_retryable(shownRuns[r])
      PROVE  Atomic!Next
  BY <1>3, SameCore, SamePolicy DEF Atomic!Next, Atomic!ExecuteRequest, Atomic!Exists
<1>4. ASSUME NEW kind \in Outcomes, shownRuns[r] # None, CanFinalize(shownRuns[r]),
             t = finalize(shownRuns[r], kind)
      PROVE  Atomic!Next
  BY <1>4, SameCore DEF Atomic!Next, Atomic!RunFinalize, Atomic!Exists
<1>5. ASSUME shownRuns[r] # None, CanReopen(shownRuns[r]),
             shownRuns[r].reopen_count < MaxReopens, t = reopen(shownRuns[r])
      PROVE  Atomic!Next
  BY <1>5, SameCore DEF Atomic!Next, Atomic!RunReopen, Atomic!Exists
<1>6. ASSUME shownRuns[r] # None, CanArchive(shownRuns[r]), t = archive(shownRuns[r])
      PROVE  Atomic!Next
  BY <1>6, SameCore DEF Atomic!Next, Atomic!RunArchive, Atomic!Exists
<1>7. ASSUME shownRuns[r] # None, CanUnarchive(shownRuns[r]), t = unarchive(shownRuns[r])
      PROVE  Atomic!Next
  BY <1>7, SameCore DEF Atomic!Next, Atomic!RunUnarchive, Atomic!Exists
<1> QED
  BY <1>1, <1>2, <1>3, <1>4, <1>5, <1>6, <1>7

LEMMA SaveRunShows ==
    ASSUME SerialInv, NEW w \in Workers, Workers = {w}, SaveRun(w)
    PROVE  /\ job'[w].at \notin Unsaved
           /\ Atomic!Next \/ UNCHANGED <<shownRuns, shownApprovals>>
<1>1. /\ Busy(w) /\ job[w] \in Jobs /\ job[w].at = "save_run" /\ Computed(job[w])
      /\ approvals \in [Approvals -> PendingApprovals \cup {None}]
      /\ runs \in [Runs -> RunStates \cup {None}]
      /\ job \in [Workers -> Jobs \cup {None}]
  BY DEF SerialInv, DInv, DTypeOK, TypeOK, SaveRun, At, Busy, Unsaved
<1>2. PICK j, label, k : /\ j = job[w] /\ label = AfterSave(j.event)
                         /\ k = [j EXCEPT !.at = label]
  OBVIOUS
<1>3. /\ label \in {"save_successor", "execute", "audit"}
      /\ label = "save_successor" <=> j.event = "run_superseded"
  BY <1>2 DEF AfterSave
<1>4. /\ k.at = label /\ k.event = j.event /\ k.run_id = j.run_id /\ k.state = j.state
      /\ k # None
  <2>1. label \in {"save_run", "count", "execute", "save_successor", "audit",
                   "audit_successor"}
    BY <1>3
  <2> QED
    BY <1>1, <1>2, <2>1, GotoJob
<1>5. PICK r, t : r = j.run_id /\ t = j.state
  OBVIOUS
<1>6. /\ job'[w] = k /\ runs' = [runs EXCEPT ![r] = t] /\ UNCHANGED approvals
      /\ r \in Runs /\ t \in RunStates
  BY <1>1, <1>2, <1>5 DEF SaveRun, Goto, Jobs
<1>7. /\ shownRuns = runs
      /\ shownApprovals = [a \in Approvals |-> SeenApproval(approvals, j, a)]
  <2>1. \A q \in Runs : SeenRow(runs, job[w], q) = runs[q]
    BY <1>1 DEF SeenRow
  <2> QED
    BY <1>1, <1>2, <2>1, Seen
<1>8. /\ shownApprovals' = approvals
      /\ shownRuns' = [q \in Runs |-> SeenRow(runs', k, q)]
  <2>1. \A a \in Approvals : SeenApproval(approvals', k, a) = approvals[a]
    BY <1>3, <1>4, <1>6 DEF SeenApproval
  <2>2. /\ shownApprovals' = [a \in Approvals |-> SeenApproval(approvals', job'[w], a)]
        /\ shownRuns' = [q \in Runs |-> SeenRow(runs', job'[w], q)]
    BY Seen
  <2>3. approvals = [a \in Approvals |-> approvals[a]]
    BY <1>1
  <2> QED
    BY <1>6, <2>1, <2>2, <2>3
<1>9. j.event # "run_superseded" => shownRuns' = [shownRuns EXCEPT ![r] = t]
  <2>1. j.event # "run_superseded" => \A q \in Runs : SeenRow(runs', k, q) = runs'[q]
    BY <1>3, <1>4 DEF SeenRow
  <2> QED
    BY <1>1, <1>6, <1>7, <1>8, <2>1
<1>10. j.event \notin {"approval_created", "approval_resolved"} =>
           shownApprovals' = shownApprovals
  <2>1. j.event \notin {"approval_created", "approval_resolved"} =>
            \A a \in Approvals : SeenApproval(approvals, j, a) = approvals[a]
    BY <1>1, <1>2, NoneAssumption DEF SeenApproval, Computed
  <2> QED
    BY <1>1, <1>7, <1>8, <2>1
<1>11. j \in Jobs /\ Computed(j) /\ j.at = "save_run" /\ j # None
  BY <1>1, <1>2 DEF Busy
<1>12. job'[w].at \notin Unsaved
  BY <1>3, <1>4, <1>6 DEF Unsaved
<1> SUFFICES Atomic!Next \/ UNCHANGED <<shownRuns, shownApprovals>>
  BY <1>12
<1>13. CASE j.event \in {"run_prepared", "replan_performed", "patch_applied", "tests_run",
                         "run_finalized", "run_reopened", "run_archived", "run_unarchived"}
  <2>1. shownApprovals' = shownApprovals /\ shownRuns' = [shownRuns EXCEPT ![r] = t]
    BY <1>9, <1>10, <1>13
  <2> QED
    BY <1>5, <1>6, <1>7, <1>11, <1>13, <2>1, RowShows DEF Computed, Exists
<1>14. CASE j.event = "organised"
  <2>1. shownApprovals' = shownApprovals /\ shownRuns' = [shownRuns EXCEPT ![r] = t]
    BY <1>9, <1>10, <1>14
  <2>2. t = shownRuns[r]
    BY <1>5, <1>7, <1>11, <1>14 DEF Computed
  <2> QED
    BY <1>1, <1>7, <2>1, <2>2
<1>15. CASE j.event = "approval_created"
  <2>1. PICK request \in Requests, a \in Approvals :
            /\ RequiresApproval(request, shownRuns[r].policy_profile)
            /\ t = create_approval(shownRuns[r], request, a)
            /\ approvals[a] = [run_id |-> r, action |-> request, status |-> "pending"]
    BY <1>5, <1>7, <1>11, <1>15 DEF Computed
  <2>2. shownRuns[r] # None /\ shownRuns[r] \in RunStates /\ j.approval_id = None
    BY <1>1, <1>5, <1>6, <1>7, <1>11, <1>15 DEF Computed, Exists
  <2>3. t.retryable_action.approval = a
    BY <2>1, <2>2, CreateApprovalChanges
  <2>4. \A b \in Approvals : SeenApproval(approvals, j, b) = IF b = a THEN None ELSE approvals[b]
    BY <1>5, <1>11, <1>15, <2>2, <2>3, NoneAssumption DEF SeenApproval
  <2>5. /\ shownApprovals[a] = None
        /\ shownApprovals' = [shownApprovals EXCEPT ![a] =
                                 [run_id |-> r, action |-> request, status |-> "pending"]]
    BY <1>1, <1>7, <1>8, <2>1, <2>4
  <2>6. shownRuns' = [shownRuns EXCEPT ![r] = create_approval(shownRuns[r], request, a)]
    BY <1>9, <1>15, <2>1
  <2> QED
    BY <1>6, <2>1, <2>2, <2>5, <2>6, SameCore, SamePolicy
       DEF Atomic!Next, Atomic!GateRequest, Atomic!Exists
<1>16. CASE j.event = "approval_resolved"
  <2>1. PICK a, decision : a = j.approval_id /\ decision = j.decision
    OBVIOUS
  <2>2. /\ a \in Approvals /\ decision \in {"approve", "deny"}
        /\ approvals[a] # None /\ approvals[a].run_id = r
        /\ approvals[a].status = Verdict(decision)
        /\ t = resolve(shownRuns[r], decision, PendingOf(r) = {})
        /\ shownRuns[r] # None
    BY <1>5, <1>7, <1>11, <1>16, <2>1 DEF Computed, Exists
  <2>3. PICK row : row = [approvals[a] EXCEPT !.status = "pending"]
    OBVIOUS
  <2>4. /\ approvals[a] \in PendingApprovals
        /\ row \in PendingApprovals /\ row # None /\ row.run_id = r /\ row.status = "pending"
        /\ [row EXCEPT !.status = Verdict(decision)] = approvals[a]
    BY <1>1, <2>2, <2>3, NoneAssumption DEF PendingApprovals
  <2>5. \A b \in Approvals : shownApprovals[b] = IF b = a THEN row ELSE approvals[b]
    BY <1>7, <1>11, <1>16, <2>1, <2>3 DEF SeenApproval
  <2>6. shownApprovals' = [shownApprovals EXCEPT ![a].status = Verdict(decision)]
    BY <1>1, <1>7, <1>8, <2>2, <2>4, <2>5
  <2>7. Atomic!PendingOf(r) = {a} <=> PendingOf(r) = {}
    <3>1. Atomic!PendingOf(r) = {b \in Approvals : /\ shownApprovals[b] # None
                                                    /\ shownApprovals[b].run_id = r
                                                    /\ shownApprovals[b].status = "pending"}
      BY DEF Atomic!PendingOf
    <3>2. a \in Atomic!PendingOf(r) /\ a \notin PendingOf(r)
      BY <2>2, <2>4, <2>5, <3>1 DEF PendingOf, Verdict
    <3>3. \A b \in Approvals : b # a => (b \in Atomic!PendingOf(r) <=> b \in PendingOf(r))
      BY <2>5, <3>1 DEF PendingOf
    <3>4. Atomic!PendingOf(r) \subseteq Approvals /\ PendingOf(r) \subseteq Approvals
      BY <3>1 DEF PendingOf
    <3> QED
      BY <3>2, <3>3, <3>4
  <2>8. shownRuns' = [shownRuns EXCEPT ![r] =
                         Atomic!resolve(shownRuns[r], decision, Atomic!PendingOf(r) = {a})]
    <3>1. (PendingOf(r) = {}) = (Atomic!PendingOf(r) = {a})
      BY <2>7
    <3> QED
      BY <1>9, <1>16, <2>2, <3>1, SameResolve
  <2>9. shownApprovals[a] # None /\ shownApprovals[a].run_id = r
        /\ shownApprovals[a].status = "pending"
    BY <2>2, <2>4, <2>5
  <2>10. Atomic!ApprovalResolve(r, a, decision)
    BY <2>2, <2>6, <2>8, <2>9 DEF Atomic!ApprovalResolve, Atomic!Exists, Verdict
  <2> QED
    BY <1>6, <2>2, <2>10 DEF Atomic!Next
<1>17. CASE j.event = "run_superseded"
  <2>1. PICK s \in Runs : /\ CanSupersede(shownRuns[r]) /\ shownRuns[s] = None
                          /\ t = supersede(shownRuns[r], s)
    BY <1>5, <1>7, <1>11, <1>17 DEF Computed, Exists
  <2>2. shownRuns[r] # None /\ shownRuns[r] \in RunStates
    BY <1>1, <1>5, <1>6, <1>7, <1>11, <1>17 DEF Computed, Exists
  <2>3. t.superseded_by_run_id = s /\ t.policy_profile = shownRuns[r].policy_profile
    BY <2>1, <2>2 DEF supersede, RunStates
  <2>4. successor_of(t, r) = successor_of(shownRuns[r], r)
    BY <2>3 DEF successor_of
  <2>5. \A q \in Runs : SeenRow(runs', k, q) =
            IF q = s THEN successor_of(shownRuns[r], r) ELSE runs'[q]
    BY <1>3, <1>4, <1>5, <1>17, <2>3, <2>4 DEF SeenRow
  <2>6. shownRuns' = [shownRuns EXCEPT ![r] = t, ![s] = successor_of(shownRuns[r], r)]
    BY <1>1, <1>6, <1>7, <1>8, <2>1, <2>2, <2>5
  <2>7. shownApprovals' = shownApprovals
    BY <1>10, <1>17
  <2>8. Atomic!RunSupersede(r, s)
    BY <2>1, <2>2, <2>6, <2>7, SameCore DEF Atomic!RunSupersede, Atomic!Exists
  <2> QED
    BY <1>6, <2>8 DEF Atomic!Next
<1> QED
  BY <1>11, <1>13, <1>14, <1>15, <1>16, <1>17 DEF Jobs, AllMethods

\* The calls after save_run show nothing new: the successor is shown already.
LEMMA RestShows ==
    ASSUME SerialInv, NEW w \in Workers, Workers = {w},
           \/ RejectResolve(w) \/ SaveSuccessor(w) \/ Execute(w) \/ AppendAudit(w)
           \/ AppendSuccessorAudit(w)
    PROVE  /\ Busy(w)' => job'[w].at \notin Unsaved
           /\ UNCHANGED <<shownRuns, shownApprovals>>
<1>1. /\ job[w] \in Jobs /\ Busy(w) /\ job \in [Workers -> Jobs \cup {None}]
      /\ job[w].at \in {"resolve_approval", "save_successor", "execute", "audit",
                        "audit_successor"}
      /\ UNCHANGED approvals
  BY DEF SerialInv, DInv, DTypeOK, Busy, At, RejectResolve, SaveSuccessor, Execute,
         AppendAudit, AppendSuccessorAudit
<1>2. \/ job'[w] = None
      \/ job'[w].at \in {"audit", "audit_successor"}
  <2>1. ASSUME Finish(w) PROVE job'[w] = None
    BY <1>1, <2>1 DEF Finish
  <2>2. ASSUME NEW label \in {"audit", "audit_successor"}, Goto(w, label)
        PROVE  job'[w].at = label
    <3>1. PICK k : k = [job[w] EXCEPT !.at = label]
      OBVIOUS
    <3>2. k.at = label
      BY <1>1, <3>1, GotoJob
    <3>3. job'[w] = k
      BY <1>1, <2>2, <3>1 DEF Goto
    <3> QED
      BY <3>2, <3>3
  <2> QED
    BY <2>1, <2>2 DEF RejectResolve, SaveSuccessor, Execute, AppendAudit, AppendSuccessorAudit
<1>3. Busy(w)' => job'[w].at \notin Unsaved
  BY <1>2 DEF Busy, Unsaved
<1>4. \A a \in Approvals : SeenApproval(approvals', job'[w], a) = SeenApproval(approvals, job[w], a)
  BY <1>1, <1>2 DEF SeenApproval
<1>5. \A r \in Runs : SeenRow(runs', job'[w], r) = SeenRow(runs, job[w], r)
  <2>1. \A r \in Runs : SeenRow(runs', job'[w], r) = runs'[r]
    BY <1>2 DEF SeenRow
  <2>2. CASE SaveSuccessor(w)
    <3>1. /\ job[w].at = "save_successor"
          /\ runs' = [runs EXCEPT ![job[w].state.superseded_by_run_id] =
                         successor_of(job[w].state, job[w].run_id)]
      BY <2>2 DEF SaveSuccessor, At
    <3>2. runs \in [Runs -> RunStates \cup {None}]
      BY DEF SerialInv, DInv, DTypeOK, TypeOK
    <3>3. \A r \in Runs : SeenRow(runs, job[w], r) =
              IF job[w].state.superseded_by_run_id = r
              THEN successor_of(job[w].state, job[w].run_id) ELSE runs[r]
      BY <1>1, <3>1 DEF SeenRow, Busy
    <3> QED
      BY <2>1, <3>1, <3>2, <3>3
  <2>3. CASE RejectResolve(w) \/ Execute(w) \/ AppendAudit(w) \/ AppendSuccessorAudit(w)
    <3>1. UNCHANGED runs /\ job[w].at # "save_successor"
      BY <2>3 DEF RejectResolve, Execute, AppendAudit, AppendSuccessorAudit, At
    <3> QED
      BY <2>1, <3>1 DEF SeenRow
  <2> QED
    BY <2>2, <2>3
<1>6. UNCHANGED <<shownRuns, shownApprovals>>
  BY <1>4, <1>5, Seen
<1> QED
  BY <1>3, <1>6

\* Every step of the only worker is a step of RunLifecycle or shows nothing.
LEMMA SerialStep ==
    ASSUME SerialInv, NEW w \in Workers, Workers = {w}, MaxFaults = 0, [DNext]_dvars
    PROVE  /\ SerialInv'
           /\ Atomic!Next \/ UNCHANGED <<shownRuns, shownApprovals>>
<1>0. DInv' /\ faults \in Nat
  BY DNextKeepsInv DEF SerialInv, DInv, DTypeOK
<1>1. ASSUME Computed(job[w])'
      PROVE  SerialInv'
  BY <1>0, <1>1 DEF SerialInv
<1>2. ASSUME Busy(w)' => job'[w].at \notin Unsaved
      PROVE  SerialInv'
  BY <1>0, <1>2 DEF SerialInv
<1>3. CASE Arrive(w)
  <2>1. /\ ~ Busy(w) /\ UNCHANGED <<runs, approvals>>
        /\ Computed(job[w])'
        /\ job'[w].at \in {"save_approval", "resolve_approval", "save_run"}
        /\ job'[w].at = "save_run" =>
               job'[w].event # "approval_created" /\ job'[w].approval_id = None
    BY <1>3, ArriveComputes
  <2>2. \A a \in Approvals : SeenApproval(approvals', job'[w], a) = SeenApproval(approvals, job[w], a)
    BY <2>1, NoneAssumption DEF SeenApproval, Busy
  <2>3. \A r \in Runs : SeenRow(runs', job'[w], r) = SeenRow(runs, job[w], r)
    BY <2>1 DEF SeenRow, Busy
  <2>4. UNCHANGED <<shownRuns, shownApprovals>>
    BY <2>2, <2>3, Seen
  <2> QED
    BY <1>1, <2>1, <2>4
<1>4. CASE SaveApproval(w) \/ ResolveApproval(w) \/ CountPending(w)
  BY <1>1, <1>4, SaveApprovalShows, ResolveApprovalShows, CountPendingShows
<1>5. CASE SaveRun(w)
  BY <1>2, <1>5, SaveRunShows
<1>6. CASE RejectResolve(w) \/ SaveSuccessor(w) \/ Execute(w) \/ AppendAudit(w)
             \/ AppendSuccessorAudit(w)
  BY <1>2, <1>6, RestShows
<1>7. ~ StoreError(w) /\ ~ Crash
  BY <1>0 DEF StoreError, Crash
<1>8. CASE UNCHANGED dvars
  <2>1. UNCHANGED <<runs, approvals>> /\ job' = job
    BY <1>8 DEF dvars
  <2>2. UNCHANGED <<shownRuns, shownApprovals>>
    BY <2>1, Seen
  <2>3. (Busy(w) /\ job[w].at \in Unsaved)' => Computed(job[w])'
    BY <2>1 DEF SerialInv, Busy, Computed, Exists, PendingOf
  <2> QED
    BY <1>0, <2>2, <2>3 DEF SerialInv
<1> QED
  BY <1>3, <1>4, <1>5, <1>6, <1>7, <1>8 DEF DNext, Step

\* Served one at a time and without faults, requests are atomic: the daemon,
\* store call by store call, implements RunLifecycle.
THEOREM SerialRequestsAreAtomic ==
    ASSUME NEW w, Workers = {w}, MaxFaults = 0
    PROVE  DSpec => SerialIsAtomic
<1>1. DInit => SerialInv /\ Atomic!Init
  <2> SUFFICES ASSUME DInit
               PROVE  SerialInv /\ Atomic!Init
    OBVIOUS
  <2>1. w \in Workers /\ \A v \in Workers : ~ Busy(v)
    BY DEF DInit, Busy
  <2>2. \A r \in Runs : SeenRow(runs, job[w], r) = None
    BY <2>1 DEF SeenRow, DInit, Init, Busy
  <2>3. \A a \in Approvals : SeenApproval(approvals, job[w], a) = None
    BY <2>1 DEF SeenApproval, DInit, Init, Busy
  <2>4. Atomic!Init
    BY <2>1, <2>2, <2>3, Seen DEF Atomic!Init
  <2> QED
    BY <2>1, <2>4, DInitInv DEF SerialInv
<1>2. ASSUME SerialInv, [DNext]_dvars
      PROVE  SerialInv' /\ [Atomic!Next]_(Atomic!vars)
  BY <1>2, SerialStep DEF Atomic!vars
<1> QED
  BY <1>1, <1>2, PTL DEF DSpec, SerialIsAtomic, Atomic!Spec
=============================================================================
