-------------------------- MODULE RunLifecycleProofs --------------------------
(***************************************************************************)
(* Inv is an invariant of RunLifecycle, for every number of runs,          *)
(* approvals, requests, policies, failure contexts and reopenings, and so  *)
(* are the safety properties that the model checker verifies on small      *)
(* instances.                                                              *)
(***************************************************************************)
EXTENDS RunLifecycle, RunCoreProofs

\* A row that asks no more of the approvals than before is still in step.
LEMMA FollowsKeeps ==
    ASSUME NEW r, NEW s, NEW t, NEW ap, Follows(s, t)
    PROVE  /\ LinkOK(r, s, ap) => LinkOK(r, t, ap)
           /\ SyncOK(r, s, ap) => SyncOK(r, t, ap)
  BY DEF Follows, LinkOK, SyncOK, HasValidRetryable

\* The approvals table only grows, and only pending rows change.
Progress(ap, aq) ==
    \A a \in Approvals : ap[a] # None =>
        /\ aq[a] # None
        /\ aq[a].run_id = ap[a].run_id
        /\ aq[a].action = ap[a].action
        /\ ap[a].status # "pending" => aq[a].status = ap[a].status

\* Such a change keeps every row linked.
LEMMA ProgressKeepsLink ==
    ASSUME NEW r, NEW s \in RunStates, NEW ap, NEW aq, Progress(ap, aq), LinkOK(r, s, ap)
    PROVE  LinkOK(r, s, aq)
<1>1. HasRetryable(s) => s.retryable_action.approval \in Approvals
  BY DEF HasRetryable, RunStates, RetryableActions
<1>2. ASSUME NEW status \in {"approved", "denied"}, DecidedAs(ap, r, status)
      PROVE  DecidedAs(aq, r, status)
  BY <1>2 DEF DecidedAs, Progress
<1> QED
  BY <1>1, <1>2 DEF LinkOK, Progress

\* A decision on a run, applied to one of its rows, keeps the row linked.
LEMMA ResolveLinks ==
    ASSUME NEW r, NEW s \in RunStates, RowOK(s), NEW decision \in {"approve", "deny"},
           NEW nothing_pending \in BOOLEAN, NEW ap, LinkOK(r, s, ap),
           DecidedAs(ap, r, IF decision = "approve" THEN "approved" ELSE "denied")
    PROVE  LinkOK(r, resolve(s, decision, nothing_pending), ap)
<1> DEFINE t == resolve(s, decision, nothing_pending)
<1> SUFFICES LinkOK(r, t, ap)
  OBVIOUS
<1>2. /\ HasRetryable(t) =>
             /\ HasRetryable(s)
             /\ t.retryable_action.approval = s.retryable_action.approval
             /\ t.retryable_action.payload = s.retryable_action.payload
      /\ decision = "approve" => t.status = IF nothing_pending THEN "active" ELSE s.status
      /\ decision = "deny" =>
             /\ t.status = "blocked"
             /\ HasRetryable(t) => ~ t.retryable_action.is_recommended
  BY ResolveChanges
<1> HIDE DEF t
<1>3. CASE decision = "approve"
  <2>1. DecidedAs(ap, r, "approved") /\ t.status \in {"active", s.status}
    BY <1>2, <1>3
  <2> QED
    BY <1>2, <2>1 DEF LinkOK
<1>4. CASE decision = "deny"
  <2>1. DecidedAs(ap, r, "denied")
    BY <1>4
  <2> QED
    BY <1>2, <1>4, <2>1 DEF LinkOK
<1> QED
  BY <1>3, <1>4

\* Replacing the row of r by one with the same links keeps the lineage.
LEMMA LineageKept ==
    ASSUME TypeOK, LineageLinked, NEW r \in Runs, Exists(r), NEW t \in RunStates,
           SameLineage(runs[r], t), runs' = [runs EXCEPT ![r] = t]
    PROVE  LineageLinked'
<1>1. \A q \in Runs : Exists(q)' <=> Exists(q)
  BY NoneAssumption DEF TypeOK, Exists
<1>2. \A q \in Runs : /\ runs'[q].supersedes_run_id = runs[q].supersedes_run_id
                      /\ runs'[q].superseded_by_run_id = runs[q].superseded_by_run_id
  BY DEF TypeOK, SameLineage
<1>3. \A q \in Runs : Exists(q) => /\ runs[q].supersedes_run_id \in Runs \cup {None}
                                   /\ runs[q].superseded_by_run_id \in Runs \cup {None}
  BY DEF TypeOK, Exists, RunStates
<1> QED
  BY <1>1, <1>2, <1>3 DEF LineageLinked

\* The functions that neither create nor decide an approval, nor add a run.
LEMMA RowStep ==
    ASSUME Inv, NEW r \in Runs, Exists(r), NEW t \in RunStates, RowOK(t),
           Follows(runs[r], t), SameLineage(runs[r], t),
           runs' = [runs EXCEPT ![r] = t], UNCHANGED approvals
    PROVE  Inv'
<1>1. TypeOK'
  BY DEF Inv, TypeOK
<1>2. ASSUME NEW q \in Runs, Exists(q)'
      PROVE  /\ RowOK(runs[q])'
             /\ LinkOK(q, runs[q], approvals)'
             /\ SyncOK(q, runs[q], approvals)'
  <2>1. CASE q = r
    <3>1. runs'[q] = t
      BY <2>1 DEF Inv, TypeOK
    <3> QED
      BY <2>1, <3>1, FollowsKeeps DEF Inv
  <2>2. CASE q # r
    <3>1. runs'[q] = runs[q]
      BY <2>2 DEF Inv, TypeOK
    <3>2. Exists(q)
      BY <1>2, <3>1 DEF Exists
    <3> QED
      BY <3>1, <3>2 DEF Inv
  <2> QED
    BY <2>1, <2>2
<1>3. LineageLinked'
  BY LineageKept DEF Inv
<1> QED
  BY <1>1, <1>2, <1>3 DEF Inv

\* The functions that create or decide an approval of r: other runs keep theirs.
LEMMA ApprovalStep ==
    ASSUME Inv, NEW r \in Runs, Exists(r), NEW t \in RunStates, RowOK(t),
           SameLineage(runs[r], t), runs' = [runs EXCEPT ![r] = t],
           approvals' \in [Approvals -> PendingApprovals \cup {None}],
           Progress(approvals, approvals'),
           \A b \in Approvals : (approvals[b] # None /\ approvals[b].run_id # r) =>
               approvals'[b] = approvals[b],
           LinkOK(r, t, approvals'), SyncOK(r, t, approvals')
    PROVE  Inv'
<1>1. TypeOK'
  BY DEF Inv, TypeOK
<1>2. ASSUME NEW q \in Runs, Exists(q)'
      PROVE  /\ RowOK(runs[q])'
             /\ LinkOK(q, runs[q], approvals)'
             /\ SyncOK(q, runs[q], approvals)'
  <2>1. CASE q = r
    <3>1. runs'[q] = t
      BY <2>1 DEF Inv, TypeOK
    <3> QED
      BY <2>1, <3>1
  <2>2. CASE q # r
    <3>1. runs'[q] = runs[q]
      BY <2>2 DEF Inv, TypeOK
    <3>2. Exists(q) /\ runs[q] \in RunStates
      BY <1>2, <3>1 DEF Exists, Inv, TypeOK
    <3>3. RowOK(runs[q]) /\ LinkOK(q, runs[q], approvals) /\ SyncOK(q, runs[q], approvals)
      BY <3>2 DEF Inv
    <3>4. LinkOK(q, runs[q], approvals')
      BY <3>2, <3>3, ProgressKeepsLink
    <3>5. HasRetryable(runs[q]) =>
            approvals'[runs[q].retryable_action.approval]
              = approvals[runs[q].retryable_action.approval]
      <4>1. HasRetryable(runs[q]) => runs[q].retryable_action.approval \in Approvals
        BY <3>2 DEF HasRetryable, RunStates, RetryableActions
      <4> QED
        BY <4>1, <3>3, <2>2 DEF LinkOK
    <3>6. DecidedAs(approvals, q, "pending") => DecidedAs(approvals', q, "pending")
      BY <2>2 DEF DecidedAs
    <3>7. SyncOK(q, runs[q], approvals')
      BY <3>3, <3>5, <3>6 DEF SyncOK, HasValidRetryable
    <3> QED
      BY <3>1, <3>3, <3>4, <3>7
  <2> QED
    BY <2>1, <2>2
<1>3. LineageLinked'
  BY LineageKept DEF Inv
<1> QED
  BY <1>1, <1>2, <1>3 DEF Inv

-----------------------------------------------------------------------------
\* One lemma per kind of step: a new run,
LEMMA PrepareStep ==
    ASSUME Inv, NEW r \in Runs, NEW policy \in Policies, RunPrepare(r, policy)
    PROVE  Inv'
<1> DEFINE t == prepare(policy)
<1>1. t \in RunStates /\ RowOK(t)
  BY PrepareOK
<1>2. runs' = [runs EXCEPT ![r] = t] /\ approvals' = approvals /\ runs[r] = None
  BY DEF RunPrepare, Exists
<1>3. /\ LinkOK(r, t, approvals) /\ SyncOK(r, t, approvals)
      /\ t.supersedes_run_id = None /\ t.superseded_by_run_id = None
  BY DEF prepare, LinkOK, SyncOK, HasRetryable, HasValidRetryable
<1> HIDE DEF t
<1>4. TypeOK'
  BY <1>1, <1>2 DEF Inv, TypeOK
<1>5. ASSUME NEW q \in Runs
      PROVE  /\ q = r => runs'[q] = t
             /\ q # r => runs'[q] = runs[q]
  BY <1>2 DEF Inv, TypeOK
<1>6. \A q \in Runs : Exists(q)' <=> (Exists(q) \/ q = r)
  BY <1>1, <1>2, <1>5, NoneAssumption DEF Exists
<1>7. ASSUME NEW q \in Runs, Exists(q)'
      PROVE  /\ RowOK(runs[q])'
             /\ LinkOK(q, runs[q], approvals)'
             /\ SyncOK(q, runs[q], approvals)'
  BY <1>1, <1>2, <1>3, <1>5, <1>6, <1>7 DEF Inv
<1>8. LineageLinked'
  <2>1. \A q \in Runs : Exists(q) => /\ runs[q].supersedes_run_id \in Runs \cup {None}
                                     /\ runs[q].superseded_by_run_id \in Runs \cup {None}
    BY DEF Inv, TypeOK, Exists, RunStates
  <2>2. ~ Exists(r)
    BY <1>2 DEF Exists
  <2>3. LineageLinked
    BY DEF Inv
  <2> QED
    BY <1>3, <1>5, <1>6, <2>1, <2>2, <2>3 DEF LineageLinked
<1> QED
  BY <1>4, <1>7, <1>8 DEF Inv

\* a request that needs an approval,
LEMMA GateStep ==
    ASSUME Inv, NEW r \in Runs, NEW request \in Requests, NEW a \in Approvals,
           GateRequest(r, request, a)
    PROVE  Inv'
<1> DEFINE t == create_approval(runs[r], request, a)
           row == [run_id |-> r, action |-> request, status |-> "pending"]
<1>1. /\ runs' = [runs EXCEPT ![r] = t] /\ Exists(r) /\ approvals[a] = None
      /\ approvals' = [approvals EXCEPT ![a] = row]
  BY DEF GateRequest
<1>2. runs[r] \in RunStates /\ RowOK(runs[r])
  BY <1>1 DEF Inv, TypeOK, Exists
<1>3. t \in RunStates /\ RowOK(t)
  BY <1>2, CreateApprovalOK
<1>4. /\ SameLineage(runs[r], t)
      /\ t.status = "awaiting_approval"
      /\ t.retryable_action.approval = a
      /\ t.retryable_action.payload = request
      /\ ~ t.retryable_action.is_recommended
  BY <1>2, CreateApprovalChanges
<1>5. row \in PendingApprovals /\ row # None
  BY NoneAssumption DEF PendingApprovals
<1>6. /\ row.run_id = r /\ row.action = request /\ row.status = "pending"
  OBVIOUS
<1> HIDE DEF t, row
<1>7. /\ approvals \in [Approvals -> PendingApprovals \cup {None}]
      /\ approvals' \in [Approvals -> PendingApprovals \cup {None}]
      /\ approvals'[a] = row
      /\ \A b \in Approvals : b # a => approvals'[b] = approvals[b]
  BY <1>1, <1>5 DEF Inv, TypeOK
<1>8. Progress(approvals, approvals')
  BY <1>1, <1>7 DEF Progress
<1>9. LinkOK(r, t, approvals')
  BY <1>4, <1>5, <1>6, <1>7 DEF LinkOK
<1>10. SyncOK(r, t, approvals')
  BY <1>4, <1>5, <1>6, <1>7 DEF SyncOK, DecidedAs
<1> QED
  BY <1>1, <1>3, <1>4, <1>7, <1>8, <1>9, <1>10, ApprovalStep

\* the decision of an approval,
LEMMA ResolveStep ==
    ASSUME Inv, NEW r \in Runs, NEW a \in Approvals, NEW decision \in {"approve", "deny"},
           ApprovalResolve(r, a, decision)
    PROVE  Inv'
<1> DEFINE s == runs[r]
           last == PendingOf(r) = {a}
           t == resolve(s, decision, last)
           verdict == IF decision = "approve" THEN "approved" ELSE "denied"
           row == [approvals[a] EXCEPT !.status = verdict]
<1>1. /\ runs' = [runs EXCEPT ![r] = t] /\ Exists(r)
      /\ approvals[a] # None /\ approvals[a].run_id = r /\ approvals[a].status = "pending"
      /\ approvals' = [approvals EXCEPT ![a] = row]
  BY DEF ApprovalResolve
<1>2. /\ s \in RunStates /\ RowOK(s) /\ LinkOK(r, s, approvals) /\ SyncOK(r, s, approvals)
      /\ approvals[a] \in PendingApprovals
  BY <1>1 DEF Inv, TypeOK, Exists
<1>3. last \in BOOLEAN
  OBVIOUS
<1>7. ~ last => \E b \in Approvals : /\ b # a /\ approvals[b] # None
                                     /\ approvals[b].run_id = r
                                     /\ approvals[b].status = "pending"
  BY <1>1 DEF PendingOf
<1> HIDE DEF s, last
<1>4. t \in RunStates /\ RowOK(t)
  BY <1>2, <1>3, ResolveOK
<1>5. /\ SameLineage(s, t)
      /\ HasRetryable(t) =>
             /\ HasRetryable(s)
             /\ t.retryable_action.approval = s.retryable_action.approval
             /\ t.retryable_action.payload = s.retryable_action.payload
             /\ t.retryable_action.is_valid => s.retryable_action.is_valid
      /\ decision = "approve" => t.status = IF last THEN "active" ELSE s.status
      /\ decision = "deny" =>
             /\ t.status = "blocked"
             /\ ~ HasValidRetryable(t)
  BY <1>2, <1>3, ResolveChanges
<1>6. /\ row \in PendingApprovals /\ row # None
      /\ row.run_id = r /\ row.action = approvals[a].action /\ row.status = verdict
  BY <1>1, <1>2, NoneAssumption DEF PendingApprovals
<1> HIDE DEF t, row
<1>8. /\ approvals \in [Approvals -> PendingApprovals \cup {None}]
      /\ approvals' \in [Approvals -> PendingApprovals \cup {None}]
      /\ approvals'[a] = row
      /\ \A b \in Approvals : b # a => approvals'[b] = approvals[b]
  BY <1>1, <1>6 DEF Inv, TypeOK
<1>9. Progress(approvals, approvals')
  BY <1>1, <1>6, <1>8 DEF Progress
<1>10. LinkOK(r, s, approvals')
  BY <1>2, <1>9, ProgressKeepsLink
<1>11. DecidedAs(approvals', r, verdict)
  BY <1>6, <1>8 DEF DecidedAs
<1>12. LinkOK(r, t, approvals')
  BY <1>2, <1>3, <1>10, <1>11, ResolveLinks DEF t
<1>13. SyncOK(r, t, approvals')
  <2>1. CASE decision = "approve"
    <3>1. t.status = "awaiting_approval" => DecidedAs(approvals', r, "pending")
      BY <2>1, <1>5, <1>7, <1>8 DEF DecidedAs
    <3>2. HasRetryable(s) => s.retryable_action.approval \in Approvals
      BY <1>2 DEF HasRetryable, RunStates, RetryableActions
    <3>3. HasValidRetryable(t) =>
            approvals'[t.retryable_action.approval].status # "denied"
      BY <2>1, <3>2, <1>2, <1>5, <1>6, <1>8 DEF SyncOK, HasValidRetryable
    <3> QED
      BY <3>1, <3>3 DEF SyncOK
  <2>2. CASE decision = "deny"
    BY <2>2, <1>5 DEF SyncOK
  <2> QED
    BY <2>1, <2>2
<1>14. \A b \in Approvals : (approvals[b] # None /\ approvals[b].run_id # r) =>
           approvals'[b] = approvals[b]
  BY <1>1, <1>8
<1> QED
  BY <1>1, <1>4, <1>5, <1>8, <1>9, <1>12, <1>13, <1>14, ApprovalStep DEF s

\* and a run with its successor.
LEMMA SupersedeStep ==
    ASSUME Inv, NEW r \in Runs, NEW n \in Runs, RunSupersede(r, n)
    PROVE  Inv'
<1> DEFINE t == supersede(runs[r], n)
           u == successor_of(runs[r], r)
<1>1. /\ runs' = [runs EXCEPT ![r] = t, ![n] = u] /\ approvals' = approvals
      /\ Exists(r) /\ CanSupersede(runs[r]) /\ ~ Exists(n)
  BY DEF RunSupersede
<1>2. /\ runs[r] \in RunStates /\ RowOK(runs[r]) /\ LinkOK(r, runs[r], approvals)
      /\ SyncOK(r, runs[r], approvals)
  BY <1>1 DEF Inv, TypeOK, Exists
<1>3. t \in RunStates /\ RowOK(t) /\ Follows(runs[r], t)
  BY <1>1, <1>2, SupersedeOK, ClosingFollows
<1>4. u \in RunStates /\ RowOK(u)
  BY <1>2, SuccessorOK
<1>5. /\ LinkOK(n, u, approvals) /\ SyncOK(n, u, approvals)
      /\ u.supersedes_run_id = r /\ u.superseded_by_run_id = None
  BY DEF successor_of, prepare, LinkOK, SyncOK, HasRetryable, HasValidRetryable
<1>6. LinkOK(r, t, approvals) /\ SyncOK(r, t, approvals)
  BY <1>2, <1>3, FollowsKeeps
<1>7. t.superseded_by_run_id = n /\ t.supersedes_run_id = runs[r].supersedes_run_id
  BY <1>2 DEF supersede, RunStates
<1> HIDE DEF t, u
<1>8. TypeOK'
  BY <1>1, <1>3, <1>4 DEF Inv, TypeOK
<1>9. r # n
  BY <1>1
<1>10. ASSUME NEW q \in Runs
       PROVE  /\ q = r => runs'[q] = t
              /\ q = n => runs'[q] = u
              /\ (q # r /\ q # n) => runs'[q] = runs[q]
  BY <1>1, <1>9 DEF Inv, TypeOK
<1>11. \A q \in Runs : Exists(q)' <=> (Exists(q) \/ q = n)
  BY <1>1, <1>3, <1>4, <1>10, NoneAssumption DEF Exists
<1>12. ASSUME NEW q \in Runs, Exists(q)'
       PROVE  /\ RowOK(runs[q])'
              /\ LinkOK(q, runs[q], approvals)'
              /\ SyncOK(q, runs[q], approvals)'
  BY <1>1, <1>3, <1>4, <1>5, <1>6, <1>10, <1>11, <1>12 DEF Inv
<1>13. LineageLinked'
  <2>1. LineageLinked
    BY DEF Inv
  <2>2. None \notin Runs
    BY NoneAssumption
  <2>3. ASSUME NEW q \in Runs, Exists(q)', NEW m \in Runs,
               runs'[q].superseded_by_run_id = m
        PROVE  m # q /\ Exists(m)' /\ runs'[m].supersedes_run_id = q
    <3>1. CASE q = r
      BY <3>1, <2>3, <1>5, <1>7, <1>9, <1>10, <1>11
    <3>2. CASE q = n
      BY <3>2, <2>2, <2>3, <1>5, <1>10
    <3>3. CASE q # r /\ q # n
      <4>1. Exists(q) /\ runs'[q] = runs[q]
        BY <3>3, <2>3, <1>10, <1>11
      <4>2. m # q /\ Exists(m) /\ runs[m].supersedes_run_id = q
        BY <4>1, <2>1, <2>2, <2>3 DEF LineageLinked
      <4> QED
        BY <4>2, <1>1, <1>7, <1>10, <1>11
    <3> QED
      BY <3>1, <3>2, <3>3
  <2>4. ASSUME NEW q \in Runs, Exists(q)', NEW o \in Runs,
               runs'[q].supersedes_run_id = o
        PROVE  o # q /\ Exists(o)' /\ runs'[o].superseded_by_run_id # None
    <3>1. CASE q = n
      BY <3>1, <2>2, <2>4, <1>1, <1>5, <1>7, <1>9, <1>10, <1>11
    <3>2. CASE q # n
      <4>1. Exists(q) /\ runs'[q].supersedes_run_id = runs[q].supersedes_run_id
        BY <3>2, <2>4, <1>7, <1>10, <1>11
      <4>2. o # q /\ Exists(o) /\ runs[o].superseded_by_run_id # None
        BY <4>1, <2>1, <2>2, <2>4 DEF LineageLinked
      <4> QED
        BY <4>2, <2>2, <1>1, <1>7, <1>10, <1>11
    <3> QED
      BY <3>1, <3>2
  <2>5. \A q \in Runs : Exists(q)' =>
            /\ runs'[q].supersedes_run_id \in Runs \cup {None}
            /\ runs'[q].superseded_by_run_id \in Runs \cup {None}
    BY <1>8 DEF TypeOK, Exists, RunStates
  <2> QED
    BY <2>3, <2>4, <2>5 DEF LineageLinked
<1> QED
  BY <1>8, <1>12, <1>13 DEF Inv

-----------------------------------------------------------------------------
\* Every handler keeps the tables consistent.
LEMMA NextKeepsInv ==
    ASSUME Inv, [Next]_vars
    PROVE  Inv'
<1>0. \A r \in Runs : Exists(r) => runs[r] \in RunStates /\ RowOK(runs[r])
  BY DEF Inv, TypeOK, Exists
<1>1. ASSUME NEW r \in Runs, NEW policy \in Policies, RunPrepare(r, policy)
      PROVE  Inv'
  BY <1>1, PrepareStep
<1>2. ASSUME NEW r \in Runs, NEW failure \in Failures \cup {None}, RunReplan(r, failure)
      PROVE  Inv'
  BY <1>0, <1>2, ReplanOK, RowStep DEF RunReplan
<1>3. ASSUME NEW r \in Runs, NEW request \in Requests, NEW a \in Approvals,
             GateRequest(r, request, a)
      PROVE  Inv'
  BY <1>3, GateStep
<1>4. ASSUME NEW r \in Runs, NEW request \in Requests, ExecuteRequest(r, request)
      PROVE  Inv'
  BY <1>0, <1>4, ClearRetryableOK, ClosingFollows, RowStep DEF ExecuteRequest
<1>5. ASSUME NEW r \in Runs, NEW a \in Approvals, NEW decision \in {"approve", "deny"},
             ApprovalResolve(r, a, decision)
      PROVE  Inv'
  BY <1>5, ResolveStep
<1>6. ASSUME NEW r \in Runs, NEW kind \in Outcomes, RunFinalize(r, kind)
      PROVE  Inv'
  BY <1>0, <1>6, FinalizeOK, ClosingFollows, RowStep, LifecycleAssumption DEF RunFinalize
<1>7. ASSUME NEW r \in Runs, RunReopen(r)
      PROVE  Inv'
  BY <1>0, <1>7, ReopenOK, ClosingFollows, RowStep DEF RunReopen
<1>8. ASSUME NEW r \in Runs, NEW n \in Runs, RunSupersede(r, n)
      PROVE  Inv'
  BY <1>8, SupersedeStep
<1>9. ASSUME NEW r \in Runs, RunArchive(r)
      PROVE  Inv'
  BY <1>0, <1>9, ArchiveOK, ClosingFollows, RowStep DEF RunArchive
<1>10. ASSUME NEW r \in Runs, RunUnarchive(r)
       PROVE  Inv'
  BY <1>0, <1>10, UnarchiveOK, ClosingFollows, RowStep DEF RunUnarchive
<1>11. CASE UNCHANGED vars
  BY <1>11 DEF Inv, TypeOK, Exists, LineageLinked, vars
<1> QED
  BY <1>1, <1>2, <1>3, <1>4, <1>5, <1>6, <1>7, <1>8, <1>9, <1>10, <1>11 DEF Next

\* The empty database satisfies the invariant.
LEMMA InitInv == Init => Inv
  BY DEF Init, Inv, TypeOK, Exists, LineageLinked

\* The inductive invariant holds in every reachable state of a daemon that
\* serves one request at a time: rows, approvals and lineage stay consistent.
THEOREM Safety == Spec => []Inv
<1> QED
  BY InitInv, NextKeepsInv, PTL DEF Spec

\* Both tables keep to their schema.
THEOREM TypeCorrect == Spec => []TypeOK
<1>1. Inv => TypeOK
  BY DEF Inv
<1> QED
  BY <1>1, Safety, PTL

\* A finalized run shows the outcome it was closed with.
THEOREM OutcomeShown == Spec => []FinalizedMatchesOutcome
<1>1. Inv => FinalizedMatchesOutcome
  BY DEF Inv, RowOK, FinalizedMatchesOutcome
<1> QED
  BY <1>1, Safety, PTL

\* A run that awaits an approval has one to resolve.
THEOREM NeverAwaitsNothing == Spec => []AwaitingHasPending
<1>1. Inv => AwaitingHasPending
  BY DEF Inv, SyncOK, DecidedAs, AwaitingHasPending, PendingOf
<1> QED
  BY <1>1, Safety, PTL

\* A denied action is not offered again.
THEOREM DenialInvalidates == Spec => []DeniedActionInvalid
<1>1. Inv => DeniedActionInvalid
  BY DEF Inv, SyncOK, DeniedActionInvalid
<1> QED
  BY <1>1, Safety, PTL

\* Only a denial blocks a run, and nothing of a blocked run can be retried.
THEOREM OnlyDenialBlocks == Spec => []BlockedByDenial
<1>1. Inv => BlockedByDenial
  BY DEF Inv, RowOK, LinkOK, DecidedAs, BlockedByDenial
<1> QED
  BY <1>1, Safety, PTL

\* No retry is recommended without an approval on the run.
THEOREM NoRetryUnapproved == Spec => []RecommendedWasApproved
<1>1. Inv => RecommendedWasApproved
  BY DEF Inv, RowOK, LinkOK, DecidedAs, RecommendedWasApproved
<1> QED
  BY <1>1, Safety, PTL

\* Only runs that were once closed are archived or superseded.
THEOREM OnlyClosedLeave == Spec => []ClosedBefore
<1>1. Inv => ClosedBefore
  BY DEF Inv, RowOK, ClosedBefore
<1> QED
  BY <1>1, Safety, PTL

\* Successor and predecessor links agree.
THEOREM LineageAgrees == Spec => []LineageLinked
<1>1. Inv => LineageLinked
  BY DEF Inv
<1> QED
  BY <1>1, Safety, PTL

\* Only the successor of a superseded run can be declared done.
THEOREM DoneIsASuccessor == Spec => []DoneOnlyWithoutPlan
<1>1. Inv => DoneOnlyWithoutPlan
  BY DEF Inv, RowOK, DoneOnlyWithoutPlan
<1> QED
  BY <1>1, Safety, PTL

\* No handler decides an approval twice or moves it to another run or action.
THEOREM DecisionsStand == Spec => DecidedOnce
<1>1. ASSUME TypeOK, [Next]_vars
      PROVE  [ApprovalsOnlyDecided]_vars
  <2>1. ASSUME NEW r \in Runs, NEW request \in Requests, NEW a \in Approvals,
               GateRequest(r, request, a)
        PROVE  ApprovalsOnlyDecided
    BY <1>1, <2>1 DEF GateRequest, ApprovalsOnlyDecided, TypeOK
  <2>2. ASSUME NEW r \in Runs, NEW a \in Approvals, NEW decision \in {"approve", "deny"},
               ApprovalResolve(r, a, decision)
        PROVE  ApprovalsOnlyDecided
    <3>1. approvals[a] \in PendingApprovals
      BY <1>1, <2>2 DEF TypeOK, ApprovalResolve
    <3>2. PICK verdict \in {"approved", "denied"} :
              approvals' = [approvals EXCEPT ![a] = [@ EXCEPT !.status = verdict]]
      BY <2>2 DEF ApprovalResolve
    <3>3. /\ [approvals[a] EXCEPT !.status = verdict] \in PendingApprovals
          /\ [approvals[a] EXCEPT !.status = verdict].run_id = approvals[a].run_id
          /\ [approvals[a] EXCEPT !.status = verdict].action = approvals[a].action
      BY <3>1 DEF PendingApprovals
    <3>4. approvals[a].status = "pending"
      BY <2>2 DEF ApprovalResolve
    <3> QED
      BY <1>1, <3>2, <3>3, <3>4, NoneAssumption DEF TypeOK, ApprovalsOnlyDecided
  <2>3. UNCHANGED approvals => ApprovalsOnlyDecided
    BY DEF ApprovalsOnlyDecided
  <2> QED
    BY <1>1, <2>1, <2>2, <2>3
       DEF Next, vars, RunPrepare, RunReplan, ExecuteRequest, RunFinalize, RunReopen,
           RunSupersede, RunArchive, RunUnarchive
<1> QED
  BY <1>1, TypeCorrect, PTL DEF Spec, DecidedOnce

-----------------------------------------------------------------------------
\* What the step of one handler does to the row of the run it is about: the plan,
\* the policy and the predecessor are kept, and so is an outcome, except that a
\* finalized run is reopened.
RowStands(s, t) ==
    /\ t \in RunStates
    /\ KeepsPlan(s, t)
    /\ t.policy_profile = s.policy_profile
    /\ t.supersedes_run_id = s.supersedes_run_id
    /\ \/ KeepsOutcome(s, t)
       \/ s.finalized_outcome = None
       \/ /\ IsFinalized(s)
          /\ t.finalized_outcome = None
          /\ t.status = "active"
          /\ t.reopen_count = s.reopen_count + 1

\* Every step leaves an existing row as it is or does that to it.
LEMMA NextStands ==
    ASSUME Inv, [Next]_vars, NEW q \in Runs, Exists(q)
    PROVE  RowStands(runs[q], runs'[q])
<1>1. ASSUME NEW r \in Runs, Exists(r)
      PROVE  runs[r] \in RunStates /\ RowOK(runs[r]) /\ RowStands(runs[r], runs[r])
  <2>1. runs[r] \in RunStates /\ RowOK(runs[r])
    BY <1>1 DEF Inv, TypeOK, Exists
  <2> QED
    BY <2>1, PlanUntouched DEF RowStands, KeepsOutcome
<1>2. ASSUME NEW r \in Runs, NEW t, Exists(r), RowStands(runs[r], t),
             runs' = [runs EXCEPT ![r] = t]
      PROVE  RowStands(runs[q], runs'[q])
  BY <1>1, <1>2 DEF Inv, TypeOK
<1>3. ASSUME NEW r \in Runs, NEW policy \in Policies, RunPrepare(r, policy)
      PROVE  RowStands(runs[q], runs'[q])
  BY <1>1, <1>3 DEF RunPrepare, Inv, TypeOK
<1>4. ASSUME NEW r \in Runs, NEW failure \in Failures \cup {None}, RunReplan(r, failure)
      PROVE  RowStands(runs[q], runs'[q])
  BY <1>1, <1>2, <1>4, ReplanOK, ReplanKeeps DEF RunReplan, RowStands, SameLineage
<1>5. ASSUME NEW r \in Runs, NEW request \in Requests, NEW a \in Approvals,
             GateRequest(r, request, a)
      PROVE  RowStands(runs[q], runs'[q])
  BY <1>1, <1>2, <1>5, CreateApprovalOK, CreateApprovalChanges, ApprovalKeeps
     DEF GateRequest, RowStands, SameLineage
<1>6. ASSUME NEW r \in Runs, NEW request \in Requests, ExecuteRequest(r, request)
      PROVE  RowStands(runs[q], runs'[q])
  BY <1>1, <1>2, <1>6, ClearRetryableOK, ClosingFollows, ClosingKeeps
     DEF ExecuteRequest, RowStands, SameLineage
<1>7. ASSUME NEW r \in Runs, NEW a \in Approvals, NEW decision \in {"approve", "deny"},
             ApprovalResolve(r, a, decision)
      PROVE  RowStands(runs[q], runs'[q])
  <2> DEFINE last == PendingOf(r) = {a}
             t == resolve(runs[r], decision, last)
  <2>1. Exists(r) /\ runs' = [runs EXCEPT ![r] = t] /\ last \in BOOLEAN
    BY <1>7 DEF ApprovalResolve
  <2> HIDE DEF last
  <2>2. RowStands(runs[r], t)
    BY <1>1, <2>1, ResolveOK, ResolveChanges, ApprovalKeeps DEF RowStands, SameLineage
  <2> QED
    BY <1>2, <2>1, <2>2
<1>8. ASSUME NEW r \in Runs, NEW kind \in Outcomes, RunFinalize(r, kind)
      PROVE  RowStands(runs[q], runs'[q])
  BY <1>1, <1>2, <1>8, FinalizeOK, ClosingFollows, ClosingKeeps, LifecycleAssumption
     DEF RunFinalize, CanFinalize, RowStands, SameLineage
<1>9. ASSUME NEW r \in Runs, RunReopen(r)
      PROVE  RowStands(runs[q], runs'[q])
  BY <1>1, <1>2, <1>9, ReopenOK, ClosingFollows, ClosingKeeps
     DEF RunReopen, CanReopen, RowStands, SameLineage
<1>10. ASSUME NEW r \in Runs, NEW n \in Runs, RunSupersede(r, n)
       PROVE  RowStands(runs[q], runs'[q])
  <2> DEFINE t == supersede(runs[r], n)
             u == successor_of(runs[r], r)
  <2>1. /\ runs' = [runs EXCEPT ![r] = t, ![n] = u]
        /\ Exists(r) /\ CanSupersede(runs[r]) /\ ~ Exists(n)
    BY <1>10 DEF RunSupersede
  <2>2. RowStands(runs[r], t)
    <3>1. /\ t.policy_profile = runs[r].policy_profile
          /\ t.supersedes_run_id = runs[r].supersedes_run_id
      BY <1>1, <2>1 DEF supersede, RunStates
    <3> QED
      BY <1>1, <2>1, <3>1, SupersedeOK, ClosingKeeps DEF RowStands
  <2> HIDE DEF t, u
  <2>3. q # n /\ n # r
    BY <2>1
  <2>4. (q = r => runs'[q] = t) /\ (q # r => runs'[q] = runs[q])
    BY <2>1, <2>3 DEF Inv, TypeOK
  <2> QED
    BY <1>1, <2>2, <2>4
<1>11. ASSUME NEW r \in Runs, RunArchive(r)
       PROVE  RowStands(runs[q], runs'[q])
  BY <1>1, <1>2, <1>11, ArchiveOK, ClosingFollows, ClosingKeeps
     DEF RunArchive, RowStands, SameLineage
<1>12. ASSUME NEW r \in Runs, RunUnarchive(r)
       PROVE  RowStands(runs[q], runs'[q])
  BY <1>1, <1>2, <1>12, UnarchiveOK, ClosingFollows, ClosingKeeps
     DEF RunUnarchive, RowStands, SameLineage
<1>13. CASE UNCHANGED vars
  BY <1>1, <1>13 DEF vars
<1> QED
  BY <1>3, <1>4, <1>5, <1>6, <1>7, <1>8, <1>9, <1>10, <1>11, <1>12, <1>13 DEF Next

\* No handler forgets a run, starts it over, or changes its policy, its
\* predecessor or the plan it was created with.
THEOREM HistoryStands == Spec => HistoryKept
<1>1. ASSUME Inv, [Next]_vars
      PROVE  [RunsOnlyGrow]_vars
  <2>1. ASSUME NEW q \in Runs, Exists(q)
        PROVE  RowStands(runs[q], runs'[q])
    BY <1>1, <2>1, NextStands
  <2> QED
    BY <2>1, NoneAssumption DEF RunsOnlyGrow, RowStands, KeepsPlan
<1> QED
  BY <1>1, Safety, PTL DEF Spec, HistoryKept

\* Only a counted reopening of a finalized run takes its outcome away.
THEOREM OutcomeStands == Spec => OutcomeKeptUntilReopen
<1>1. ASSUME Inv, [Next]_vars
      PROVE  [OutcomesOnlyReopened]_vars
  BY <1>1, NextStands DEF OutcomesOnlyReopened, RowStands, KeepsOutcome
<1> QED
  BY <1>1, Safety, PTL DEF Spec, OutcomeKeptUntilReopen
=============================================================================
