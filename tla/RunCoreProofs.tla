---------------------------- MODULE RunCoreProofs ----------------------------
(***************************************************************************)
(* Lemmas about the core functions: each one takes a row of the schema to  *)
(* a row of the schema, and a row that satisfies RowOK to one that does.   *)
(***************************************************************************)
EXTENDS RunCore, SequenceTheorems, TLAPS

\* t asks no more of the approvals table than s: its retryable action, if any,
\* is that of s, not more valid or recommended, and it waits or is blocked only
\* if s does.
Follows(s, t) ==
    /\ HasRetryable(t) =>
           /\ HasRetryable(s)
           /\ t.retryable_action.approval = s.retryable_action.approval
           /\ t.retryable_action.payload = s.retryable_action.payload
           /\ t.retryable_action.is_valid => s.retryable_action.is_valid
           /\ t.retryable_action.is_recommended => s.retryable_action.is_recommended
    /\ t.status \in {"blocked", "awaiting_approval"} => t.status = s.status

SameLineage(s, t) ==
    /\ t.policy_profile = s.policy_profile
    /\ t.supersedes_run_id = s.supersedes_run_id
    /\ t.superseded_by_run_id = s.superseded_by_run_id

-----------------------------------------------------------------------------
\* The row of a new run is well typed and consistent.
LEMMA PrepareOK ==
    ASSUME NEW policy \in Policies
    PROVE  /\ prepare(policy) \in RunStates
           /\ RowOK(prepare(policy))
<1>1. PlanSteps \in Seq(Steps) /\ PlanSteps # <<>>
  BY DEF PlanSteps, Steps, PlanStepNames
<1>2. prepare(policy) \in RunStates
  BY <1>1 DEF prepare, RunStates, Statuses, Tools
<1>3. RowOK(prepare(policy))
  BY <1>1, NoneAssumption
     DEF prepare, RowOK, HasValidRetryable, HasRetryable, OutcomeKinds, FinalizedAs
<1> QED
  BY <1>2, <1>3

\* So is the row of a successor run.
LEMMA SuccessorOK ==
    ASSUME NEW s \in RunStates, NEW r \in Runs
    PROVE  /\ successor_of(s, r) \in RunStates
           /\ RowOK(successor_of(s, r))
<1>1. s.policy_profile \in Policies
  BY DEF RunStates
<1>2. successor_of(s, r) \in RunStates
  <2> DEFINE p == prepare(s.policy_profile)
  <2>1. p \in RunStates
    BY <1>1, PrepareOK
  <2>2. successor_of(s, r) = [p EXCEPT !.pending_steps = <<>>,
                                       !.recommended_tool = "refresh_run_state",
                                       !.supersedes_run_id = r]
    BY DEF successor_of
  <2> HIDE DEF p
  <2>3. <<>> \in Seq(Steps)
    BY EmptySeq
  <2>4. [p EXCEPT !.pending_steps = <<>>,
                  !.recommended_tool = "refresh_run_state",
                  !.supersedes_run_id = r] \in RunStates
    BY <2>1, <2>3 DEF RunStates, Tools
  <2> QED
    BY <2>2, <2>4
<1>3. RowOK(successor_of(s, r))
  BY NoneAssumption
     DEF successor_of, prepare, RowOK, HasValidRetryable, HasRetryable, OutcomeKinds,
         FinalizedAs
<1> QED
  BY <1>2, <1>3

\* Gating a request.
LEMMA CreateApprovalOK ==
    ASSUME NEW s \in RunStates, RowOK(s), NEW request \in Requests, NEW a \in Approvals
    PROVE  /\ create_approval(s, request, a) \in RunStates
           /\ RowOK(create_approval(s, request, a))
<1>1. create_approval(s, request, a) \in RunStates
  BY DEF create_approval, RunStates, RetryableActions, Statuses, Tools
<1>2. RowOK(create_approval(s, request, a))
  BY DEF create_approval, RunStates, RowOK, HasValidRetryable, HasRetryable, OutcomeKinds,
         FinalizedAs
<1> QED
  BY <1>1, <1>2

\* Executing a request.
LEMMA ClearRetryableOK ==
    ASSUME NEW s \in RunStates, RowOK(s)
    PROVE  /\ clear_retryable(s) \in RunStates
           /\ RowOK(clear_retryable(s))
<1>1. clear_retryable(s) \in RunStates
  BY DEF clear_retryable, RunStates
<1>2. RowOK(clear_retryable(s))
  BY DEF clear_retryable, RunStates, RowOK, HasValidRetryable, HasRetryable
<1> QED
  BY <1>1, <1>2

\* What resolve and replan do to the retryable action.
LEMMA RetryableOK ==
    ASSUME NEW s \in RunStates, RowOK(s)
    PROVE  /\ Invalidated(s) \in RunStates /\ RowOK(Invalidated(s))
           /\ ~ HasValidRetryable(Invalidated(s))
           /\ Follows(s, Invalidated(s)) /\ SameLineage(s, Invalidated(s))
           /\ Recommended(s) \in RunStates /\ RowOK(Recommended(s))
           /\ Recommended(s).status = s.status /\ SameLineage(s, Recommended(s))
<1>1. CASE ~ HasRetryable(s)
  BY <1>1 DEF Invalidated, Recommended, HasValidRetryable, Follows, SameLineage
<1>2. CASE HasRetryable(s)
  <2>1. s.retryable_action \in RetryableActions
    BY <1>2 DEF RunStates, HasRetryable
  <2>2. Invalidated(s) \in RunStates
    BY <1>2, <2>1 DEF Invalidated, RunStates, RetryableActions
  <2>3. RowOK(Invalidated(s)) /\ ~ HasValidRetryable(Invalidated(s))
    BY <1>2, <2>1
       DEF Invalidated, RunStates, RetryableActions, RowOK, HasValidRetryable, HasRetryable
  <2>4. Follows(s, Invalidated(s)) /\ SameLineage(s, Invalidated(s))
    BY <1>2, <2>1
       DEF Invalidated, RunStates, RetryableActions, Follows, SameLineage, HasRetryable
  <2>5. Recommended(s) \in RunStates
    BY <1>2, <2>1 DEF Recommended, RunStates, RetryableActions, HasValidRetryable
  <2>6. RowOK(Recommended(s)) /\ Recommended(s).status = s.status
    BY <1>2, <2>1
       DEF Recommended, RunStates, RetryableActions, RowOK, HasValidRetryable, HasRetryable
  <2>7. SameLineage(s, Recommended(s))
    BY <1>2, <2>1 DEF Recommended, RunStates, RetryableActions, SameLineage
  <2> QED
    BY <2>2, <2>3, <2>4, <2>5, <2>6, <2>7
<1> QED
  BY <1>1, <1>2

\* Resolving an approval.
LEMMA ResolveOK ==
    ASSUME NEW s \in RunStates, RowOK(s), NEW decision \in {"approve", "deny"},
           NEW nothing_pending \in BOOLEAN
    PROVE  /\ resolve(s, decision, nothing_pending) \in RunStates
           /\ RowOK(resolve(s, decision, nothing_pending))
<1>1. CASE decision = "approve"
  <2> DEFINE t == Recommended(s)
             tool == ToolAfterApproval(s)
  <2>1. t \in RunStates /\ RowOK(t)
    BY RetryableOK
  <2>2. tool \in Tools
    BY DEF ToolAfterApproval, ToolOf, Tools
  <2>3. resolve(s, decision, nothing_pending) =
          IF nothing_pending
          THEN [t EXCEPT !.status = "active", !.recommended_tool = tool]
          ELSE [t EXCEPT !.recommended_tool = "approve_action"]
    BY <1>1 DEF resolve, resolve_approve
  <2> HIDE DEF t, tool
  <2>4. resolve(s, decision, nothing_pending) \in RunStates
    <3>1. [t EXCEPT !.status = "active", !.recommended_tool = tool] \in RunStates
      BY <2>1, <2>2 DEF RunStates, Statuses
    <3>2. [t EXCEPT !.recommended_tool = "approve_action"] \in RunStates
      BY <2>1 DEF RunStates, Tools
    <3> QED
      BY <2>3, <3>1, <3>2
  <2>5. RowOK(resolve(s, decision, nothing_pending))
    BY <2>1, <2>3
       DEF RunStates, RowOK, HasValidRetryable, HasRetryable, OutcomeKinds, FinalizedAs
  <2> QED
    BY <2>4, <2>5
<1>2. CASE decision = "deny"
  <2> DEFINE t == Invalidated(s)
  <2>1. t \in RunStates /\ RowOK(t) /\ ~ HasValidRetryable(t)
    BY RetryableOK
  <2>2. resolve(s, decision, nothing_pending) =
          [t EXCEPT !.status = "blocked", !.recommended_tool = "replan_run"]
    BY <1>2 DEF resolve, resolve_deny
  <2> HIDE DEF t
  <2>3. resolve(s, decision, nothing_pending) \in RunStates
    BY <2>1, <2>2 DEF RunStates, Statuses, Tools
  <2>4. RowOK(resolve(s, decision, nothing_pending))
    BY <2>1, <2>2
       DEF RunStates, RowOK, HasValidRetryable, HasRetryable, OutcomeKinds, FinalizedAs
  <2> QED
    BY <2>3, <2>4
<1> QED
  BY <1>1, <1>2

\* Every step has a tool to recommend.
LEMMA StepToolOK ==
    ASSUME NEW step \in Steps
    PROVE  recommend_for_step(step) \in Tools
<1>1. CASE step \in PlanStepNames
  BY <1>1 DEF recommend_for_step, PlanStepNames, Tools
<1>2. CASE step \notin PlanStepNames
  <2>1. step \in Failures
    BY <1>2 DEF Steps
  <2>2. recommend_for_step(step) = FailureTool[step]
    BY <1>2 DEF recommend_for_step, PlanStepNames
  <2>3. FailureTool[step] \in Tools
    BY <2>1, CoreAssumption
  <2> QED
    BY <2>2, <2>3
<1> QED
  BY <1>1, <1>2

\* The end of replan, which computes the next step.
LEMMA ReplanNextOK ==
    ASSUME NEW s \in RunStates, RowOK(s)
    PROVE  /\ ReplanNext(s) \in RunStates /\ RowOK(ReplanNext(s))
           /\ Follows(s, ReplanNext(s)) /\ SameLineage(s, ReplanNext(s))
<1> DEFINE status == CASE s.pending_steps = <<>> -> "done"
                       [] s.pending_steps # <<>> /\ s.status = "prepared" -> "active"
                       [] OTHER -> s.status
           tool == IF s.pending_steps = <<>> THEN "show_diff"
                   ELSE recommend_for_step(Head(s.pending_steps))
           t == [s EXCEPT !.status = status, !.recommended_tool = tool]
<1>1. ReplanNext(s) = t
  BY DEF ReplanNext
<1>2. status \in Statuses
  BY DEF RunStates, Statuses
<1>3. tool \in Tools
  <2>1. s.pending_steps \in Seq(Steps)
    BY DEF RunStates
  <2>2. s.pending_steps # <<>> => Head(s.pending_steps) \in Steps
    BY <2>1
  <2> QED
    BY <2>2, StepToolOK DEF Tools
<1>4. /\ status = "done" => s.pending_steps = <<>> \/ s.status = "done"
      /\ status \in {"done", "active", s.status}
  OBVIOUS
<1> HIDE DEF status, tool
<1>5. t \in RunStates
  BY <1>2, <1>3 DEF RunStates
<1>6. RowOK(t)
  BY <1>4 DEF RunStates, RowOK, HasValidRetryable, HasRetryable, OutcomeKinds, FinalizedAs
<1>7. Follows(s, t) /\ SameLineage(s, t)
  BY <1>4 DEF RunStates, Follows, SameLineage, HasRetryable
<1> QED
  BY <1>1, <1>5, <1>6, <1>7

\* replan without a failure context, up to the choice of the next step.
LEMMA ReplanNoFailureOK ==
    ASSUME NEW s \in RunStates, RowOK(s)
    PROVE  /\ ReplanNoFailure(s) \in RunStates /\ RowOK(ReplanNoFailure(s))
           /\ Follows(s, ReplanNoFailure(s)) /\ SameLineage(s, ReplanNoFailure(s))
<1>1. CASE s.status = "blocked"
  <2> DEFINE t == [s EXCEPT !.status = "active", !.retryable_action = s.retryable_action]
  <2>1. ~ HasValidRetryable(s)
    BY <1>1 DEF RowOK
  <2>2. ReplanNoFailure(s) = t
    BY <1>1, <2>1 DEF ReplanNoFailure
  <2>3. t \in RunStates
    BY DEF RunStates, Statuses
  <2>4. RowOK(t)
    BY DEF RunStates, RowOK, HasValidRetryable, HasRetryable, OutcomeKinds, FinalizedAs
  <2>5. Follows(s, t) /\ SameLineage(s, t)
    BY DEF RunStates, Follows, SameLineage, HasRetryable
  <2> QED
    BY <2>2, <2>3, <2>4, <2>5
<1>2. CASE s.status # "blocked"
  BY <1>2 DEF ReplanNoFailure, Follows, SameLineage
<1> QED
  BY <1>1, <1>2

\* replan with a failure context, up to the choice of the next step.
LEMMA ReplanFailureOK ==
    ASSUME NEW s \in RunStates, RowOK(s), NEW failure \in Failures
    PROVE  /\ ReplanFailure(s, failure) \in RunStates
           /\ RowOK(ReplanFailure(s, failure))
           /\ Follows(s, ReplanFailure(s, failure))
           /\ SameLineage(s, ReplanFailure(s, failure))
<1> DEFINE t == IF HasValidRetryable(s) THEN Invalidated(s) ELSE s
           status == IF t.status \in {"blocked", "awaiting_approval"} THEN "active"
                     ELSE t.status
           steps == IF Contains(t.pending_steps, failure) THEN t.pending_steps
                    ELSE <<failure>> \o t.pending_steps
           u == [t EXCEPT !.status = status, !.pending_steps = steps]
<1>1. t \in RunStates /\ RowOK(t) /\ Follows(s, t) /\ SameLineage(s, t)
  BY RetryableOK DEF Follows, SameLineage
<1>2. ReplanFailure(s, failure) = u
  BY DEF ReplanFailure
<1>3. /\ status \in Statuses /\ status \in {"active", t.status}
      /\ status \notin {"blocked", "awaiting_approval"}
  BY <1>1 DEF RunStates, Statuses
<1>4. steps \in Seq(Steps) /\ (t.pending_steps # <<>> => steps # <<>>)
  <2>1. t.pending_steps \in Seq(Steps) /\ <<failure>> \in Seq(Steps)
    BY <1>1 DEF RunStates, Steps
  <2>2. <<failure>> \o t.pending_steps \in Seq(Steps)
    BY <2>1, ConcatProperties
  <2>3. <<failure>> \o t.pending_steps # <<>>
    BY <2>1, ConcatProperties, Len(<<failure>>) = 1, Len(<<>>) = 0
  <2> QED
    BY <2>1, <2>2, <2>3
<1> HIDE DEF t, status, steps
<1>5. u \in RunStates
  BY <1>1, <1>3, <1>4 DEF RunStates
<1>6. RowOK(u)
  BY <1>1, <1>3, <1>4
     DEF RunStates, RowOK, HasValidRetryable, HasRetryable, OutcomeKinds, FinalizedAs
<1>7. Follows(s, u) /\ SameLineage(s, u)
  BY <1>1, <1>3 DEF RunStates, Follows, SameLineage, HasRetryable
<1> QED
  BY <1>2, <1>5, <1>6, <1>7

\* Replanning, with or without a failure context.
LEMMA ReplanOK ==
    ASSUME NEW s \in RunStates, RowOK(s), NEW failure \in Failures \cup {None}
    PROVE  /\ replan(s, failure) \in RunStates /\ RowOK(replan(s, failure))
           /\ Follows(s, replan(s, failure)) /\ SameLineage(s, replan(s, failure))
<1> DEFINE u == IF failure = None THEN ReplanNoFailure(s) ELSE ReplanFailure(s, failure)
<1>1. u \in RunStates /\ RowOK(u) /\ Follows(s, u) /\ SameLineage(s, u)
  BY ReplanNoFailureOK, ReplanFailureOK
<1>2. replan(s, failure) = ReplanNext(u)
  BY DEF replan
<1> HIDE DEF u
<1>3. /\ ReplanNext(u) \in RunStates /\ RowOK(ReplanNext(u))
      /\ Follows(u, ReplanNext(u)) /\ SameLineage(u, ReplanNext(u))
  BY <1>1, ReplanNextOK
<1>4. Follows(s, ReplanNext(u)) /\ SameLineage(s, ReplanNext(u))
  BY <1>1, <1>3 DEF Follows, SameLineage
<1> QED
  BY <1>2, <1>3, <1>4

\* Closing a run and reopening it.
LEMMA FinalizeOK ==
    ASSUME NEW s \in RunStates, RowOK(s), NEW kind \in OutcomeKinds
    PROVE  finalize(s, kind) \in RunStates /\ RowOK(finalize(s, kind))
<1>1. FinalizedAs(kind) \in FinalizedStatuses
  BY DEF FinalizedAs, FinalizedStatuses, OutcomeKinds
<1>2. \A k \in OutcomeKinds : FinalizedAs(k) = FinalizedAs(kind) => k = kind
  BY DEF FinalizedAs, OutcomeKinds
<1>3. finalize(s, kind) \in RunStates
  BY <1>1 DEF finalize, RunStates, Statuses
<1>4. FinalizedAs(kind) \notin {"blocked", "done"}
  BY <1>1 DEF FinalizedStatuses
<1>5. RowOK(finalize(s, kind))
  BY <1>2, <1>4, NoneAssumption DEF finalize, RunStates, RowOK, HasValidRetryable, HasRetryable
<1> QED
  BY <1>3, <1>5

\* run.reopen keeps a row well-formed: it clears the outcome it found and makes
\* the run active again.
LEMMA ReopenOK ==
    ASSUME NEW s \in RunStates, RowOK(s)
    PROVE  reopen(s) \in RunStates /\ RowOK(reopen(s))
<1>1. reopen(s) \in RunStates
  <2> DEFINE n == s.reopen_count + 1
  <2>1. n \in Nat
    BY DEF RunStates
  <2>2. reopen(s) = [s EXCEPT !.status = "active", !.finalized_outcome = None,
                              !.reopen_count = n]
    BY DEF reopen
  <2> HIDE DEF n
  <2>3. [s EXCEPT !.status = "active", !.finalized_outcome = None,
                  !.reopen_count = n] \in RunStates
    BY <2>1 DEF RunStates, Statuses
  <2> QED
    BY <2>2, <2>3
<1>2. RowOK(reopen(s))
  BY DEF reopen, RunStates, RowOK, HasValidRetryable, HasRetryable, OutcomeKinds, FinalizedAs
<1> QED
  BY <1>1, <1>2

\* A finalized row has an outcome.
LEMMA FinalizedHasOutcome ==
    ASSUME NEW s \in RunStates, RowOK(s), IsFinalized(s)
    PROVE  s.finalized_outcome # None
<1>1. PICK kind \in OutcomeKinds : s.status = FinalizedAs(kind)
  BY DEF IsFinalized, FinalizedStatuses, OutcomeKinds, FinalizedAs
<1> QED
  BY <1>1, NoneAssumption DEF RowOK

\* run.supersede keeps the row it supersedes well-formed.
LEMMA SupersedeOK ==
    ASSUME NEW s \in RunStates, RowOK(s), CanSupersede(s), NEW r \in Runs
    PROVE  supersede(s, r) \in RunStates /\ RowOK(supersede(s, r))
<1>1. supersede(s, r) \in RunStates
  BY DEF supersede, RunStates
<1>2. s.finalized_outcome # None
  BY FinalizedHasOutcome DEF CanSupersede
<1>3. RowOK(supersede(s, r))
  BY <1>2 DEF supersede, RunStates, RowOK, HasValidRetryable, HasRetryable
<1> QED
  BY <1>1, <1>3

\* run.archive keeps a row well-formed: it only sets the archive mark.
LEMMA ArchiveOK ==
    ASSUME NEW s \in RunStates, RowOK(s), CanArchive(s)
    PROVE  archive(s) \in RunStates /\ RowOK(archive(s))
<1>1. archive(s) \in RunStates
  BY DEF archive, RunStates
<1>2. s.finalized_outcome # None
  BY FinalizedHasOutcome DEF CanArchive
<1>3. RowOK(archive(s))
  BY <1>2 DEF archive, RunStates, RowOK, HasValidRetryable, HasRetryable
<1> QED
  BY <1>1, <1>3

\* run.unarchive keeps a row well-formed: it sets a mark of its own and leaves
\* the archive mark in place.
LEMMA UnarchiveOK ==
    ASSUME NEW s \in RunStates, RowOK(s)
    PROVE  unarchive(s) \in RunStates /\ RowOK(unarchive(s))
<1>1. unarchive(s) \in RunStates
  BY DEF unarchive, RunStates
<1>2. RowOK(unarchive(s))
  BY DEF unarchive, RunStates, RowOK, HasValidRetryable, HasRetryable
<1> QED
  BY <1>1, <1>2

\* The functions that neither create nor decide an approval.
LEMMA ClosingFollows ==
    ASSUME NEW s \in RunStates
    PROVE  /\ Follows(s, clear_retryable(s)) /\ SameLineage(s, clear_retryable(s))
           /\ Follows(s, reopen(s))          /\ SameLineage(s, reopen(s))
           /\ Follows(s, archive(s))         /\ SameLineage(s, archive(s))
           /\ Follows(s, unarchive(s))       /\ SameLineage(s, unarchive(s))
           /\ \A kind \in OutcomeKinds :
                  Follows(s, finalize(s, kind)) /\ SameLineage(s, finalize(s, kind))
           /\ \A r \in Runs : Follows(s, supersede(s, r))
<1>1. Follows(s, clear_retryable(s)) /\ SameLineage(s, clear_retryable(s))
  BY DEF clear_retryable, RunStates, Follows, SameLineage, HasRetryable
<1>2. Follows(s, reopen(s)) /\ SameLineage(s, reopen(s))
  BY DEF reopen, RunStates, Follows, SameLineage, HasRetryable
<1>3. Follows(s, archive(s)) /\ SameLineage(s, archive(s))
  BY DEF archive, RunStates, Follows, SameLineage, HasRetryable
<1>4. Follows(s, unarchive(s)) /\ SameLineage(s, unarchive(s))
  BY DEF unarchive, RunStates, Follows, SameLineage, HasRetryable
<1>5. ASSUME NEW kind \in OutcomeKinds
      PROVE  Follows(s, finalize(s, kind)) /\ SameLineage(s, finalize(s, kind))
  <2>1. FinalizedAs(kind) \notin {"blocked", "awaiting_approval"}
    BY DEF FinalizedAs, OutcomeKinds
  <2> QED
    BY <2>1 DEF finalize, RunStates, Follows, SameLineage, HasRetryable
<1>6. ASSUME NEW r \in Runs
      PROVE  Follows(s, supersede(s, r))
  BY DEF supersede, RunStates, Follows, HasRetryable
<1> QED
  BY <1>1, <1>2, <1>3, <1>4, <1>5, <1>6

\* What resolve changes: the lineage and the action stay; "approve" activates
\* the run or leaves its status, "deny" blocks it and leaves nothing to retry.
LEMMA ResolveChanges ==
    ASSUME NEW s \in RunStates, RowOK(s), NEW decision \in {"approve", "deny"},
           NEW nothing_pending \in BOOLEAN
    PROVE  LET t == resolve(s, decision, nothing_pending)
           IN /\ SameLineage(s, t)
              /\ HasRetryable(t) =>
                     /\ HasRetryable(s)
                     /\ t.retryable_action.approval = s.retryable_action.approval
                     /\ t.retryable_action.payload = s.retryable_action.payload
                     /\ t.retryable_action.is_valid => s.retryable_action.is_valid
              /\ decision = "approve" =>
                     t.status = IF nothing_pending THEN "active" ELSE s.status
              /\ decision = "deny" =>
                     /\ t.status = "blocked"
                     /\ ~ HasValidRetryable(t)
                     /\ HasRetryable(t) => ~ t.retryable_action.is_recommended
<1>1. CASE decision = "approve"
  <2> DEFINE t == Recommended(s)
             tool == ToolAfterApproval(s)
             u == IF nothing_pending
                  THEN [t EXCEPT !.status = "active", !.recommended_tool = tool]
                  ELSE [t EXCEPT !.recommended_tool = "approve_action"]
  <2>1. t \in RunStates /\ t.status = s.status /\ SameLineage(s, t)
    BY RetryableOK
  <2>2. HasRetryable(t) =>
            /\ HasRetryable(s)
            /\ t.retryable_action.approval = s.retryable_action.approval
            /\ t.retryable_action.payload = s.retryable_action.payload
            /\ t.retryable_action.is_valid => s.retryable_action.is_valid
    BY DEF Recommended, RunStates, RetryableActions, HasValidRetryable, HasRetryable
  <2>3. resolve(s, decision, nothing_pending) = u
    BY <1>1 DEF resolve, resolve_approve
  <2> HIDE DEF t, tool
  <2>4. /\ SameLineage(s, u)
        /\ u.status = IF nothing_pending THEN "active" ELSE s.status
        /\ u.retryable_action = t.retryable_action
    BY <2>1 DEF RunStates, SameLineage
  <2> HIDE DEF u
  <2> QED
    BY <1>1, <2>2, <2>3, <2>4 DEF HasRetryable
<1>2. CASE decision = "deny"
  <2> DEFINE t == Invalidated(s)
             u == [t EXCEPT !.status = "blocked", !.recommended_tool = "replan_run"]
  <2>1. /\ t \in RunStates /\ RowOK(t) /\ ~ HasValidRetryable(t)
        /\ Follows(s, t) /\ SameLineage(s, t)
    BY RetryableOK
  <2>2. resolve(s, decision, nothing_pending) = u
    BY <1>2 DEF resolve, resolve_deny
  <2> HIDE DEF t
  <2>3. /\ SameLineage(s, u)
        /\ u.status = "blocked"
        /\ u.retryable_action = t.retryable_action
    BY <2>1 DEF RunStates, SameLineage
  <2> HIDE DEF u
  <2> QED
    BY <1>2, <2>1, <2>2, <2>3 DEF HasRetryable, HasValidRetryable, Follows, RowOK
<1> QED
  BY <1>1, <1>2

\* What gating a request changes.
LEMMA CreateApprovalChanges ==
    ASSUME NEW s \in RunStates, NEW request \in Requests, NEW a \in Approvals
    PROVE  LET t == create_approval(s, request, a)
           IN /\ SameLineage(s, t)
              /\ t.status = "awaiting_approval"
              /\ t.retryable_action.approval = a
              /\ t.retryable_action.payload = request
              /\ ~ t.retryable_action.is_recommended
  BY DEF create_approval, RunStates, SameLineage

-----------------------------------------------------------------------------
\* What the functions do to the history of a run: t keeps the plan of s, with
\* recovery steps in front; it is neither started over nor closed by the way; and
\* it keeps the outcome and the number of reopenings.
KeepsPlan(s, t) ==
    /\ t.status = "prepared" => s.status = "prepared"
    /\ \E n \in 0 .. Len(t.pending_steps) :
           s.pending_steps = SubSeq(t.pending_steps, n + 1, Len(t.pending_steps))

ClosesNothing(s, t) == IsFinalized(t) => IsFinalized(s)

KeepsOutcome(s, t) ==
    /\ t.finalized_outcome = s.finalized_outcome
    /\ t.reopen_count = s.reopen_count

\* A plan that was not touched is kept.
LEMMA PlanUntouched ==
    ASSUME NEW s \in RunStates, NEW t \in RunStates, t.pending_steps = s.pending_steps,
           t.status = "prepared" => s.status = "prepared"
    PROVE  KeepsPlan(s, t)
<1>1. s.pending_steps \in Seq(Steps) /\ t.pending_steps \in Seq(Steps)
  BY DEF RunStates
<1>2. /\ Len(t.pending_steps) \in Nat
      /\ s.pending_steps = SubSeq(t.pending_steps, 1, Len(t.pending_steps))
  BY <1>1
<1>3. 0 \in 0 .. Len(t.pending_steps) /\ 0 + 1 = 1
  BY <1>2
<1> QED
  BY <1>2, <1>3 DEF KeepsPlan

\* A recovery step in front keeps the plan behind it.
LEMMA PlanExtended ==
    ASSUME NEW steps \in Seq(Steps), NEW step \in Steps
    PROVE  LET longer == <<step>> \o steps
           IN  /\ longer \in Seq(Steps)
               /\ 1 \in 0 .. Len(longer)
               /\ steps = SubSeq(longer, 2, Len(longer))
<1> DEFINE longer == <<step>> \o steps
<1>1. longer \in Seq(Steps) /\ Len(longer) = Len(steps) + 1 /\ Len(steps) \in Nat
  OBVIOUS
<1>2. \A i \in 1 .. Len(steps) : longer[i + 1] = steps[i]
  OBVIOUS
<1> HIDE DEF longer
<1>3. /\ SubSeq(longer, 2, Len(longer)) \in Seq(Steps)
      /\ Len(SubSeq(longer, 2, Len(longer))) = Len(steps)
      /\ \A i \in 1 .. Len(steps) : SubSeq(longer, 2, Len(longer))[i] = longer[i + 1]
  BY <1>1
<1>4. steps = SubSeq(longer, 2, Len(longer))
  BY <1>1, <1>2, <1>3, SeqEqual
<1> QED
  BY <1>1, <1>4 DEF longer

\* Replanning adds at most one recovery step and never closes the run.
LEMMA ReplanKeeps ==
    ASSUME NEW s \in RunStates, RowOK(s), NEW failure \in Failures \cup {None}
    PROVE  /\ KeepsPlan(s, replan(s, failure))
           /\ ClosesNothing(s, replan(s, failure))
           /\ KeepsOutcome(s, replan(s, failure))
<1> DEFINE u == IF failure = None THEN ReplanNoFailure(s) ELSE ReplanFailure(s, failure)
           t == ReplanNext(u)
<1>1. u \in RunStates /\ RowOK(u)
  BY ReplanNoFailureOK, ReplanFailureOK
<1>2. t \in RunStates
  BY <1>1, ReplanNextOK
<1>3. ASSUME NEW v \in RunStates
      PROVE  /\ Invalidated(v).status = v.status
             /\ Invalidated(v).pending_steps = v.pending_steps
             /\ KeepsOutcome(v, Invalidated(v))
  BY DEF Invalidated, RunStates, KeepsOutcome
<1>4. /\ ClosesNothing(s, u) /\ KeepsOutcome(s, u)
      /\ \/ u.pending_steps = s.pending_steps
         \/ \E step \in Steps : u.pending_steps = <<step>> \o s.pending_steps
  <2>1. CASE failure = None
    BY <2>1 DEF ReplanNoFailure, RunStates, ClosesNothing, KeepsOutcome, IsFinalized,
                FinalizedStatuses
  <2>2. CASE failure # None
    <3> DEFINE v == IF HasValidRetryable(s) THEN Invalidated(s) ELSE s
               status == IF v.status \in {"blocked", "awaiting_approval"} THEN "active"
                         ELSE v.status
               steps == IF Contains(v.pending_steps, failure) THEN v.pending_steps
                        ELSE <<failure>> \o v.pending_steps
    <3>1. /\ v \in RunStates
          /\ v.status = s.status /\ v.pending_steps = s.pending_steps /\ KeepsOutcome(s, v)
      BY <1>3, RetryableOK DEF KeepsOutcome
    <3>2. u = [v EXCEPT !.status = status, !.pending_steps = steps]
      BY <2>2 DEF ReplanFailure
    <3>3. failure \in Steps
      BY <2>2 DEF Steps
    <3>4. steps = s.pending_steps \/ steps = <<failure>> \o s.pending_steps
      BY <3>1
    <3>5. status \in FinalizedStatuses => status = s.status
      BY <3>1 DEF FinalizedStatuses
    <3> HIDE DEF v, status, steps, u
    <3>6. u.status = status /\ u.pending_steps = steps /\ KeepsOutcome(v, u)
      BY <3>1, <3>2 DEF RunStates, KeepsOutcome
    <3> QED
      BY <3>1, <3>3, <3>4, <3>5, <3>6 DEF ClosesNothing, KeepsOutcome, IsFinalized
  <2> QED
    BY <2>1, <2>2
<1> HIDE DEF u
<1>5. /\ t.pending_steps = u.pending_steps /\ KeepsOutcome(u, t)
      /\ t.status # "prepared" /\ t.status \in {"done", "active", u.status}
  <2> DEFINE status == CASE u.pending_steps = <<>> -> "done"
                         [] u.pending_steps # <<>> /\ u.status = "prepared" -> "active"
                         [] OTHER -> u.status
             tool == IF u.pending_steps = <<>> THEN "show_diff"
                     ELSE recommend_for_step(Head(u.pending_steps))
  <2>1. t = [u EXCEPT !.status = status, !.recommended_tool = tool]
    BY DEF ReplanNext
  <2>2. status # "prepared" /\ status \in {"done", "active", u.status}
    OBVIOUS
  <2> HIDE DEF t, status, tool
  <2> QED
    BY <1>1, <2>1, <2>2 DEF RunStates, KeepsOutcome
<1> HIDE DEF t
<1>6. KeepsPlan(s, t)
  <2>1. CASE u.pending_steps = s.pending_steps
    BY <1>2, <1>5, <2>1, PlanUntouched
  <2>2. ASSUME NEW step \in Steps, u.pending_steps = <<step>> \o s.pending_steps
        PROVE  KeepsPlan(s, t)
    <3>1. s.pending_steps \in Seq(Steps)
      BY DEF RunStates
    <3>2. /\ 1 \in 0 .. Len(t.pending_steps)
          /\ s.pending_steps = SubSeq(t.pending_steps, 1 + 1, Len(t.pending_steps))
      BY <3>1, <2>2, <1>5, PlanExtended, 1 + 1 = 2
    <3> QED
      BY <3>2, <1>5 DEF KeepsPlan
  <2> QED
    BY <1>4, <2>1, <2>2
<1>7. ClosesNothing(s, t) /\ KeepsOutcome(s, t)
  BY <1>4, <1>5 DEF ClosesNothing, KeepsOutcome, IsFinalized, FinalizedStatuses
<1> QED
  BY <1>6, <1>7 DEF replan, t, u

\* Gating a request and deciding an approval.
LEMMA ApprovalKeeps ==
    ASSUME NEW s \in RunStates, RowOK(s)
    PROVE  /\ \A request \in Requests, a \in Approvals :
                  LET t == create_approval(s, request, a)
                  IN  KeepsPlan(s, t) /\ ClosesNothing(s, t) /\ KeepsOutcome(s, t)
           /\ \A decision \in {"approve", "deny"}, nothing_pending \in BOOLEAN :
                  LET t == resolve(s, decision, nothing_pending)
                  IN  KeepsPlan(s, t) /\ ClosesNothing(s, t) /\ KeepsOutcome(s, t)
<1>1. ASSUME NEW request \in Requests, NEW a \in Approvals
      PROVE  LET t == create_approval(s, request, a)
             IN  KeepsPlan(s, t) /\ ClosesNothing(s, t) /\ KeepsOutcome(s, t)
  <2> DEFINE t == create_approval(s, request, a)
  <2>1. t \in RunStates
    BY CreateApprovalOK
  <2>2. /\ t.pending_steps = s.pending_steps /\ t.status = "awaiting_approval"
        /\ KeepsOutcome(s, t)
    BY DEF create_approval, RunStates, KeepsOutcome
  <2> HIDE DEF t
  <2>3. ClosesNothing(s, t)
    BY <2>2 DEF ClosesNothing, IsFinalized, FinalizedStatuses
  <2> QED
    BY <2>1, <2>2, <2>3, PlanUntouched DEF t
<1>2. ASSUME NEW decision \in {"approve", "deny"}, NEW nothing_pending \in BOOLEAN
      PROVE  LET t == resolve(s, decision, nothing_pending)
             IN  KeepsPlan(s, t) /\ ClosesNothing(s, t) /\ KeepsOutcome(s, t)
  <2> DEFINE t == resolve(s, decision, nothing_pending)
             r == IF decision = "approve" THEN Recommended(s) ELSE Invalidated(s)
  <2>1. t \in RunStates
    BY ResolveOK
  <2>2. t.status \in {"active", "blocked", s.status}
    BY ResolveChanges
  <2>3. r \in RunStates /\ r.pending_steps = s.pending_steps /\ KeepsOutcome(s, r)
    BY RetryableOK DEF Recommended, Invalidated, RunStates, KeepsOutcome
  <2>4. t.pending_steps = r.pending_steps /\ KeepsOutcome(r, t)
    <3>1. PICK status, tool :
              \/ t = [r EXCEPT !.status = status, !.recommended_tool = tool]
              \/ t = [r EXCEPT !.recommended_tool = tool]
      BY DEF resolve, resolve_approve, resolve_deny
    <3> HIDE DEF t, r
    <3> QED
      BY <2>3, <3>1 DEF RunStates, KeepsOutcome
  <2> HIDE DEF t, r
  <2>5. KeepsOutcome(s, t) /\ ClosesNothing(s, t)
    BY <2>2, <2>3, <2>4 DEF KeepsOutcome, ClosesNothing, IsFinalized, FinalizedStatuses
  <2> QED
    BY <2>1, <2>2, <2>3, <2>4, <2>5, PlanUntouched DEF t
<1> QED
  BY <1>1, <1>2

\* The functions that close, reopen and file a run leave its plan alone; only
\* finalize and reopen touch the outcome.
LEMMA ClosingKeeps ==
    ASSUME NEW s \in RunStates, RowOK(s)
    PROVE  /\ KeepsPlan(s, clear_retryable(s)) /\ ClosesNothing(s, clear_retryable(s))
           /\ KeepsOutcome(s, clear_retryable(s))
           /\ KeepsPlan(s, archive(s)) /\ ClosesNothing(s, archive(s)) /\ KeepsOutcome(s, archive(s))
           /\ KeepsPlan(s, unarchive(s)) /\ ClosesNothing(s, unarchive(s)) /\ KeepsOutcome(s, unarchive(s))
           /\ KeepsPlan(s, reopen(s)) /\ ClosesNothing(s, reopen(s))
           /\ reopen(s).finalized_outcome = None /\ reopen(s).status = "active"
           /\ reopen(s).reopen_count = s.reopen_count + 1
           /\ \A kind \in OutcomeKinds : KeepsPlan(s, finalize(s, kind))
           /\ \A n \in Runs : /\ KeepsPlan(s, supersede(s, n)) /\ ClosesNothing(s, supersede(s, n))
                               /\ KeepsOutcome(s, supersede(s, n))
<1> USE PlanUntouched
<1>1. clear_retryable(s) \in RunStates
  BY ClearRetryableOK
<1>2. /\ KeepsPlan(s, clear_retryable(s)) /\ ClosesNothing(s, clear_retryable(s))
      /\ KeepsOutcome(s, clear_retryable(s))
  BY <1>1 DEF clear_retryable, RunStates, ClosesNothing, KeepsOutcome, IsFinalized
<1>3. archive(s) \in RunStates /\ unarchive(s) \in RunStates
  BY DEF archive, unarchive, RunStates
<1>4. KeepsPlan(s, archive(s)) /\ ClosesNothing(s, archive(s)) /\ KeepsOutcome(s, archive(s))
  BY <1>3 DEF archive, RunStates, ClosesNothing, KeepsOutcome, IsFinalized
<1>5. KeepsPlan(s, unarchive(s)) /\ ClosesNothing(s, unarchive(s)) /\ KeepsOutcome(s, unarchive(s))
  BY <1>3 DEF unarchive, RunStates, ClosesNothing, KeepsOutcome, IsFinalized
<1>6. reopen(s) \in RunStates
  BY ReopenOK
<1>7. /\ reopen(s).finalized_outcome = None /\ reopen(s).status = "active"
      /\ reopen(s).reopen_count = s.reopen_count + 1
      /\ reopen(s).pending_steps = s.pending_steps
  BY DEF reopen, RunStates
<1>8. KeepsPlan(s, reopen(s)) /\ ClosesNothing(s, reopen(s))
  BY <1>6, <1>7 DEF ClosesNothing, IsFinalized, FinalizedStatuses
<1>9. ASSUME NEW kind \in OutcomeKinds
      PROVE  KeepsPlan(s, finalize(s, kind))
  <2>1. finalize(s, kind) \in RunStates
    BY FinalizeOK
  <2>2. FinalizedAs(kind) # "prepared"
    BY DEF FinalizedAs, OutcomeKinds
  <2>3. finalize(s, kind).status = FinalizedAs(kind)
        /\ finalize(s, kind).pending_steps = s.pending_steps
    BY DEF finalize, RunStates
  <2> QED
    BY <2>1, <2>2, <2>3
<1>10. ASSUME NEW n \in Runs
       PROVE  /\ KeepsPlan(s, supersede(s, n)) /\ ClosesNothing(s, supersede(s, n))
              /\ KeepsOutcome(s, supersede(s, n))
  <2>1. supersede(s, n) \in RunStates
    BY DEF supersede, RunStates
  <2> QED
    BY <2>1 DEF supersede, RunStates, ClosesNothing, KeepsOutcome, IsFinalized
<1> QED
  BY <1>2, <1>4, <1>5, <1>7, <1>8, <1>9, <1>10
=============================================================================
