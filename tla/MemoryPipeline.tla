---------------------------- MODULE MemoryPipeline ----------------------------
(***************************************************************************)
(* The startup pipeline of memories/write: a session prunes old outputs,   *)
(* claims threads and extracts a memory from each (phase1.rs), then claims *)
(* the global job, syncs the selected memories into the workspace, lets an *)
(* agent consolidate what git says has changed, and makes the result the   *)
(* new git baseline (phase2.rs).  Several sessions do this at once, in one *)
(* process or several, and any of them may die or be suspended.            *)
(*                                                                         *)
(* The workspace is represented by the snapshots its input files are made  *)
(* of and those its consolidated files are made of.  What the agent writes *)
(* is what the session synced; what a model extracts is left out.          *)
(***************************************************************************)
EXTENDS MemoryStore

CONSTANTS
    Phases,      \* the phases in which each session finds something to do
    Events,      \* what may happen to each thread and to its extractions
    Resets,      \* whether memory may be reset
    MaxFaults    \* bound on deaths, failing operations, leases that expire too early
                 \* and memory resets

VARIABLES
    worker,     \* what every session is doing
    polluting,  \* mark_thread_memory_mode_polluted, between its three queries
    disk,       \* the memory workspace
    baseline,   \* the tree of its git repository, None without one
    lingering,  \* agents given up by their session and not yet shut down
    faults,
    clearing,   \* a memory reset has still to clear the disk
    disturbed,  \* a lease ran out, or a reset came, under a consolidation, or one
                \* began beside an agent of an earlier one
    extracted,  \* versions of a thread with a stored result
    failures    \* failures of the version a thread's job is at

store == <<thread, output, stage1, global>>
fs == <<disk, baseline, lingering>>
ghosts == <<extracted, failures>>
mvars == <<store, worker, polluting, fs, faults, clearing, disturbed, ghosts>>

Snapshots == Threads \X Sources

Trees == [inputs : (SUBSET Snapshots) \cup {None}, memory : SUBSET Snapshots]

EmptyTree == [inputs |-> None, memory |-> {}]

ASSUME PipelineAssumption ==
    /\ Phases \in [Workers -> SUBSET {1, 2}]
    /\ Events \in [Threads -> SUBSET {"updated", "polluted", "deleted", "no_output", "failed"}]
    /\ Resets \in BOOLEAN
    /\ MaxFaults \in Nat
    /\ None \notin Trees

\* at: the next step; items: scanned, not yet tried; claims: being extracted;
\* keys, picked: the selection of phase 2, while and after it is read.
WorkerStates ==
    [at     : {"idle", "claim", "extract", "phase2", "prepare", "keys", "rows", "sync",
               "diff", "agent", "confirm", "reset", "succeed", "failed"},
     items  : SUBSET Snapshots,
     claims : SUBSET Snapshots,
     picked : SUBSET Snapshots]

Idle == [at |-> "idle", items |-> {}, claims |-> {}, picked |-> {}]

MTypeOK ==
    /\ StoreOK
    /\ worker \in [Workers -> WorkerStates]
    /\ polluting \in [Threads -> {"no", "unselected", "selected", "enqueue", "done"}]
    /\ disk \in Trees
    /\ baseline \in Trees \cup {None}
    /\ lingering \in SUBSET (Workers \X SUBSET Snapshots)
    /\ faults \in 0 .. MaxFaults
    /\ clearing \in BOOLEAN
    /\ disturbed \in BOOLEAN
    /\ extracted \in [Threads -> SUBSET Sources]
    /\ failures \in [Threads -> Nat]

MInit ==
    /\ thread = [t \in Threads |-> [memory_mode |-> "enabled", updated_at |-> 1]]
    /\ output = [t \in Threads |-> None]
    /\ stage1 = [t \in Threads |-> None]
    /\ global = None
    /\ worker = [w \in Workers |-> Idle]
    /\ polluting = [t \in Threads |-> "no"]
    /\ disk = EmptyTree
    /\ baseline = None
    /\ lingering = {}
    /\ faults = 0
    /\ clearing = FALSE
    /\ disturbed = FALSE
    /\ extracted = [t \in Threads |-> {}]
    /\ failures = [t \in Threads |-> 0]

At(w, label) == worker[w].at = label

GoTo(w, label) == worker' = [worker EXCEPT ![w].at = label]

Finish(w) == worker' = [worker EXCEPT ![w] = Idle]

-----------------------------------------------------------------------------
\* Phase 1.

\* What a session does when its phase 1 has nothing left to do.
AfterPhase1(w) == IF 2 \in Phases[w] THEN [Idle EXCEPT !.at = "phase2"] ELSE Idle

\* prune_stage1_outputs_for_retention: which outputs are too old is not modelled.
\* Nor is how the scan filters threads: with 1 outside Phases[w] it finds none.
Prunable == {t \in Threads : output[t] # None /\ output[t].selected = 0}

\* A new session goes by the name of one that is over, its agents too.
Start(w) ==
    /\ At(w, "idle")
    /\ \A agent \in lingering : agent[1] # w
    /\ IF 1 \in Phases[w]
       THEN /\ \E old \in SUBSET Prunable :
                   output' = [t \in Threads |-> IF t \in old THEN None ELSE output[t]]
            /\ worker' = [worker EXCEPT ![w].at = "claim", ![w].items =
                   {<<t, thread[t].updated_at>> :
                       t \in {u \in Threads : thread[u].memory_mode = "enabled"}}]
       ELSE worker' = [worker EXCEPT ![w] = AfterPhase1(w)] /\ UNCHANGED output
    /\ UNCHANGED <<thread, stage1, global, polluting, fs, faults, clearing, disturbed, ghosts>>

\* The threads are tried one by one, each with the version the scan saw.
TryClaim(w, t, source) ==
    /\ At(w, "claim")
    /\ <<t, source>> \in worker[w].items
    /\ Cardinality(worker[w].claims) < MaxRunning
    /\ LET claimed == ~ UpToDate(t, source) /\ Claimable(t, source) /\ BelowLimit(t)
       IN  /\ stage1' = IF claimed
                        THEN [stage1 EXCEPT ![t] = ClaimedRow(w, t, source)] ELSE stage1
           /\ failures' = IF claimed /\ (stage1[t] = None \/ source > stage1[t].input)
                          THEN [failures EXCEPT ![t] = 0] ELSE failures
           /\ worker' = [worker EXCEPT
                  ![w].items = @ \ {<<t, source>>},
                  ![w].claims = IF claimed THEN @ \cup {<<t, source>>} ELSE @]
    /\ UNCHANGED <<thread, output, global, polluting, fs, faults, clearing, disturbed, extracted>>

Claimed(w) ==
    /\ At(w, "claim")
    /\ worker[w].items = {} \/ Cardinality(worker[w].claims) >= MaxRunning
    /\ worker' = [worker EXCEPT ![w] = IF @.claims = {} THEN AfterPhase1(w)
                                       ELSE [@ EXCEPT !.at = "extract", !.items = {}]]
    /\ UNCHANGED <<store, polluting, fs, faults, clearing, disturbed, ghosts>>

Extracting(w, t, source) == At(w, "extract") /\ <<t, source>> \in worker[w].claims

\* run_jobs waits for all of them.
Extracted(w, t, source) ==
    LET left == worker[w].claims \ {<<t, source>>}
    IN  worker' = [worker EXCEPT ![w] = IF left = {} THEN AfterPhase1(w)
                                        ELSE [worker[w] EXCEPT !.claims = left]]

\* mark_stage1_job_succeeded, one transaction.
Succeeded(w, t, source) ==
    /\ Extracting(w, t, source)
    /\ Extracted(w, t, source)
    /\ IF Owns(w, t)
       THEN /\ stage1' = [stage1 EXCEPT ![t] = SucceededRow(t)]
            /\ output' = [output EXCEPT ![t] = UpsertedOutput(t, source)]
            /\ global' = Enqueued
            /\ extracted' = [extracted EXCEPT ![t] = @ \cup {source}]
       ELSE UNCHANGED <<stage1, output, global, extracted>>
    /\ UNCHANGED <<thread, polluting, fs, faults, clearing, disturbed, failures>>

\* mark_stage1_job_succeeded_no_output, one transaction.
SucceededNoOutput(w, t, source) ==
    /\ "no_output" \in Events[t]
    /\ Extracting(w, t, source)
    /\ Extracted(w, t, source)
    /\ IF Owns(w, t)
       THEN /\ stage1' = [stage1 EXCEPT ![t] = SucceededRow(t)]
            /\ output' = [output EXCEPT ![t] = None]
            /\ global' = IF output[t] # None THEN Enqueued ELSE global
            /\ extracted' = [extracted EXCEPT ![t] = @ \cup {source}]
       ELSE UNCHANGED <<stage1, output, global, extracted>>
    /\ UNCHANGED <<thread, polluting, fs, faults, clearing, disturbed, failures>>

\* mark_stage1_job_failed
ExtractionFailed(w, t, source) ==
    /\ "failed" \in Events[t]
    /\ Extracting(w, t, source)
    /\ Extracted(w, t, source)
    /\ IF Owns(w, t)
       THEN /\ stage1' = [stage1 EXCEPT ![t] = FailedRow(t)]
            /\ failures' = [failures EXCEPT ![t] = @ + 1]
       ELSE UNCHANGED <<stage1, failures>>
    /\ UNCHANGED <<thread, output, global, polluting, fs, faults, clearing, disturbed, extracted>>

-----------------------------------------------------------------------------
\* Phase 2.

ClaimGlobal(w) ==
    /\ At(w, "phase2")
    /\ IF GlobalClaimable
       THEN /\ global' = ClaimedGlobal(w) /\ GoTo(w, "prepare")
            /\ disturbed' = (disturbed \/ lingering # {})
       ELSE Finish(w) /\ UNCHANGED <<global, disturbed>>
    /\ UNCHANGED <<thread, output, stage1, polluting, fs, faults, clearing, ghosts>>

Phase2Rest == <<store, polluting, faults, clearing, disturbed, ghosts>>

\* prepare_memory_workspace: without a repository the present tree becomes one.
Prepare(w) ==
    /\ At(w, "prepare")
    /\ baseline' = IF baseline = None THEN disk ELSE baseline
    /\ GoTo(w, "keys")
    /\ UNCHANGED <<disk, lingering, Phase2Rest>>

\* Mutant: the threads' own table is not consulted.
Mutant_AnyMode(t) == output[t] # None

Eligible(t) == output[t] # None /\ thread[t].memory_mode = "enabled"

\* get_phase2_input_selection reads the keys first, then row after row.
SelectKeys(w) ==
    /\ At(w, "keys")
    /\ worker' = [worker EXCEPT ![w].at = "rows", ![w].picked =
           {<<t, output[t].source>> : t \in {u \in Threads : Eligible(u)}}]
    /\ UNCHANGED <<fs, Phase2Rest>>

StillThere(snapshots) ==
    {s \in snapshots : Eligible(s[1]) /\ output[s[1]].source = s[2]}

LoadRows(w) ==
    /\ At(w, "rows")
    /\ worker' = [worker EXCEPT ![w].at = "sync", ![w].picked = StillThere(@)]
    /\ UNCHANGED <<fs, Phase2Rest>>

\* sync_phase2_workspace_inputs
SyncInputs(w) ==
    /\ At(w, "sync")
    /\ disk' = [disk EXCEPT !.inputs = worker[w].picked]
    /\ GoTo(w, "diff")
    /\ UNCHANGED <<baseline, lingering, Phase2Rest>>

\* Mutant: only the synced files are compared with the baseline.
Mutant_InputsChanged == disk.inputs # baseline.inputs

HasChanges == disk # baseline

\* memory_workspace_diff fails without a repository; otherwise the agent is
\* spawned when there is something to consolidate.
Diff(w) ==
    /\ At(w, "diff")
    /\ GoTo(w, IF baseline = None THEN "failed"
               ELSE IF HasChanges THEN "agent" ELSE "succeed")
    /\ UNCHANGED <<fs, Phase2Rest>>

\* Files made of old on the way to being made of new: what is not kept is removed
\* before anything is added.
Between(old, new) == {now \in (SUBSET old) \cup (SUBSET new) : old \cap new \subseteq now}

\* What an agent that consolidates picked may have done to the workspace.
Written(picked) == {[disk EXCEPT !.memory = now] : now \in Between(disk.memory, picked)}

\* What a session that stops here leaves in the workspace: inputs are synced, and
\* memories consolidated, file after file.
Left(w) ==
    IF At(w, "agent") THEN Written(worker[w].picked)
    ELSE IF At(w, "sync") /\ disk.inputs # None
    THEN {[disk EXCEPT !.inputs = now] : now \in Between(disk.inputs, worker[w].picked)}
    ELSE IF At(w, "sync")
    THEN {disk} \cup {[disk EXCEPT !.inputs = now] : now \in SUBSET worker[w].picked}
    ELSE {disk}

\* loop_agent: the agent has ended, and has done all of its work.
AgentCompleted(w) ==
    /\ At(w, "agent")
    /\ disk' = [disk EXCEPT !.memory = worker[w].picked]
    /\ GoTo(w, "confirm")
    /\ UNCHANGED <<baseline, lingering, Phase2Rest>>

\* Mutant: the end of the agent is taken for its success.
Mutant_EndIsSuccess(w) ==
    /\ At(w, "agent")
    /\ GoTo(w, "confirm")
    /\ UNCHANGED <<fs, Phase2Rest>>

\* It has ended otherwise, whatever it has written.
AgentErrored(w) ==
    /\ At(w, "agent")
    /\ disk' \in Left(w)
    /\ GoTo(w, "failed")
    /\ UNCHANGED <<baseline, lingering, Phase2Rest>>

\* The session stops waiting for an agent that runs: it marks the job failed, and a
\* task of its own shuts the agent down.
GiveUp(w) ==
    /\ GoTo(w, "failed")
    /\ lingering' = lingering \cup {<<w, worker[w].picked>>}
    /\ UNCHANGED <<disk, baseline>>

\* heartbeat_global_phase2_job while the agent runs.
Heartbeat(w) ==
    /\ At(w, "agent")
    /\ IF OwnsGlobal(w)
       THEN /\ ~ global.leased /\ global' = [global EXCEPT !.leased = TRUE]
            /\ UNCHANGED <<worker, fs>>
       ELSE GiveUp(w) /\ UNCHANGED global
    /\ UNCHANGED <<thread, output, stage1, polluting, faults, clearing, disturbed, ghosts>>

HeartbeatFails(w) ==
    /\ At(w, "agent")
    /\ faults < MaxFaults
    /\ faults' = faults + 1
    /\ GiveUp(w)
    /\ UNCHANGED <<store, polluting, clearing, disturbed, ghosts>>

LingeringWorks(agent) ==
    /\ disk' \in Written(agent[2])
    /\ UNCHANGED <<baseline, lingering, worker, Phase2Rest>>

\* shutdown_consolidation_agent, which may also fail.
ShutdownAgent(agent) ==
    /\ lingering' = lingering \ {agent}
    /\ UNCHANGED <<disk, baseline, worker, Phase2Rest>>

\* "Do not reset the workspace baseline if we lost the lock."
Confirm(w) ==
    /\ At(w, "confirm")
    /\ IF OwnsGlobal(w)
       THEN global' = [global EXCEPT !.leased = TRUE] /\ GoTo(w, "reset")
       ELSE Finish(w) /\ UNCHANGED global
    /\ UNCHANGED <<thread, output, stage1, polluting, fs, faults, clearing, disturbed, ghosts>>

ResetBaseline(w) ==
    /\ At(w, "reset")
    /\ baseline' = disk
    /\ GoTo(w, "succeed")
    /\ UNCHANGED <<disk, lingering, Phase2Rest>>

\* mark_global_phase2_job_succeeded, one transaction.
SucceedGlobal(w) ==
    /\ At(w, "succeed")
    /\ Finish(w)
    /\ IF OwnsGlobal(w)
       THEN global' = SucceededGlobal /\ output' = Selecting(worker[w].picked)
       ELSE UNCHANGED <<global, output>>
    /\ UNCHANGED <<thread, stage1, polluting, fs, faults, clearing, disturbed, ghosts>>

\* job::failed: the second attempt asks for a row without token, and no running
\* row is without one.
FailGlobal(w) ==
    /\ At(w, "failed")
    /\ Finish(w)
    /\ global' = IF OwnsGlobal(w) THEN FailedGlobal ELSE global
    /\ UNCHANGED <<thread, output, stage1, polluting, fs, faults, clearing, disturbed, ghosts>>

Consolidating(w) ==
    worker[w].at \in {"prepare", "keys", "rows", "sync", "diff", "agent", "confirm",
                      "reset", "succeed", "failed"}

-----------------------------------------------------------------------------
\* Faults.

\* The session dies; its agents with it.
Die(w) ==
    /\ ~ At(w, "idle")
    /\ faults < MaxFaults
    /\ faults' = faults + 1
    /\ Finish(w)
    /\ disk' \in Left(w)
    /\ lingering' = {agent \in lingering : agent[1] # w}
    /\ UNCHANGED <<store, polluting, baseline, clearing, disturbed, ghosts>>

\* A step of phase 2 before the agent, the confirmation or the reset returns an
\* error.  A reset that fails has removed the repository it replaces or has already
\* committed the new one.
StepFails(w) ==
    /\ worker[w].at \in {"prepare", "keys", "rows", "sync", "diff", "confirm", "reset"}
    /\ faults < MaxFaults
    /\ faults' = faults + 1
    /\ baseline' \in IF At(w, "reset") THEN {baseline, None, disk} ELSE {baseline}
    /\ disk' \in Left(w)
    /\ GoTo(w, "failed")
    /\ UNCHANGED <<store, polluting, lingering, clearing, disturbed, ghosts>>

\* The session dies while reset_git_repository has removed the old repository.
DieInReset(w) ==
    /\ At(w, "reset")
    /\ faults < MaxFaults
    /\ faults' = faults + 1
    /\ baseline' = None
    /\ Finish(w)
    /\ lingering' = {agent \in lingering : agent[1] # w}
    /\ UNCHANGED <<store, polluting, disk, clearing, disturbed, ghosts>>

-----------------------------------------------------------------------------
\* Time.  A lease is left behind by a session that died, or it expires under a
\* live one: an extraction, which sends no heartbeat, that takes longer than an
\* hour, or a consolidation suspended for that long.  That counts as a fault.

Holds(w, t) == \E source \in Sources : <<t, source>> \in worker[w].claims

ExpiresUnder(live) == (live => faults < MaxFaults) /\ faults' = faults + (IF live THEN 1 ELSE 0)

Stage1LeaseExpires(t) ==
    /\ RunsNow(t)
    /\ stage1' = [stage1 EXCEPT ![t].leased = FALSE]
    /\ ExpiresUnder(Holds(stage1[t].token, t))
    /\ UNCHANGED <<thread, output, global, worker, polluting, fs, clearing, disturbed, ghosts>>

Stage1BackoffElapses(t) ==
    /\ stage1[t] # None /\ stage1[t].backoff
    /\ stage1' = [stage1 EXCEPT ![t].backoff = FALSE]
    /\ UNCHANGED <<thread, output, global, worker, polluting, fs, faults, clearing, disturbed, ghosts>>

GlobalLeaseExpires ==
    /\ global # None /\ global.status = "running" /\ global.leased
    /\ global' = [global EXCEPT !.leased = FALSE]
    /\ ExpiresUnder(Consolidating(global.token))
    /\ disturbed' = (disturbed \/ Consolidating(global.token))
    /\ UNCHANGED <<thread, output, stage1, worker, polluting, fs, clearing, ghosts>>

GlobalDelayElapses ==
    /\ global # None
    /\ \/ global.backoff /\ global' = [global EXCEPT !.backoff = FALSE]
       \/ global.recent /\ global' = [global EXCEPT !.recent = FALSE]
    /\ UNCHANGED <<thread, output, stage1, worker, polluting, fs, faults, clearing, disturbed, ghosts>>

-----------------------------------------------------------------------------
\* Threads.

UpdateThread(t) ==
    /\ "updated" \in Events[t]
    /\ thread[t].memory_mode # "deleted" /\ thread[t].updated_at < MaxUpdates
    /\ thread' = [thread EXCEPT ![t].updated_at = @ + 1]
    /\ UNCHANGED <<output, stage1, global, worker, polluting, fs, faults, clearing, disturbed, ghosts>>

\* mark_thread_memory_mode_polluted: three queries, on two databases.
PolluteRead(t) ==
    /\ "polluted" \in Events[t]
    /\ polluting[t] = "no" /\ thread[t].memory_mode = "enabled"
    /\ polluting' = [polluting EXCEPT ![t] =
           IF output[t] # None /\ output[t].selected # 0 THEN "selected" ELSE "unselected"]
    /\ UNCHANGED <<store, worker, fs, faults, clearing, disturbed, ghosts>>

PolluteMark(t) ==
    /\ polluting[t] \in {"selected", "unselected"}
    /\ thread' = [thread EXCEPT ![t].memory_mode = IF @ = "deleted" THEN @ ELSE "polluted"]
    /\ polluting' = [polluting EXCEPT ![t] = IF @ = "selected" THEN "enqueue" ELSE "done"]
    /\ UNCHANGED <<output, stage1, global, worker, fs, faults, clearing, disturbed, ghosts>>

PolluteEnqueue(t) ==
    /\ polluting[t] = "enqueue"
    /\ global' = Enqueued
    /\ polluting' = [polluting EXCEPT ![t] = "done"]
    /\ UNCHANGED <<thread, output, stage1, worker, fs, faults, clearing, disturbed, ghosts>>

\* delete_thread: the thread's row first, its memory in a second database next.
DeleteThread(t) ==
    /\ "deleted" \in Events[t]
    /\ thread[t].memory_mode # "deleted"
    /\ thread' = [thread EXCEPT ![t].memory_mode = "deleted"]
    /\ UNCHANGED <<output, stage1, global, worker, polluting, fs, faults, clearing, disturbed, ghosts>>

\* delete_thread_memory, one transaction; a later call finds nothing to delete.
DeleteThreadMemory(t) ==
    /\ thread[t].memory_mode = "deleted"
    /\ output[t] # None \/ stage1[t] # None
    /\ output' = [output EXCEPT ![t] = None]
    /\ stage1' = [stage1 EXCEPT ![t] = None]
    /\ global' = IF output[t] # None /\ output[t].selected # 0 THEN Enqueued ELSE global
    /\ extracted' = [extracted EXCEPT ![t] = {}]
    /\ failures' = [failures EXCEPT ![t] = 0]
    /\ UNCHANGED <<thread, worker, polluting, fs, faults, clearing, disturbed>>

-----------------------------------------------------------------------------
\* memory/reset: the rows in one transaction, then the directory.

ClearMemoryData ==
    /\ Resets /\ ~ clearing
    /\ faults < MaxFaults
    /\ faults' = faults + 1
    /\ clearing' = TRUE
    /\ output' = [t \in Threads |-> None]
    /\ stage1' = [t \in Threads |-> None]
    /\ global' = None
    /\ extracted' = [t \in Threads |-> {}]
    /\ failures' = [t \in Threads |-> 0]
    /\ disturbed' = (disturbed \/ lingering # {} \/ \E w \in Workers : Consolidating(w))
    /\ UNCHANGED <<thread, worker, polluting, fs>>

ClearMemoryRoots ==
    /\ clearing
    /\ clearing' = FALSE
    /\ disk' = EmptyTree
    /\ baseline' = None
    /\ disturbed' = (disturbed \/ lingering # {} \/ (global # None /\ global.status # "pending"))
    /\ UNCHANGED <<store, worker, lingering, polluting, faults, ghosts>>

-----------------------------------------------------------------------------
Phase1Step(w) ==
    \/ Claimed(w)
    \/ \E t \in Threads, source \in Sources :
           \/ TryClaim(w, t, source)
           \/ Succeeded(w, t, source)
           \/ SucceededNoOutput(w, t, source)
           \/ ExtractionFailed(w, t, source)

Phase2Step(w) ==
    \/ ClaimGlobal(w) \/ Prepare(w) \/ SelectKeys(w) \/ LoadRows(w) \/ SyncInputs(w)
    \/ Diff(w) \/ AgentCompleted(w) \/ AgentErrored(w)
    \/ Confirm(w) \/ ResetBaseline(w) \/ SucceedGlobal(w) \/ FailGlobal(w)

Elapse ==
    \/ \E t \in Threads : Stage1LeaseExpires(t) \/ Stage1BackoffElapses(t)
    \/ GlobalLeaseExpires \/ GlobalDelayElapses

ThreadStep(t) ==
    \/ UpdateThread(t) \/ PolluteRead(t) \/ PolluteMark(t) \/ PolluteEnqueue(t)
    \/ DeleteThread(t) \/ DeleteThreadMemory(t)

MNext ==
    \/ \E w \in Workers :
           \/ Start(w) \/ Phase1Step(w) \/ Phase2Step(w)
           \/ Heartbeat(w) \/ HeartbeatFails(w) \/ Die(w) \/ StepFails(w) \/ DieInReset(w)
    \/ \E agent \in lingering : LingeringWorks(agent) \/ ShutdownAgent(agent)
    \/ Elapse
    \/ \E t \in Threads : ThreadStep(t)
    \/ ClearMemoryData \/ ClearMemoryRoots

(***************************************************************************)
(* A session that runs goes on, time passes, and sessions are started now  *)
(* and then.  Nothing is assumed of users, of extractions or of agents but *)
(* that they end.                                                          *)
(***************************************************************************)
MFairness ==
    /\ \A w \in Workers : WF_mvars(Start(w) \/ Phase1Step(w) \/ Phase2Step(w))
    /\ \A t \in Threads : WF_mvars(Stage1LeaseExpires(t) \/ Stage1BackoffElapses(t))
    /\ WF_mvars(GlobalLeaseExpires \/ GlobalDelayElapses)

MSpec == MInit /\ [][MNext]_mvars /\ MFairness

-----------------------------------------------------------------------------
\* A watermark is honest: the version a job calls its last success has a stored
\* result, whatever worker finished late and whoever claimed the job meanwhile.
\* A version wrongly called done would never be extracted.
WatermarkHonest ==
    \A t \in Threads :
        stage1[t] # None /\ stage1[t].last_success # 0
            => stage1[t].last_success \in extracted[t]

\* No version is extracted again once it has a result, also when retention has
\* pruned the output or there was none ("leases prevent duplicate work").
NotAgain ==
    \A w \in Workers, t \in Threads, source \in Sources :
        <<t, source>> \in worker[w].claims /\ Owns(w, t) => source \notin extracted[t]

\* At most MaxRunning extractions hold a valid lease, over all sessions.
RunningBounded == Cardinality({t \in Threads : RunsNow(t)}) <= MaxRunning

\* A job's retries and failures add up, it runs only for a version that is newer
\* than every one with a result, and without its row nothing is known of either.
JobConsistent ==
    \A t \in Threads :
        IF stage1[t] = None THEN failures[t] = 0 /\ extracted[t] = {}
        ELSE /\ failures[t] + stage1[t].retry_remaining = DEFAULT_RETRY_REMAINING
             /\ stage1[t].status = "running" =>
                 stage1[t].retry_remaining > 0 /\ stage1[t].input > stage1[t].last_success
             /\ \A s \in extracted[t] : s <= stage1[t].last_success

\* A session tries each thread once, in one version, owns its job only with the
\* version it claimed, and starts without claims.
ClaimsConsistent ==
    \A w \in Workers :
        /\ At(w, "idle") => worker[w].claims = {}
        /\ \A t \in Threads, s \in Sources :
            /\ <<t, s>> \in worker[w].items =>
                \A r \in Sources : /\ <<t, r>> \in worker[w].items => r = s
                                   /\ <<t, r>> \notin worker[w].claims
            /\ <<t, s>> \in worker[w].claims =>
                /\ \A r \in Sources : <<t, r>> \in worker[w].claims => r = s
                /\ Owns(w, t) => stage1[t].input = s

\* A version that fails is retried a bounded number of times.
FailuresBounded == \A t \in Threads : failures[t] <= DEFAULT_RETRY_REMAINING

\* The invariant of the extraction jobs: well typed, within the limits on running
\* extractions and on retries over all sessions, and what the watermarks rest on.
MInv ==
    /\ MTypeOK
    /\ RunningBounded
    /\ WatermarkHonest
    /\ JobConsistent
    /\ ClaimsConsistent

\* A thread never waits for its extraction for ever: whatever workers die and
\* leases expire, it has a result for its version or has used up the retries.
EventuallySettled ==
    \A t \in Threads :
        []<> \/ thread[t].memory_mode # "enabled"
             \/ UpToDate(t, thread[t].updated_at)
             \/ /\ stage1[t] # None /\ stage1[t].input = thread[t].updated_at
                /\ stage1[t].retry_remaining = 0

\* "Only one consolidation inspects or mutates the workspace at a time", unless
\* a session was suspended past its lease, a reset removed the job, or the agent of
\* a failed job had not been shut down when the next consolidation began.
OneConsolidation ==
    ~ disturbed => \A v, w \in Workers : Consolidating(v) /\ Consolidating(w) => v = w

\* The baseline holds nothing that was not consolidated: inputs never become
\* the baseline before the agent has dealt with them, whoever dies where.  They
\* would never show up in a diff again.
BaselineConsolidated ==
    ~ disturbed /\ baseline # None /\ baseline.inputs # None
        => baseline.memory = baseline.inputs

\* When the job is done there is nothing left to consolidate in the workspace,
\* and exactly the consumed snapshots are marked: what is selected is in the
\* baseline in that version, though newer ones may have been stored meanwhile.
DoneIsClean ==
    ~ disturbed /\ global # None /\ global.status = "done"
        => /\ disk = baseline
           /\ \A t \in Threads :
               output[t] # None /\ output[t].selected # 0
                   => <<t, output[t].selected>> \in baseline.inputs

\* What the three rest on: a session that consolidates holds the lease, and the
\* workspace is what its step says it is.
ConsolidatorHolds ==
    ~ disturbed => \A w \in Workers : Consolidating(w) => OwnsGlobal(w) /\ global.leased

InStep(w) ==
    /\ worker[w].at \in {"keys", "rows", "sync", "diff", "agent", "confirm", "reset"}
        => baseline # None
    /\ worker[w].at \in {"diff", "agent", "confirm", "reset", "succeed"}
        => disk.inputs = worker[w].picked
    /\ worker[w].at \in {"confirm", "reset"} => disk.memory = worker[w].picked
    /\ worker[w].at = "succeed" => disk = baseline

WorkspaceInStep == ~ disturbed => \A w \in Workers : InStep(w)

\* Beside an agent that was given up there is nobody but the session that did so.
LingeringAlone ==
    ~ disturbed /\ lingering # {} =>
        /\ baseline # None
        /\ global # None => global.status # "done"
        /\ \A w \in Workers : Consolidating(w) => At(w, "failed")

\* Without a repository there is nothing in the workspace to consolidate.
UntrackedConsolidated ==
    ~ disturbed /\ baseline = None => disk.inputs = None \/ disk.memory = disk.inputs

\* The invariant of the consolidation.
ConsolidationInv ==
    /\ MTypeOK
    /\ ConsolidatorHolds
    /\ WorkspaceInStep
    /\ LingeringAlone
    /\ UntrackedConsolidated
    /\ BaselineConsolidated
    /\ DoneIsClean

\* A polluted or deleted thread disappears from the inputs of the workspace,
\* even if it was marked while a consolidation was reading it, and even if the
\* consolidation that should forget it fails.
Forgotten ==
    \A t \in Threads :
        thread[t].memory_mode # "enabled"
            ~> disk.inputs = None \/ \A source \in Sources : <<t, source>> \notin disk.inputs
=============================================================================
