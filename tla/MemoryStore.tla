----------------------------- MODULE MemoryStore -----------------------------
(***************************************************************************)
(* The tables of the memory pipeline (state/src/runtime/memories.rs): the  *)
(* threads of the state database, and in the memories database one         *)
(* extraction job and one output per thread and the global consolidation   *)
(* job.  Every operator is one SQL transaction.                            *)
(*                                                                         *)
(* A time is represented by what the queries ask of it: a lease is valid   *)
(* or not, a retry delay has elapsed or not, a success is recent or not.   *)
(* An ownership token is represented by the worker it was made for: a      *)
(* worker has at most one claim of a job, and forgets it when it dies.     *)
(* The watermarks of the global job decide nothing and are left out, and   *)
(* so is its retry_remaining.                                              *)
(***************************************************************************)
EXTENDS Naturals, FiniteSets

CONSTANTS
    Threads,
    Workers,                   \* sessions that run the startup pipeline
    MaxUpdates,                \* bound on the versions of one thread
    DEFAULT_RETRY_REMAINING,
    MaxRunning,                \* max_claimed, also the limit on running jobs
    None

Sources == 1 .. MaxUpdates

VARIABLES
    thread,    \* memory_mode and updated_at of every thread
    output,    \* stage1_outputs
    stage1,    \* jobs of kind memory_stage1
    global     \* the job of kind memory_consolidate_global

ThreadRows == [memory_mode : {"enabled", "polluted", "deleted"}, updated_at : Sources]

\* selected: selected_for_phase2_source_updated_at, 0 when not selected.
OutputRows == [source : Sources, selected : {0} \cup Sources]

\* last_success: last_success_watermark, 0 for NULL.
Stage1Rows ==
    [status          : {"running", "done", "error"},
     token           : Workers,
     leased          : BOOLEAN,    \* lease_until > now
     backoff         : BOOLEAN,    \* retry_at > now
     retry_remaining : 0 .. DEFAULT_RETRY_REMAINING,
     input           : Sources,
     last_success    : {0} \cup Sources]

GlobalRows ==
    [status  : {"pending", "running", "done", "error"},
     token   : Workers \cup {None},
     leased  : BOOLEAN,
     backoff : BOOLEAN,
     recent  : BOOLEAN,            \* finished_at is within the cooldown
     failed  : BOOLEAN]            \* last_error is set

ASSUME StoreAssumption ==
    /\ MaxUpdates \in Nat \ {0}
    /\ DEFAULT_RETRY_REMAINING \in Nat \ {0}
    /\ MaxRunning \in Nat \ {0}
    /\ IsFiniteSet(Threads)
    /\ None \notin Workers \cup OutputRows \cup Stage1Rows \cup GlobalRows

StoreOK ==
    /\ thread \in [Threads -> ThreadRows]
    /\ output \in [Threads -> OutputRows \cup {None}]
    /\ stage1 \in [Threads -> Stage1Rows \cup {None}]
    /\ global \in GlobalRows \cup {None}

-----------------------------------------------------------------------------
\* try_claim_stage1_job

Mutant_OnlyOutputs(t, source) ==
    output[t] # None /\ output[t].source >= source

UpToDate(t, source) ==
    \/ output[t] # None /\ output[t].source >= source
    \/ stage1[t] # None /\ stage1[t].last_success >= source

RunsNow(t) == stage1[t] # None /\ stage1[t].status = "running" /\ stage1[t].leased

\* Mutant: a job that runs is never claimed again, its lease expired or not.
Mutant_RunningForever(t, source) ==
    stage1[t] = None \/
    /\ stage1[t].status # "running"
    /\ ~ stage1[t].backoff \/ source > stage1[t].input
    /\ stage1[t].retry_remaining > 0 \/ source > stage1[t].input

Claimable(t, source) ==
    stage1[t] = None \/
    /\ ~ RunsNow(t)
    /\ ~ stage1[t].backoff \/ source > stage1[t].input
    /\ stage1[t].retry_remaining > 0 \/ source > stage1[t].input

BelowLimit(t) == Cardinality({u \in Threads \ {t} : RunsNow(u)}) < MaxRunning

\* Mutant: every claim starts a new count of retries.
Mutant_RetriesReset(w, t, source) ==
    [status          |-> "running",
     token           |-> w,
     leased          |-> TRUE,
     backoff         |-> FALSE,
     retry_remaining |-> DEFAULT_RETRY_REMAINING,
     input           |-> source,
     last_success    |-> IF stage1[t] = None THEN 0 ELSE stage1[t].last_success]

ClaimedRow(w, t, source) ==
    [status          |-> "running",
     token           |-> w,
     leased          |-> TRUE,
     backoff         |-> FALSE,
     retry_remaining |-> IF stage1[t] = None \/ source > stage1[t].input
                         THEN DEFAULT_RETRY_REMAINING
                         ELSE stage1[t].retry_remaining,
     input           |-> source,
     last_success    |-> IF stage1[t] = None THEN 0 ELSE stage1[t].last_success]

-----------------------------------------------------------------------------
\* The result of a job counts while its row still carries the worker's token,
\* also after the lease.

\* Mutant: whoever claimed the job before may finish it.
Mutant_AnyOwner(w, t) == stage1[t] # None /\ stage1[t].status = "running"

Owns(w, t) ==
    stage1[t] # None /\ stage1[t].status = "running" /\ stage1[t].token = w

SucceededRow(t) ==
    [stage1[t] EXCEPT !.status = "done", !.leased = FALSE, !.last_success = stage1[t].input]

FailedRow(t) ==
    [stage1[t] EXCEPT !.status = "error", !.leased = FALSE, !.backoff = TRUE,
                      !.retry_remaining = @ - 1]

\* The upsert keeps the selection of the last consolidation.
UpsertedOutput(t, source) ==
    IF output[t] = None THEN [source |-> source, selected |-> 0]
    ELSE IF source >= output[t].source THEN [output[t] EXCEPT !.source = source]
    ELSE output[t]

-----------------------------------------------------------------------------
\* The global job.

\* enqueue_global_consolidation
Enqueued ==
    IF global = None
    THEN [status |-> "pending", token |-> None, leased |-> FALSE,
          backoff |-> FALSE, recent |-> FALSE, failed |-> FALSE]
    ELSE IF global.status = "running" THEN global
    ELSE [global EXCEPT !.status = "pending", !.backoff = FALSE]

\* Mutant: a lease is never looked at.
Mutant_GlobalUnleased ==
    global = None \/
    /\ ~ global.backoff
    /\ global.failed \/ ~ global.recent

GlobalClaimable ==
    global = None \/
    /\ ~ global.backoff
    /\ ~ (global.status = "running" /\ global.leased)
    /\ global.failed \/ ~ global.recent

ClaimedGlobal(w) ==
    [status |-> "running", token |-> w, leased |-> TRUE,
     backoff |-> FALSE, recent |-> FALSE, failed |-> FALSE]

OwnsGlobal(w) ==
    global # None /\ global.status = "running" /\ global.token = w

SucceededGlobal ==
    [global EXCEPT !.status = "done", !.leased = FALSE, !.failed = FALSE, !.recent = TRUE]

FailedGlobal ==
    [global EXCEPT !.status = "error", !.leased = FALSE, !.backoff = TRUE,
                   !.recent = TRUE, !.failed = TRUE]

\* Exactly the consumed snapshots are selected, if they are still there.
Selecting(snapshots) ==
    [t \in Threads |->
        IF output[t] = None THEN None
        ELSE [output[t] EXCEPT !.selected =
                 IF <<t, output[t].source>> \in snapshots THEN output[t].source ELSE 0]]
=============================================================================
