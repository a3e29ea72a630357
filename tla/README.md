# ChatCodex in TLA+

ChatCodex lets a chat model drive a coding workspace through a *deterministic*
backend: the model calls tools, a daemon keeps the state of every run, gates
risky actions behind human approvals, and never acts on its own. Beside the
daemon the repository has an MCP harness with its own OAuth server, which runs
commands through the exec server, and, as a fork of OpenAI Codex, the crates of
that project. This project models the daemon with the tools it applies to a
workspace, the harness's command sessions and OAuth server, and two upstream
subsystems with hard concurrency: the exec server and the memory pipeline.

## 1. Inventory

Paths are relative to `src/codex-rs` unless they start with `apps`.

| Part | Source | State | Operations | Interaction |
|---|---|---|---|---|
| approval policy | `deterministic-core/src/approval_policy.rs` | none | `evaluate_patch`, `evaluate_test_run` | called by `patch.apply` and `tests.run` with the run's policy profile |
| run lifecycle functions | `deterministic-core/src/run_{prepare,replan,finalize,reopen,supersede,archive,unarchive}.rs`, `approval.rs` | a `RunState` passed in and out | one per method | called between a load and a save of the row |
| handlers | `deterministic-daemon/src/handlers.rs` | none (queue views: a global map) | one per RPC method | several store calls each, no transaction around them |
| store | `deterministic-daemon/src/persistence.rs` | SQLite tables `runs`, `approvals`, `audit_trail` | `save_run`, `get_run`, `save_approval`, `resolve_approval`, `append_audit_entry`, ... | one mutex, held for one call |
| router | `deterministic-daemon/src/router.rs`, `main.rs` | none | `POST /rpc` | axum on a multi-threaded tokio runtime: requests run concurrently |
| run organisation | `deterministic-core/src/run_{annotate,pin,unpin,snooze,unsnooze,set_priority,assign_owner,set_due_date,set_dependencies,set_effort}.rs` | metadata columns of a run | one per method | load the row, save the whole row |
| queue reading | `deterministic-core/src/run_{readiness,staleness,triage,refresh}.rs`, `runs.list`, `runs.queue_overview` | none | derive, filter, sort | read rows |
| queue views | `deterministic-daemon/src/handlers.rs` 1690-1883 | `QUEUE_VIEWS`, in memory | create, update, delete, get, list | name check and insert under two locks |
| workspace tools | `deterministic-core/src/{patch_apply,tests_run,command_runner}.rs`, file reading, search, git | files and child processes | apply edits one by one, run a command with or without a timeout | after the gate; no lock on the workspace |
| exec server | `exec-server/src` | a map of processes with retained output; sessions with an attached connection | start, read, terminate, shut down; initialize, resume, detach, expire | three tasks per process under one lock; notifications over a transport; a client that orders them |
| MCP harness | `native-harness-mcp` | a map of command sessions | `exec_command`, `write_stdin` | through the exec server's local backend |
| OAuth server | `native-harness-mcp-auth` | SQLite tables for clients, codes, tokens; rate windows in memory | register, decide, token, revoke | in front of the harness; one lock per store call |
| memory pipeline | `memories/write/src`, `state/src/runtime/memories.rs`, `git-utils/src/baseline.rs` | two databases, a directory with a git repository | claim, extract, consolidate, prune, pollute, delete, reset | sessions of several processes coordinate by rows with leases |
| gateway | `apps/chatgpt-mcp` | none | MCP tool to one JSON-RPC request | in front of the daemon |
| upstream Codex | the other crates | - | - | not linked into the daemon |

What is hard here:

* **State used after it was read.** A daemon handler loads a row, changes it and
  writes all columns back; a token request reads a refresh token and rotates it
  in later calls; a consolidation selects threads and acts on them much later.
* **Two records of one fact.** A run's status and its pending approvals; the
  outcome and the status `finalized:<kind>`; an attachment and a notification
  sender; a job's watermark and the output table; inputs and git baseline.
* **Order.** Three tasks number events under a lock and send them after it; two
  tasks learn of a disconnect; edits are written one by one.
* **Partial failure.** Two saves, two inserts, two databases, a repository that
  is removed before it is replaced: with nothing to roll back.
* **Time.** Leases, deadlines, retention, timers of earlier connections,
  a timeout that races the end of a child.
* **Long sequences.** Almost every daemon method is accepted in almost every
  status.

What makes the parts correct is said with the properties in section 3.

## 2. Modules

```
ApprovalPolicy        rules: does a request need an approval?
  RunCore             the core functions on one row, RowOK        RunCoreProofs
    RunLifecycle      one atomic action per handler               RunLifecycleProofs
      Daemon          workers, store calls, faults;               DaemonProofs
                      refines RunLifecycle

PatchApply            what an edit makes of a file
  Workspace           patch.apply, tests.run, command.run       WorkspaceProofs
                      on files and processes

ExecProcess           one process of the exec server              ExecProofs
  ExecRead            + a client that pages through its output      "
  ExecServerClient    + transport, ordering and failure;            "
                      refines EventStream
  NativeHarness       + the command sessions of the MCP harness
EventStream           what a subscriber is promised
ExecSessions          connections, sessions, expiry               ExecSessionsProofs

RateLimiter           the limiter of the token endpoint           OAuthProofs
  OAuth               clients, codes, tokens, revocation            "

MemoryStore           the tables, one operator per transaction    MemoryProofs
  MemoryPipeline      sessions, agents, git baseline, leases, faults  "
```

A module extends the one it is indented under; the modules on the right hold
theorems and extend the ones they stand beside. `MC...` modules only fix
constants for TLC. Definitions named `Mutant_...` are plausible mistakes in the
code they precede; no specification uses them, and replacing the definition by
its mutant makes the property that PROJECT.json names fail.

### The daemon

**ApprovalPolicy** has the five rules of `approval_policy.rs` and the policy
knobs. A path is represented by what the rules ask of it: it matches a sensitive
pattern, it starts with a focus path; a make target is safe or not.

**RunCore** has a pair of operators per core function: `CanFinalize(s)` is the
guard (the `bail!`s that depend on the row), `finalize(s, kind)` the row
returned. Texts, timestamps and organisation metadata are left out. A recovery
step is represented by its failure context. Two deviations, only to state
properties: the retryable action carries the id of the approval created with it,
and holds the request itself in place of its JSON.

**RunLifecycle** has `runs` and `approvals` and one action per method that
changes them. It is the specification a client may have in mind: one request at
a time, nothing fails. `MaxReopens` bounds a counter the code never caps.

**Daemon** serves the same methods with `Workers`. `Begin...` is the first read
of a handler together with the core function; the changed row waits in `job[w]`
while the store calls happen one by one. Two reads without a write in between
are one step, because a row once present stays and an approval never changes its
run. `StoreError` ends one handler before its next call, except that the error
of an audit append is ignored and `run.supersede` goes on to the entry of the
successor; `Crash` ends all of them.
The ten organisation methods are one action, which saves the row it loaded.
`BeginSupersede` may reuse the id of a supersession in flight, as an id made of
a millisecond timestamp can.

**Workspace** has the files as sequences of lines, and one request per client.
An edit is read (`ReadEdit`), its file truncated (`WriteEdit`) and filled
(`FillFile`); errors, panics, failing writes and a crash may come in between.
**PatchApply** has the arithmetic: line ranges, and counts that wrap in a build
without overflow checks and panic in one with them (`Outcomes` allows both). A
file is its lines; an `old_text` is a line of its own. A child of `command.run`
has a waiting thread that outlives the request; a child of `tests.run` is
waited for by the handler itself. The cleared retryable action is in Daemon.

### The exec server and the harness

**ExecProcess** is one entry of the process map and the three tasks of its
child. `Emit` is what happens under the lock (number, retain, evict), `Notify`
what happens after it. Sizes of chunks are small numbers; `events` is the
complete history of which `process.output` retains a tail. The loops over the
retained chunks are stated by what they leave: `Evict` keeps the longest suffix
that fits, `Page` takes the longest prefix that fits (one chunk at least).

**ExecRead** adds one client of `exec_read` that asks for the page after
`next_seq - 1`. `notify_waiters` leaves no permit: the step between unlock and
wait (`"unlocked"`) is where a wake-up is missed.

**ExecServerClient** adds the transport as a queue that a disconnect cuts at any
point, the client's route, `publish_ordered_event`, and the two tasks that learn
of the disconnect. The loop that drains the pending map is one step: it publishes
up to the last number without a gap (`UpTo`) and keeps the rest. The reader task
runs while `listening`; a notification that it cannot handle ends it like a
disconnect does and fails the session (`NotificationFails`), and a call made
after the disconnect was recorded is rejected (`ReadRejected`). **EventStream** is
the abstract specification: the events of a process in one order, seen without
gap or repeat. It is the promise to a subscriber that keeps up: the client's log
and channel hold 256 events, and a subscriber slower than that skips some
(`Lagged`).

**NativeHarness** adds the map of command sessions, whose position is copied by
a call, used without the lock, and stored afterwards.

**ExecSessions** has the registry, the attachment of every session, the sender
its notifications go to, the connections, and the sleeping timers. A connection
attaches once. A deadline is ahead or has passed. The history `overtook` has the
connections that resumed a session while a detach of it was under way.

### The OAuth server

**RateLimiter** and **OAuth**: a request is a sequence of store calls; `job[w]`
is what it remembers between two. Tokens are numbered in the order they are
stored, and rows keep the grant they come from as history. Every token
request begins with the limiter (`RateLimitToken`): it is counted for its client,
or passes uncounted when the form has no `client_id` that decodes
(`MaxUncounted` bounds those). A refused request changes nothing and is not an
action. The clock is a bounded counter, and `allowed` remembers when the counted
requests of each client were let through.

### The memory pipeline

**MemoryStore** has the tables, one operator per SQL transaction. A time is
represented by what the queries ask of it (a lease is valid, a delay has
elapsed), and a token by the session it was made for. **MemoryPipeline** has the
sessions: `Start`, `TryClaim`, then the extraction results, then `ClaimGlobal`
... `SucceedGlobal`. The workspace is represented by the snapshots its input
files are made of and those its consolidated files are made of. A session that
stops while it syncs or while its agent works leaves any part of the new files
(`Left`). A session that gives its agent up (an error, a heartbeat that fails)
marks the job first and has the agent shut down later: until then the agent is
`lingering` and may write. The name of a session is used again once its agents
are gone. A lease that expires under a live session counts as a fault.
`disturbed` remembers that this happened to a consolidation, that a reset came
under one, or that one began beside a lingering agent: the promises about the
workspace are made for the other case.

## 3. Model checking

| Run | Instance | States | Shows |
|---|---|---|---|
| `lifecycle` | 2 runs, 2 approvals, 2 requests (one gated), 1 failure context, 1 reopening; symmetric | 622 thousand | `Inv` (of which the named invariants are consequences), `OutcomeKeptUntilReopen`, `HistoryKept` |
| `daemon_approvals` | 2 workers, 1 run, 2 approvals, 1 fault; symmetric | 837 thousand | `DInv`, `BlockedByDenial`, `RecommendedWasApproved`, `DecidedOnce` under interleaving and faults |
| `daemon_lifecycle` | 2 workers, 2 runs, 1 fault; symmetric | 844 thousand | `DInv`, whole supersessions and audit under interleaving and faults |
| `daemon_serial` | 1 worker, 2 runs, 1 approval; every lifecycle method | 427 thousand | `SerialIsAtomic`: Daemon implements RunLifecycle |
| `exec_read` | 2 chunks of 1 or 2 bytes, 2 retained, pages of 1 | 153 thousand | paging, eviction, close, wake-ups |
| `exec_client` | 2 chunks, one disconnect or bad notification | 417 thousand | `ImplementsStream`, order, the end is told |
| `exec_sessions` | 4 connections, 2 sessions | 480 thousand | attachment, expiry, senders |
| `oauth` | 2 clients, 2 requests at once, 1 code, 3 access and 2 refresh tokens, 4 counted requests of a client and 1 uncounted, 3 instants, 1 fault; symmetric | 1.5 million | codes, rotation, revocation, rate limit |
| `memory_extract` | 2 sessions, 2 threads, 2 versions, 2 retries, 1 running, 1 fault | 304 thousand | watermarks, duplicates, limits, settling |
| `memory_consolidate` | 2 sessions, 1 thread, 2 versions, 1 fault | 823 thousand | one consolidation, honest baseline, forgetting |
| `workspace` | 2 clients, 3 paths (one outside), 8 patches, 1 fault | 28 thousand | prefixes, audit, statistics, timeouts |
| `doc_poll` | 1 caller, 2 chunks | (violation) | a poll skips a chunk |

*Why the bounds are enough.* Two approvals let one be decided while the other is
pending; two workers, clients or sessions are the smallest race, and every
conflict here is between two. One fault reaches every prefix of every handler
and every step of a session. Two chunks with a limit of two make eviction
happen, and with the exit and the close they give four numbered events in all
the orders three tasks can send them. Three connections after a first one let a
session be resumed, lost, resumed again and expired with two old timers asleep.
Three access tokens are a code's pair and two rotations of its refresh token,
concurrent or failed in between; three instants with a window of one make a
window end, and four requests of a client with a limit of two are those that
`UnderTwiceTheLimit` compares. Two versions of a thread
are one extracted and one newer. A run superseded twice needs three runs, which
`lifecycle` does not have: the theorem `LineageAgrees` covers it (an instance
with three runs and one approval passes too, with 2.9 million states). Symmetry
is used only in runs without liveness properties.

`CHECK_DEADLOCK FALSE` is set where the system may stop: a process that has
ended and been removed, connections that are all closed, a clock at its bound,
clients of the workspace that make one request each.

### What the properties say

Every module's type invariant is a conjunct of its `...Inv`. All are proved
inductive (section 4), so they name what the other invariants rest on:

* `Inv` (RunLifecycle): `RowOK`, `LinkOK`, `SyncOK` of every row, `LineageLinked`.
* `DInv` (Daemon): rows are consistent and linked to approvals (`RowsLinked`, from
  which `RetryHasApproval` and `FinalizedMatchesOutcome` follow), and so are the
  rows that handlers are about to save (`JobLinked`, `JobLineage`); the ids that
  two requests are about to insert differ, except for two successors of one run
  (`Apart`); the predecessor exists (`PredecessorExists`); as
  long as nothing failed, the audit trail explains every status that is stored or
  about to be stored (`AuditPromised`).
* `PInv` (ExecProcess): `Numbered`, `KindsRecorded`, `StreamsCounted`,
  `NotesAreEvents`, `ClosedIsLast`, `RetainsTail`; `RInv` adds that the reader's
  position was given out, `CInv` that queue and pending map hold events of the
  process (`SessionInStep`) and subscribers get them `InOrder`.
* `SInv` (ExecSessions): `NeverEvicted`, `ShutStaysEmpty`, and that registry and
  connections agree on who is attached.
* `OInv` (OAuth): `ClientKept`, `CodeHeld`, `RotatedIsRevoked`,
  `RotatesRevoked`, `NoRefreshWithoutAccess`, and the limiter's `WindowsMatch`.
* `MInv` (memory, phase 1): `RunningBounded`, `WatermarkHonest`, and that jobs and
  the claims of the sessions agree (`JobConsistent`, `ClaimsConsistent`).
* `WInv` (Workspace): `PrefixApplied`, `AuditedIsApplied`; what a request holds
  between reading a file and having written it is what its files call for
  (`InHand`); the statistics are the sum over its edits modulo the word size, and
  that sum bounds the growth (`StatsKept`); other files are as they were
  (`Untouched`).

*Daemon.* A closed run shows the outcome it was closed with; a run awaits only
while an approval is pending; a denial is final for its action; nothing is
recommended that nobody approved; an approval is decided once; lineage links
agree; plan history is kept; a supersession is whole: the successor a run names
names it back, or a fault came in between, or it is about to be saved
(`SupersessionWhole`); the audit trail explains the rows; handlers served one at
a time are atomic (`SerialIsAtomic`).

*Workspace.* However a request ends, its files hold the effect of a prefix of
its edits, but for the one file it was writing (`PrefixApplied`); the audit
trail never calls a patch applied that was not; the statistics are never below
the growth of the files, read modulo 2^64, as long as a signed number of that
width can hold the difference; `command.run` answers although the command may
never end.

*Exec server.* Paging skips nothing that is retained; what is retained is a
tail; the close is the last event and comes; a read returns despite missed
wake-ups. The client's session implements the ordered stream and its subscriber
learns of the end. An attached connection keeps its session, and gets its
notifications unless it resumed it in the middle of a detach (`SenderKept`); an
abandoned session is shut down (or `"lost"`: see below).

*OAuth.* A code yields one pair; a refresh token yields at most as many pairs as
there are requests at a time (`RotationBounded`), unless the store failed to
revoke it; a token's client is that of its grant; a refresh token is never stored
without an access token; a revocation sticks; less than twice the limit passes in
any window: of any 2 * `max_per_window` counted requests of a client in a row,
the last comes more than `window_secs` after the first (`UnderTwiceTheLimit`).

*Memory.* A watermark names a version that has a result; no version is extracted
again; limits and retries hold over all sessions; every thread settles. One
consolidation at a time; the baseline holds only what was consolidated; a done
job leaves a workspace equal to its baseline, with every selected snapshot in it;
only consumed snapshots are marked; a polluted or deleted thread disappears from
the inputs (`memory_consolidate` pollutes threads and deletes none).

### Fairness

* `RFairness`, `CFairness`: weak fairness of the tasks' own steps, of reads and
  of the reader task, because tokio runs every task that can run and fires its
  timers. The streams and the exit of a child are fair only once it is killed:
  a child need not end by itself. Nothing is assumed of the transport.
* `SFairness`: weak fairness of the handlers' remaining steps, of the deadline
  and of the timer tasks. Connections may do nothing.
* `MFairness`: weak fairness, per session, of starting or going on (sessions are
  started now and then, and tokio runs one that runs; extractions and agents end,
  which way is open); per thread, and for the global job, of the passing of time.
  Nothing is assumed of a lingering agent's shutdown.
* `WFairness`: weak fairness of handlers, of the clock of `recv_timeout` and of
  the waiting threads. A command need not end, and a kill need not work.

### Refinement

`SerialIsAtomic`: a request takes effect when its row is saved. Until then
`shownApprovals` hides the approval it has created or decided; after it,
`shownRuns` shows the successor that is still to be saved.

`ImplementsStream`: the log is the process's own order of events, and what is
seen is how many of them were published. The pending map, the queue and the
failure are hidden.

### Where documentation and code disagree

One disagreement has a run (`doc_poll`, the finding in PROJECT.json):
`write_stdin` passes the number of the *next* chunk where the backend expects
that of the *last* one, and that chunk is never delivered.

The others follow from the modelled actions and are recorded here:

* `approval.rs:24`: a gated patch on a finalized run makes it
  `awaiting_approval` while it keeps its outcome; once approved it can be
  neither finalized ("already finalized") nor reopened nor superseded ("only
  finalized runs"). `run_finalize.rs:33` says "Use reopen_run to continue work,
  or supersede_run to start a new approach."; `docs/OPERATOR_GUIDE.md:475` too.
* `run_archive.rs:36`: an archived and restored run is refused as already
  archived, for ever. `docs/INTERNAL_RPC.md:243`: "A run is considered archived
  only if `archiveMetadata` is set AND `unarchiveMetadata` is not set".
* `run_replan.rs:83`: a successor starts without steps, no method adds any, and
  replanning declares it done. `run_supersede.rs:67` recommends "then replan_run
  to define the new plan"; `docs/MCP_TOOL_CONTRACTS.md:502` calls it "a clean
  slate for ChatGPT to replan".
* `handlers.rs:416`: interleaved resolutions, or a resolution and a new gate,
  leave a run awaiting approval with none pending. `docs/INTERNAL_RPC.md:328`:
  "Approving the last pending approval unblocks the run".
* `handlers.rs:919`: a fault between the two saves of `run.supersede` leaves a
  successor id without a run. `docs/MCP_TOOL_CONTRACTS.md:498`: "The original
  run is marked with `supersededByRunId` pointing to the successor".
* `handlers.rs:1098`: a pin that loaded the row before `run.finalize` and saves
  it afterwards erases the outcome. `handlers.rs:1084`: "This operation updates
  pin metadata only."; `docs/MCP_TOOL_CONTRACTS.md:434`: "Exactly one
  finalization per run".
* `handlers.rs:284` clears the retryable action "on successful execution", and
  does so before executing.
* `exec-server/src/client.rs:586`: "Only the reader task drains sessions so
  queued process notifications stay ordered before disconnect", while
  `Session::read` (753-756) publishes the failure at once: a subscriber may see
  `Failed` before events that were queued.
* `ratelimit.rs:37-38`: "`max_per_window` is the maximum number of requests
  allowed from a single client_id within `window_secs` seconds", and line 1 calls
  the limiter "sliding-window". Its windows are fixed (60-73), so around the end
  of one, 2 * `max_per_window` - 1 requests pass within `window_secs`
  (`UnderTwiceTheLimit` is the bound that holds, and the one request less than
  double is exact). A request whose form has no `client_id`, or one that does not
  decode, is not counted at all (104-119). (A poisoned lock would let everything
  pass, line 54, but nothing panics under it.)

Other behaviours kept as the code has them: the retry of an approved patch is
gated again, because the policy sees no approvals; with two pending approvals,
approving one recommends the action of the other; a stale whole-row save can
bring a denied action back as valid; two rotations of one refresh token that
read it before either revokes it both succeed (`RotationBounded` says how many
can); a failed exchange uses up its code; a resume between the two steps of a
detach loses its notification sender (`SenderKept` says that nothing else does);
a request that removed an expired session and is dropped before it shut it down
leaves the session `"lost"`, out of reach and with its processes running; a
panic of `patch_apply` or of the truncation in `tests_run` loses the request
with its edits applied and nothing in the audit trail.

## 4. Proofs

Eight modules hold theorems, each checked by TLAPS for every value of the
constants within the named assumptions. Every safety invariant and action
property that a passing run checks is stated by one of them. A theorem
`Spec => []P` comes from an inductive invariant. The runs check these too, except
for `SuccessorsNamed`, `SenderInv` and `ConsolidationInv`, of which they check the
consequences.

| Module | Theorems |
|---|---|
| `RunLifecycleProofs` | `Safety` (`Inv`) and from it `TypeCorrect`, `OutcomeShown`, `NeverAwaitsNothing`, `DenialInvalidates`, `OnlyDenialBlocks`, `NoRetryUnapproved`, `OnlyClosedLeave`, `LineageAgrees`, `DoneIsASuccessor`; the action properties `DecisionsStand`, `HistoryStands`, `OutcomeStands` |
| `DaemonProofs` | `DaemonSafe` (`DInv`) and from it `RetryGated`, `DaemonOnlyDenialBlocks`, `DaemonNoRetryUnapproved`, `DaemonOutcomeShown`, `SupersessionsWhole`, `AuditComplete`; `DaemonDecisionsStand`; `SerialRequestsAreAtomic` (refinement of RunLifecycle) |
| `ExecProofs` | `ProcessSafe` (`RInv`), `PagingSkipsNothing`, `SessionInOrder` (`CInv`), `ClientImplementsStream` (refinement of EventStream) |
| `ExecSessionsProofs` | `SessionsSafe` (`SInv`), `SendersKept` |
| `OAuthProofs` | `TokensSafe` (`OInv`), `CodesUsedOnce`, `RotationsBounded`, `LimitNeverDoubled`, `RevocationsStick` |
| `MemoryProofs` | `ExtractionSafe` (`MInv`), `WatermarksHonest`, `NeverExtractedAgain`, `RetriesBounded`, `ConsolidationSafe` (`ConsolidationInv`), `ConsolidationsExclude`, `BaselinesConsolidated`, `DoneLeavesClean` |
| `WorkspaceProofs` | `PatchesHold` (`WInv`), `StatsHold` (`StatsBoundGrowth`), `AuditTells` |

`RunCoreProofs` holds the lemmas about the core functions.

Assumptions. `PolicyAssumption`, `CoreAssumption`, `LifecycleAssumption`:
requests and policies are well typed, failure contexts are not plan steps.
`NoneAssumption`, and the parts of the others that mention `None`: an absent value
differs from every present one. Limits, lifetimes and bounds are natural numbers;
`max_per_window`, `MaxRunning`, `MaxUpdates`, `DEFAULT_RETRY_REMAINING` and the
length of a chunk are positive. The threads of a memory database and the requests
in flight of the OAuth server are finite sets, because cardinalities of subsets
are compared. `PatchAssumption`, `WorkspaceAssumption`: the files at the start and
the edits are well typed, a missing file differs from every content, and the
modulus of a `usize` is positive. Nothing is assumed of the number of workers,
runs, approvals, connections, sessions, clients, tokens, chunks, files, edits or
faults. The bounds that keep TLC's instances finite (`MaxReopens`, `MaxFaults`,
`MaxChunks`, `MaxAccess`, `MaxTime`, ...) are arbitrary natural numbers there.

### The daemon

No property of RunLifecycle is inductive alone: that a blocked run has no valid
retryable action needs that a recommended action is valid, and that an awaiting
run has a pending approval needs that a decision of one run's approval does not
touch another run. `Inv` splits what is needed into `RowOK(s)`, which a row
satisfies by itself (`RunCoreProofs` proves, function by function, that a
consistent row stays consistent); `LinkOK(r, s, ap)`, which a row owes to the
approvals and which survives anything that happens to them later
(`ProgressKeepsLink`); `SyncOK(r, s, ap)`, which holds because row and approvals
change together; and `LineageLinked`. Functions that touch neither approvals nor
links satisfy `Follows` and `SameLineage` and are handled by one lemma
(`RowStep`); the two that create or decide an approval by `ApprovalStep`; a new
run and a supersession by their own.

`RowOK` and `LinkOK` do not depend on atomicity, and that is the whole argument
for Daemon: a stale row that a handler is about to save still owes the approvals
only what they can no longer lose, so saving it over a newer one breaks neither.
`DInv` therefore demands them of every row in the table and of every row in a
`job[w]`. `SyncOK` does depend on atomicity, and Daemon loses it (the fourth
disagreement above). The audit part holds for `faults = 0`, and counts the
entries that handlers in flight are still to append.

`SupersessionWhole` rests on `SuccessorsNamed`, about the ids that rows in the
table and rows in jobs name as successors: one run names an id, no run that is
still to be saved has it, the run that has it names back; and without faults an id
in the table is that of a run or of one that a handler saves next. A successor
never changes its predecessor, so stale saves of either row keep all four.

`SerialRequestsAreAtomic` assumes one worker and no fault (the instance of
`daemon_serial`): the step that saves the row maps to the atomic action, and all
other steps to a stutter. The proof goes through what every handler has computed
when it saves.

### The exec server

`PInv` is proved for the process and its tasks alone, and used for both of its
users. A task that numbers an event changes process, events and tasks together
(`Emits`); one lemma (`EmitKeeps`) covers the three kinds, and one (`GoKeeps`)
the steps that number nothing. That nothing follows the close needs
`StreamsCounted`: `open_streams` is the number of streams that may still emit.

The reader: eviction keeps a tail (`EvictsOldest`), a page contains everything
retained up to where it says the next starts (`PageIsWhole`, with the least and
the greatest element of a set of numbers), and what arrives later has a number at
or after `next_seq` (`ProcessGrows`). So `NothingSkipped` is preserved.

The client: what travels and what is pending are events under their own numbers
(`CarriesEvents`), hence an event chosen by its number is the event of that
number, and what one call publishes is the run of events after
`last_published_seq` (`PublishesEvents`). `Delivered` accounts for the one
failure in between. For the refinement, `last_published_seq` equals what the
abstract subscriber has seen: a step that changes it is `See`, a step that
numbers an event is `Happen` (`ProcessHappens` gives its guards), and every other
step is a stutter.

### Sessions of the exec server

`SInv` needs both directions of the attachment: an entry names its connection, and
the connection its session, at each step of `run_connection`; and that whoever is
about to shut a session down has removed it from the registry.

`SenderKept` rests on `SenderInv`: a late detach clears a sender only while its
connection is `"detaching"`, and whoever is attached to the session then has
resumed it after that detach began, that is, it is in `overtook`.

### OAuth

Every step has a shape (`StepShape`): tables only grow, consumed and revoked
flags are only set, a request is new, moved on or ended. `ShapeKeeps` derives from
it that clients are kept, codes held and rotated tokens spent. `CodeHeld` makes
`CodeUsedOnce` inductive: the request that marked a code is the only one that
works on it. `NoRefreshWithoutAccess` compares cardinalities and is proved by
following the two inserts of a request. `RotationBounded` counts pairs and
requests together: who reads a refresh token as valid does so before anyone has
revoked it, so it occupies a worker that has not yet stored a pair of it; a
revocation that stuck lets nobody in, and storing a pair moves one request from
the second count to the first.

The limiter: the window is the last `count` requests let through and starts with
the first of them, and whatever lies more than `max_per_window` requests before
that start is older than a window (`WindowsMatch`). A new request either starts a
window more than `window_secs` after the old start, or is at most the
`max_per_window`-th of its own; either way the request `2 * max_per_window - 1`
before it is too old to count.

### The memory pipeline

`MInv`: a claim of a live session that still owns its job names the version the
job was claimed for, and a failure uses up a retry of that version, so late
results, expired leases and repeated claims neither move a watermark to a version
without a result nor exceed the retries. `RunningBounded` counts rows, of which a
claim adds one under the transaction that counts them.

`ConsolidationInv`: as long as nothing disturbed it, the session that consolidates
holds the lease (`ConsolidatorHolds`), and at each of its steps disk and baseline
are what that step says (`WorkspaceInStep`); after a death at any step, what is on
disk without a baseline was consolidated (`UntrackedConsolidated`). The lease is
what makes this one session's business, so `OneConsolidation` follows. Beside an
agent that was given up nobody consolidates but the session that failed
(`LingeringAlone`); there is a baseline and the job is not done, so what the agent
writes breaks nothing until the next claim, which counts as a disturbance. For the
same reason the parts that `Left` leaves behind do no harm: a sync and an agent
work only beside a baseline, and the next diff shows them.

### The workspace

The property to prove compares the files with `Effects`, what the edits of a
request make of the initial files when they run alone. It needs, per request, what
the request has in hand: between `ReadEdit` and `FillFile` the content to write was
computed from what the edits before left, and the file is empty while it is open
(`Held` without reference to the other requests, `Exact` with it; the conjuncts of
`WInv` are these two for every client). Every step of a patch moves one request
and at most one of its own files; a request that is `Undisturbed` shares no path
with that one and keeps what it has (`OneRequest`). A request that starts may
disturb another one, and then nothing is claimed of either; if it does not, its
files are still the initial ones, which is what `Untouched` is for. A crash, a
failing write and a panic stop a request where it is, and the one file in `open`
is exempt.

`Effects` is a recursive function and `LineCount` a fold over a set, of which the
provers know no equation. Both are shown to have a solution: for the recursion, the
least length of a patch without one would have a predecessor that has one
(`StagesExist`, `EffectsStaged`); for the sum, a smallest set of paths without one
likewise (`CountExists`, `LineCountCounted`). From the equation of the sum follows
that changing one file changes it by that file's difference (`LineCountChanges`).

The statistics: `EditProperties` proves for every operation and every range of
lines that is let through, also one past the end of the file or ending before its
start, that the new content has at most as many lines as the old plus the
additions less the deletions. So the sum over the edits bounds the growth
(`NextWorld`). The counters wrap, but stay congruent to that sum
(`AddedCongruent`), and `Signed` recovers it when it is in the signed range
(`SignedIs`). Hence the range in `StatsBoundGrowth`: beyond it two totals that
wrapped say nothing of their difference. No patch of the `workspace` run leaves it.

### Only model-checked

* Liveness, which is outside the prover's reach: `KilledCloses`,
  `ReadsReturn`, `SubscriberTold`, `AbandonedIsShutDown`,
  `EventuallySettled`, `Forgotten`, `CommandAnswers`.
* The agreement of a loop with what it is stated to leave (`Evict`, `Page`,
  `UpTo`): one step of the model stands for the loop.

## 5. Not modelled, and the plan

Not modelled: HTTP and JSON-RPC framing; texts, timestamps and reasons; the
column-by-column migration; file reading, searching and git of the daemon, which
are I/O; preflights; the gateway, which is stateless; cryptography, Cloudflare
Access and discovery; `RateLimiter::cleanup`, which only a test calls; writing
to stdin, the file system methods and the HTTP body streams of the exec server;
the limit of 256 events of the client's log, beyond which a subscriber lags;
what models extract and consolidate, usage counters, ages and ranking of
memories. Of the upstream crates, which are most of the repository's lines, only
the exec server and the memory pipeline are modelled: the terminal interface,
configuration and protocol types are presentation and data, and the agent loop
is model I/O whose control is not part of what this fork adds.

Known hazards that no property covers:

* nothing in the code bounds them: `tests.run` waits without a limit on a thread
  of the async runtime (`tests_run.rs:186`); a session that dies during an
  extraction does not count as a failed retry (`memories.rs:718`); extractions
  slower than their lease can take a job from each other for ever;
* the models have the behaviour, and the properties exclude it by name: two
  patches of one file without a lock (`patch_apply.rs:49`, `Undisturbed`); a
  consolidation suspended for an hour after it confirmed its ownership
  (`phase2.rs:415`), a memory reset under one, and the agent of a failed job that
  still writes when the next consolidation begins (`phase2.rs:438`), all three
  `disturbed`; the retryable action cleared before its retry runs (`handlers.rs:284`);
* below the abstraction: truncation of texts at byte offsets
  (`run_replan.rs:163`, `tests_run.rs:199`), reuse of process ids
  (`handlers.rs:1520`);
* concurrent polls of one command session (`native-harness-mcp/src/lib.rs:402`),
  of which nothing holds while the position is off by one;
* the queue: two locks in the creation of a view (`handlers.rs:1720`), views lost
  at restart, triage of restored runs (`handlers.rs:664`), cycles of
  dependencies (`run_set_dependencies.rs:31`).

Still to come, in this order:

1. `RunQueue`: organisation metadata, `list_runs` with its filters and limit,
   readiness, staleness and triage; the two definitions of "archived",
   dependency cycles, the limit applied before the filters.
2. `QueueViews`: two locks in `create`, loss at restart.
