----------------------------- MODULE MemoryProofs -----------------------------
(***************************************************************************)
(* Proofs about the memory pipeline, for any number of sessions, threads,   *)
(* versions, faults and resets: MInv is inductive for the extraction jobs,  *)
(* ConsolidationInv for the consolidation of the workspace.                 *)
(***************************************************************************)
EXTENDS MemoryPipeline, FiniteSetTheorems, TLAPS

-----------------------------------------------------------------------------
(* What the steps do to the sessions.                                       *)

Labels == {"idle", "claim", "extract", "phase2", "prepare", "keys", "rows", "sync",
           "diff", "agent", "confirm", "reset", "succeed", "failed"}

\* A session becomes s, and the others go on.
Becomes(w, s) ==
    /\ worker' \in [Workers -> WorkerStates]
    /\ worker'[w] = s
    /\ \A v \in Workers : v # w => worker'[v] = worker[v]

\* It goes to its next step with what it has.
Goes(w, label) ==
    \E s \in WorkerStates :
        /\ Becomes(w, s) /\ s.at = label /\ s.items = worker[w].items
        /\ s.claims = worker[w].claims /\ s.picked = worker[w].picked

LEMMA SetWorker ==
    ASSUME MTypeOK, NEW w \in Workers, NEW s \in WorkerStates,
           worker' = [worker EXCEPT ![w] = s]
    PROVE  Becomes(w, s)
BY DEF MTypeOK, Becomes

LEMMA GoesTo ==
    ASSUME MTypeOK, NEW w \in Workers, NEW label \in Labels, GoTo(w, label)
    PROVE  Goes(w, label)
<1>1. PICK s : s = [worker[w] EXCEPT !.at = label]
  OBVIOUS
<1>2. worker[w] \in WorkerStates
  BY DEF MTypeOK
<1>3. /\ s \in WorkerStates /\ s.at = label /\ s.items = worker[w].items
      /\ s.claims = worker[w].claims /\ s.picked = worker[w].picked
  BY <1>1, <1>2 DEF WorkerStates, Labels
<1>4. worker' = [worker EXCEPT ![w] = s]
  BY <1>1 DEF GoTo
<1> QED
  BY <1>3, <1>4, SetWorker DEF Goes

LEMMA IdleTyped ==
    /\ Idle \in WorkerStates /\ Idle.at = "idle"
    /\ Idle.items = {} /\ Idle.claims = {} /\ Idle.picked = {}
BY DEF Idle, WorkerStates

LEMMA AfterPhase1Typed ==
    ASSUME NEW w
    PROVE  /\ AfterPhase1(w) \in WorkerStates /\ AfterPhase1(w).at \in {"idle", "phase2"}
           /\ AfterPhase1(w).items = {} /\ AfterPhase1(w).claims = {}
           /\ AfterPhase1(w).picked = {}
BY DEF AfterPhase1, Idle, WorkerStates

LEMMA Finishes ==
    ASSUME MTypeOK, NEW w \in Workers, Finish(w)
    PROVE  Becomes(w, Idle)
BY IdleTyped, SetWorker DEF Finish

-----------------------------------------------------------------------------
(* Rows of the store.                                                       *)

LEMMA EnqueuedTyped ==
    ASSUME StoreOK
    PROVE  /\ Enqueued \in GlobalRows /\ Enqueued # None
           /\ Enqueued.status = "pending" \/ (global # None /\ Enqueued = global)
           /\ (global # None /\ global.status = "running") => Enqueued = global
           /\ Enqueued.status # "done"
<1>1. CASE global = None
  <2>1. PICK g : g = [status |-> "pending", token |-> None, leased |-> FALSE,
                      backoff |-> FALSE, recent |-> FALSE, failed |-> FALSE]
    OBVIOUS
  <2>2. g \in GlobalRows /\ g.status = "pending"
    BY <2>1 DEF GlobalRows
  <2>3. Enqueued = g /\ g # None
    BY <1>1, <2>1, <2>2, StoreAssumption DEF Enqueued
  <2> QED
    BY <1>1, <2>2, <2>3
<1>2. CASE global # None /\ global.status = "running"
  BY <1>2 DEF Enqueued, StoreOK
<1>3. CASE global # None /\ global.status # "running"
  <2>1. global \in GlobalRows
    BY <1>3 DEF StoreOK
  <2> QED
    BY <1>3, <2>1, StoreAssumption DEF Enqueued, GlobalRows
<1> QED
  BY <1>1, <1>2, <1>3

LEMMA UpsertTyped ==
    ASSUME StoreOK, NEW t \in Threads, NEW source \in Sources
    PROVE  /\ UpsertedOutput(t, source) \in OutputRows /\ UpsertedOutput(t, source) # None
           /\ UpsertedOutput(t, source).selected =
                IF output[t] = None THEN 0 ELSE output[t].selected
<1>1. CASE output[t] = None
  BY <1>1, StoreAssumption DEF UpsertedOutput, OutputRows
<1>2. CASE output[t] # None
  <2>1. output[t] \in OutputRows
    BY <1>2 DEF StoreOK
  <2> QED
    BY <1>2, <2>1, StoreAssumption DEF UpsertedOutput, OutputRows
<1> QED
  BY <1>1, <1>2

\* Rows of jobs that end.
LEMMA SucceededTyped ==
    ASSUME StoreOK, NEW t \in Threads, stage1[t] # None
    PROVE  /\ SucceededRow(t) \in Stage1Rows /\ SucceededRow(t) # None
           /\ SucceededRow(t).status = "done"
           /\ SucceededRow(t).last_success = stage1[t].input
           /\ SucceededRow(t).retry_remaining = stage1[t].retry_remaining
<1>1. stage1[t] \in Stage1Rows
  BY DEF StoreOK
<1> QED
  BY <1>1, StoreAssumption DEF SucceededRow, Stage1Rows

LEMMA FailedTyped ==
    ASSUME StoreOK, NEW t \in Threads, stage1[t] # None, stage1[t].retry_remaining > 0
    PROVE  /\ FailedRow(t) \in Stage1Rows /\ FailedRow(t) # None
           /\ FailedRow(t).status = "error"
           /\ FailedRow(t).last_success = stage1[t].last_success
           /\ FailedRow(t).retry_remaining = stage1[t].retry_remaining - 1
<1>1. stage1[t] \in Stage1Rows
  BY DEF StoreOK
<1>2. stage1[t].retry_remaining - 1 \in 0 .. DEFAULT_RETRY_REMAINING
  BY <1>1, StoreAssumption DEF Stage1Rows
<1> QED
  BY <1>1, <1>2, StoreAssumption DEF FailedRow, Stage1Rows

LEMMA ClaimedTyped ==
    ASSUME StoreOK, NEW w \in Workers, NEW t \in Threads, NEW source \in Sources
    PROVE  /\ ClaimedRow(w, t, source) \in Stage1Rows /\ ClaimedRow(w, t, source) # None
           /\ ClaimedRow(w, t, source).status = "running"
           /\ ClaimedRow(w, t, source).token = w
           /\ ClaimedRow(w, t, source).input = source
           /\ ClaimedRow(w, t, source).last_success =
                IF stage1[t] = None THEN 0 ELSE stage1[t].last_success
           /\ ClaimedRow(w, t, source).retry_remaining =
                IF stage1[t] = None \/ source > stage1[t].input
                THEN DEFAULT_RETRY_REMAINING ELSE stage1[t].retry_remaining
<1> DEFINE left == IF stage1[t] = None \/ source > stage1[t].input
                   THEN DEFAULT_RETRY_REMAINING ELSE stage1[t].retry_remaining
           last == IF stage1[t] = None THEN 0 ELSE stage1[t].last_success
           row == [status |-> "running", token |-> w, leased |-> TRUE, backoff |-> FALSE,
                   retry_remaining |-> left, input |-> source, last_success |-> last]
<1>1. left \in 0 .. DEFAULT_RETRY_REMAINING /\ last \in {0} \cup Sources
  BY StoreAssumption DEF StoreOK, Stage1Rows
<1>2. ClaimedRow(w, t, source) = row
  BY DEF ClaimedRow
<1> HIDE DEF left, last
<1>3. row \in Stage1Rows
  BY <1>1 DEF Stage1Rows
<1>4. /\ row.status = "running" /\ row.token = w /\ row.input = source
      /\ row.last_success = last /\ row.retry_remaining = left
  OBVIOUS
<1>5. row # None
  BY <1>3, StoreAssumption
<1> QED
  BY <1>2, <1>3, <1>4, <1>5 DEF left, last

-----------------------------------------------------------------------------
(* What a step does to the extraction jobs.                                 *)

Uncounted(t) == extracted'[t] = extracted[t] /\ failures'[t] = failures[t]

JobKept(t) == stage1'[t] = stage1[t] /\ Uncounted(t)

\* A lease or a delay ran out.
JobTimed(t) ==
    /\ stage1[t] # None /\ stage1'[t] # None
    /\ stage1'[t].status = stage1[t].status
    /\ stage1'[t].token = stage1[t].token
    /\ stage1'[t].retry_remaining = stage1[t].retry_remaining
    /\ stage1'[t].input = stage1[t].input
    /\ stage1'[t].last_success = stage1[t].last_success
    /\ Uncounted(t)

JobClaimed(w, t, s) ==
    /\ <<t, s>> \in worker[w].items
    /\ ~ UpToDate(t, s) /\ Claimable(t, s)
    /\ stage1'[t] = ClaimedRow(w, t, s)
    /\ extracted'[t] = extracted[t]
    /\ failures'[t] = IF stage1[t] = None \/ s > stage1[t].input THEN 0 ELSE failures[t]

JobSucceeded(w, t, s) ==
    /\ <<t, s>> \in worker[w].claims /\ Owns(w, t)
    /\ stage1'[t] = SucceededRow(t)
    /\ extracted'[t] = extracted[t] \cup {s} /\ failures'[t] = failures[t]

JobFailed(w, t) ==
    /\ Owns(w, t)
    /\ stage1'[t] = FailedRow(t)
    /\ extracted'[t] = extracted[t] /\ failures'[t] = failures[t] + 1

JobGone(t) == stage1'[t] = None /\ extracted'[t] = {} /\ failures'[t] = 0

JobFrom(t) ==
    \/ JobKept(t) \/ JobTimed(t) \/ JobGone(t)
    \/ \E w \in Workers, s \in Sources : JobClaimed(w, t, s) \/ JobSucceeded(w, t, s)
    \/ \E w \in Workers : JobFailed(w, t)

\* What a session has to try and what it has claimed.
Shrinks(w) ==
    worker'[w].items \subseteq worker[w].items /\ worker'[w].claims \subseteq worker[w].claims

Scans(w) ==
    /\ worker'[w].claims = {}
    /\ \A t \in Threads, s, r \in Sources :
           <<t, s>> \in worker'[w].items /\ <<t, r>> \in worker'[w].items => r = s

Claims(w, t, s) ==
    /\ <<t, s>> \in worker[w].items
    /\ worker'[w].items = worker[w].items \ {<<t, s>>}
    /\ worker'[w].claims = worker[w].claims \cup {<<t, s>>}
    /\ stage1'[t] = ClaimedRow(w, t, s)

Rests(w) == worker'[w].at = "idle" => worker'[w].claims = {} \/ worker'[w] = worker[w]

WorkerFrom(w) ==
    /\ Rests(w)
    /\ Shrinks(w) \/ Scans(w) \/ \E t \in Threads, s \in Sources : Claims(w, t, s)

ExtractShape == (\A t \in Threads : JobFrom(t)) /\ (\A w \in Workers : WorkerFrom(w))

LEMMA JobKeeps ==
    ASSUME MInv, MTypeOK', NEW t \in Threads, JobFrom(t)
    PROVE  /\ stage1'[t] # None /\ stage1'[t].last_success # 0
                => stage1'[t].last_success \in extracted'[t]
           /\ IF stage1'[t] = None THEN failures'[t] = 0 /\ extracted'[t] = {}
              ELSE /\ failures'[t] + stage1'[t].retry_remaining = DEFAULT_RETRY_REMAINING
                   /\ stage1'[t].status = "running" =>
                       /\ stage1'[t].retry_remaining > 0
                       /\ stage1'[t].input > stage1'[t].last_success
                   /\ \A s \in extracted'[t] : s <= stage1'[t].last_success
<1> DEFINE Good == /\ stage1'[t] # None /\ stage1'[t].last_success # 0
                        => stage1'[t].last_success \in extracted'[t]
                   /\ IF stage1'[t] = None THEN failures'[t] = 0 /\ extracted'[t] = {}
                      ELSE /\ failures'[t] + stage1'[t].retry_remaining = DEFAULT_RETRY_REMAINING
                           /\ stage1'[t].status = "running" =>
                               /\ stage1'[t].retry_remaining > 0
                               /\ stage1'[t].input > stage1'[t].last_success
                           /\ \A s \in extracted'[t] : s <= stage1'[t].last_success
<1> SUFFICES Good
  OBVIOUS
<1>s. StoreOK /\ extracted[t] \in SUBSET Sources /\ failures[t] \in Nat
  BY DEF MInv, MTypeOK
<1>i. /\ stage1[t] # None /\ stage1[t].last_success # 0 => stage1[t].last_success \in extracted[t]
      /\ IF stage1[t] = None THEN failures[t] = 0 /\ extracted[t] = {}
         ELSE /\ failures[t] + stage1[t].retry_remaining = DEFAULT_RETRY_REMAINING
              /\ stage1[t].status = "running" =>
                  stage1[t].retry_remaining > 0 /\ stage1[t].input > stage1[t].last_success
              /\ \A s \in extracted[t] : s <= stage1[t].last_success
  BY DEF MInv, WatermarkHonest, JobConsistent
<1>r. stage1[t] # None => /\ stage1[t].retry_remaining \in 0 .. DEFAULT_RETRY_REMAINING
                          /\ stage1[t].input \in Nat \ {0}
                          /\ stage1[t].last_success \in Nat
                          /\ stage1[t].status \in {"running", "done", "error"}
  BY <1>s DEF StoreOK, Stage1Rows, Sources
<1>1. CASE JobKept(t) \/ JobTimed(t)
  BY <1>1, <1>i DEF JobKept, JobTimed, Uncounted
<1>2. CASE JobGone(t)
  BY <1>2 DEF JobGone
<1>3. ASSUME NEW w \in Workers, NEW s \in Sources, JobClaimed(w, t, s) PROVE Good
  <2>1. PICK row : row = ClaimedRow(w, t, s)
    OBVIOUS
  <2>2. /\ row # None /\ row.status = "running" /\ row.input = s
        /\ row.last_success = IF stage1[t] = None THEN 0 ELSE stage1[t].last_success
        /\ row.retry_remaining = IF stage1[t] = None \/ s > stage1[t].input
                                 THEN DEFAULT_RETRY_REMAINING ELSE stage1[t].retry_remaining
    BY <1>s, <2>1, ClaimedTyped
  <2>3. stage1'[t] = row /\ extracted'[t] = extracted[t]
    BY <1>3, <2>1 DEF JobClaimed
  <2>4. s \in Nat \ {0} /\ DEFAULT_RETRY_REMAINING \in Nat \ {0}
    BY StoreAssumption DEF Sources
  <2>5. stage1[t] # None => s > stage1[t].last_success
    BY <1>3, <1>r, <2>4 DEF JobClaimed, UpToDate
  <2>6. CASE stage1[t] = None
    BY <1>3, <1>i, <2>2, <2>3, <2>4, <2>6 DEF JobClaimed
  <2>7. CASE stage1[t] # None /\ s > stage1[t].input
    BY <1>3, <1>i, <2>2, <2>3, <2>4, <2>5, <2>7 DEF JobClaimed
  <2>8. CASE stage1[t] # None /\ ~ (s > stage1[t].input)
    <3>1. stage1[t].retry_remaining > 0
      BY <1>3, <2>8 DEF JobClaimed, Claimable
    <3> QED
      BY <1>3, <1>i, <1>r, <2>2, <2>3, <2>4, <2>5, <2>8, <3>1 DEF JobClaimed
  <2> QED
    BY <2>6, <2>7, <2>8
<1>4. ASSUME NEW w \in Workers, NEW s \in Sources, JobSucceeded(w, t, s) PROVE Good
  <2>1. PICK row : row = SucceededRow(t)
    OBVIOUS
  <2>2. stage1[t] # None /\ stage1[t].status = "running"
    BY <1>4 DEF JobSucceeded, Owns
  <2>3. /\ row # None /\ row.status = "done" /\ row.last_success = stage1[t].input
        /\ row.retry_remaining = stage1[t].retry_remaining
    BY <1>s, <2>1, <2>2, SucceededTyped
  <2>4. stage1[t].input = s
    BY <1>4 DEF JobSucceeded, MInv, ClaimsConsistent
  <2>5. stage1'[t] = row /\ extracted'[t] = extracted[t] \cup {s} /\ failures'[t] = failures[t]
    BY <1>4, <2>1 DEF JobSucceeded
  <2>6. \A x \in extracted[t] : x \in Nat /\ x <= stage1[t].last_success
    BY <1>s, <1>i, <2>2 DEF Sources
  <2>7. \A x \in extracted'[t] : x <= s
    BY <1>i, <1>r, <2>2, <2>4, <2>5, <2>6
  <2> QED
    BY <1>i, <2>2, <2>3, <2>4, <2>5, <2>7
<1>5. ASSUME NEW w \in Workers, JobFailed(w, t) PROVE Good
  <2>1. PICK row : row = FailedRow(t)
    OBVIOUS
  <2>2. stage1[t] # None /\ stage1[t].status = "running" /\ stage1[t].retry_remaining > 0
    BY <1>5, <1>i DEF JobFailed, Owns
  <2>3. /\ row # None /\ row.status = "error" /\ row.last_success = stage1[t].last_success
        /\ row.retry_remaining = stage1[t].retry_remaining - 1
    BY <1>s, <2>1, <2>2, FailedTyped
  <2>4. stage1'[t] = row /\ extracted'[t] = extracted[t] /\ failures'[t] = failures[t] + 1
    BY <1>5, <2>1 DEF JobFailed
  <2> QED
    BY <1>s, <1>i, <1>r, <2>2, <2>3, <2>4, StoreAssumption
<1> HIDE DEF Good
<1> QED
  BY <1>1, <1>2, <1>3, <1>4, <1>5 DEF JobFrom

\* A session's claims keep to the versions it claimed.
LEMMA ClaimsKeep ==
    ASSUME MInv, MTypeOK', ExtractShape
    PROVE  ClaimsConsistent'
<1>s. StoreOK
  BY DEF MInv, MTypeOK
<1>1. ASSUME NEW w \in Workers, NEW t \in Threads, NEW s \in Sources,
             <<t, s>> \in worker[w].claims, Owns(w, t)'
      PROVE  stage1'[t].input = s
  <2>1. CASE JobKept(t) \/ JobTimed(t)
    BY <1>1, <2>1 DEF JobKept, JobTimed, Owns, MInv, ClaimsConsistent
  <2>2. CASE JobGone(t)
    BY <1>1, <2>2 DEF JobGone, Owns
  <2>3. ASSUME NEW v \in Workers, NEW r \in Sources, JobClaimed(v, t, r) PROVE FALSE
    <3>1. v = w
      BY <1>1, <1>s, <2>3, ClaimedTyped DEF JobClaimed, Owns
    <3> QED
      BY <1>1, <2>3, <3>1 DEF JobClaimed, MInv, ClaimsConsistent
  <2>4. ASSUME NEW v \in Workers, NEW r \in Sources, JobSucceeded(v, t, r) PROVE FALSE
    BY <1>1, <1>s, <2>4, SucceededTyped DEF JobSucceeded, Owns
  <2>5. ASSUME NEW v \in Workers, JobFailed(v, t) PROVE FALSE
    <3>1. stage1[t] # None /\ stage1[t].retry_remaining > 0
      BY <2>5 DEF JobFailed, Owns, MInv, JobConsistent
    <3> QED
      BY <1>1, <1>s, <2>5, <3>1, FailedTyped DEF JobFailed, Owns
  <2> QED
    BY <2>1, <2>2, <2>3, <2>4, <2>5 DEF ExtractShape, JobFrom
<1>2. ASSUME NEW w \in Workers, NEW t \in Threads, NEW s \in Sources,
             <<t, s>> \in worker'[w].claims, Owns(w, t)'
      PROVE  stage1'[t].input = s
  <2>1. CASE Shrinks(w)
    BY <1>1, <1>2, <2>1 DEF Shrinks
  <2>2. CASE Scans(w)
    BY <1>2, <2>2 DEF Scans
  <2>3. ASSUME NEW u \in Threads, NEW r \in Sources, Claims(w, u, r)
        PROVE  stage1'[t].input = s
    <3>1. CASE <<t, s>> \in worker[w].claims
      BY <1>1, <1>2, <3>1
    <3>2. CASE <<t, s>> \notin worker[w].claims
      <4>1. t = u /\ s = r
        BY <1>2, <2>3, <3>2 DEF Claims
      <4> QED
        BY <1>s, <2>3, <4>1, ClaimedTyped DEF Claims
    <3> QED
      BY <3>1, <3>2
  <2> QED
    BY <2>1, <2>2, <2>3 DEF ExtractShape, WorkerFrom
<1>3. ASSUME NEW w \in Workers, NEW t \in Threads, NEW s \in Sources, NEW r \in Sources
      PROVE  /\ <<t, s>> \in worker'[w].items /\ <<t, r>> \in worker'[w].items => r = s
             /\ <<t, s>> \in worker'[w].claims /\ <<t, r>> \in worker'[w].claims => r = s
             /\ ~ (<<t, s>> \in worker'[w].items /\ <<t, r>> \in worker'[w].claims)
  <2>0. /\ <<t, s>> \in worker[w].items /\ <<t, r>> \in worker[w].items => r = s
        /\ <<t, s>> \in worker[w].claims /\ <<t, r>> \in worker[w].claims => r = s
        /\ ~ (<<t, s>> \in worker[w].items /\ <<t, r>> \in worker[w].claims)
        /\ ~ (<<t, r>> \in worker[w].items /\ <<t, s>> \in worker[w].claims)
    BY DEF MInv, ClaimsConsistent
  <2>1. CASE Shrinks(w)
    BY <2>0, <2>1 DEF Shrinks
  <2>2. CASE Scans(w)
    BY <2>2 DEF Scans
  <2>3. ASSUME NEW u \in Threads, NEW q \in Sources, Claims(w, u, q)
        PROVE  /\ <<t, s>> \in worker'[w].items /\ <<t, r>> \in worker'[w].items => r = s
               /\ <<t, s>> \in worker'[w].claims /\ <<t, r>> \in worker'[w].claims => r = s
               /\ ~ (<<t, s>> \in worker'[w].items /\ <<t, r>> \in worker'[w].claims)
    BY <2>0, <2>3 DEF Claims
  <2> QED
    BY <2>1, <2>2, <2>3 DEF ExtractShape, WorkerFrom
<1>4. ASSUME NEW w \in Workers, worker'[w].at = "idle" PROVE worker'[w].claims = {}
  BY <1>4 DEF ExtractShape, WorkerFrom, Rests, MInv, ClaimsConsistent, At
<1> QED
  BY <1>2, <1>3, <1>4 DEF ClaimsConsistent, At

\* The jobs that run, in a step that claims none and in one that claims t.
LEMMA RunningShrinks ==
    ASSUME MInv, \A u \in Threads : RunsNow(u)' => RunsNow(u)
    PROVE  RunningBounded'
<1>1. {u \in Threads : RunsNow(u)}' \in SUBSET {u \in Threads : RunsNow(u)}
  OBVIOUS
<1>2. {u \in Threads : RunsNow(u)} \in SUBSET Threads
  OBVIOUS
<1>3. /\ IsFiniteSet({u \in Threads : RunsNow(u)})
      /\ Cardinality({u \in Threads : RunsNow(u)}) \in Nat
  BY <1>2, FS_Subset, FS_CardinalityType, StoreAssumption
<1>4. /\ Cardinality({u \in Threads : RunsNow(u)}') <= Cardinality({u \in Threads : RunsNow(u)})
      /\ Cardinality({u \in Threads : RunsNow(u)}') \in Nat
  BY <1>1, <1>3, FS_Subset, FS_CardinalityType
<1> QED
  BY <1>3, <1>4, StoreAssumption DEF MInv, RunningBounded

LEMMA RunningGrows ==
    ASSUME MInv, NEW t \in Threads, BelowLimit(t),
           \A u \in Threads : u # t /\ RunsNow(u)' => RunsNow(u)
    PROVE  RunningBounded'
<1> DEFINE Old == {u \in Threads \ {t} : RunsNow(u)}
           New == {u \in Threads : RunsNow(u)}'
<1>1. New \in SUBSET (Old \cup {t}) /\ Old \in SUBSET Threads
  OBVIOUS
<1>2. Cardinality(Old) < MaxRunning
  BY DEF BelowLimit
<1>n. t \notin Old
  OBVIOUS
<1> HIDE DEF Old, New
<1>3. IsFiniteSet(Old)
  BY <1>1, FS_Subset, StoreAssumption
<1>4. Cardinality(Old) \in Nat
  BY <1>3, FS_CardinalityType
<1>5. IsFiniteSet(Old \cup {t}) /\ Cardinality(Old \cup {t}) = Cardinality(Old) + 1
  BY <1>3, <1>n, FS_AddElement
<1>6. Cardinality(New) <= Cardinality(Old \cup {t}) /\ Cardinality(New) \in Nat
  BY <1>1, <1>5, FS_Subset, FS_CardinalityType
<1>7. Cardinality(New) <= MaxRunning
  BY <1>2, <1>4, <1>5, <1>6, StoreAssumption
<1> QED
  BY <1>7 DEF New, RunningBounded

\* What a step that leaves the jobs alone keeps.
LEMMA Unextracting ==
    ASSUME MInv, MTypeOK', UNCHANGED <<stage1, extracted, failures>>,
           \A w \in Workers : Shrinks(w) /\ Rests(w)
    PROVE  ExtractShape /\ RunningBounded'
<1>1. ExtractShape
  BY DEF ExtractShape, JobFrom, JobKept, Uncounted, WorkerFrom
<1>2. \A u \in Threads : RunsNow(u)' => RunsNow(u)
  BY DEF RunsNow
<1> QED
  BY <1>1, <1>2, RunningShrinks

-----------------------------------------------------------------------------
(* Every step of phase 1 has that shape.                                    *)

Extracts == MTypeOK' /\ ExtractShape /\ RunningBounded'

LEMMA BecomesShrunk ==
    ASSUME NEW w \in Workers, NEW s, Becomes(w, s),
           s.items \subseteq worker[w].items, s.claims \subseteq worker[w].claims,
           s.at = "idle" => s.claims = {}
    PROVE  \A v \in Workers : Shrinks(v) /\ Rests(v)
BY DEF Becomes, Shrinks, Rests

LEMMA StartExtracts ==
    ASSUME MInv, NEW w \in Workers, Start(w)
    PROVE  Extracts
<1>t. MTypeOK /\ StoreOK
  BY DEF MInv, MTypeOK
<1>1. CASE 1 \in Phases[w]
  <2>1. output' \in [Threads -> OutputRows \cup {None}]
    BY <1>t, <1>1 DEF Start, StoreOK
  <2>2. PICK its : its = {<<t, thread[t].updated_at>> :
                            t \in {u \in Threads : thread[u].memory_mode = "enabled"}}
    OBVIOUS
  <2>3. /\ its \in SUBSET Snapshots
        /\ \A t \in Threads, s, r \in Sources : <<t, s>> \in its /\ <<t, r>> \in its => r = s
    BY <1>t, <2>2 DEF StoreOK, ThreadRows, Snapshots
  <2>4. PICK st : st = [worker[w] EXCEPT !.at = "claim", !.items = its]
    OBVIOUS
  <2>5. worker[w] \in WorkerStates
    BY <1>t DEF MTypeOK
  <2>6. st \in WorkerStates /\ st.items = its /\ st.claims = {} /\ st.at = "claim"
    BY <1>1, <2>3, <2>4, <2>5 DEF WorkerStates, MInv, ClaimsConsistent, Start
  <2>7. worker' = [worker EXCEPT ![w] = st]
    BY <1>t, <1>1, <2>2, <2>4 DEF Start, MTypeOK
  <2>8. Becomes(w, st)
    BY <1>t, <2>6, <2>7, SetWorker
  <2>9. MTypeOK'
    BY <1>t, <1>1, <2>1, <2>8 DEF Start, MTypeOK, StoreOK, fs, ghosts, Becomes
  <2>10. \A v \in Workers : WorkerFrom(v)
    BY <2>3, <2>6, <2>8 DEF Becomes, WorkerFrom, Shrinks, Scans, Rests
  <2>11. \A t \in Threads : JobFrom(t)
    BY DEF Start, ghosts, JobFrom, JobKept, Uncounted
  <2>12. \A u \in Threads : RunsNow(u)' => RunsNow(u)
    BY DEF Start, RunsNow
  <2> QED
    BY <2>9, <2>10, <2>11, <2>12, RunningShrinks DEF Extracts, ExtractShape
<1>2. CASE 1 \notin Phases[w]
  <2>1. Becomes(w, AfterPhase1(w))
    BY <1>t, <1>2, AfterPhase1Typed, SetWorker DEF Start
  <2>2. MTypeOK'
    BY <1>t, <1>2, <2>1 DEF Start, MTypeOK, StoreOK, fs, ghosts, Becomes
  <2>3. \A v \in Workers : Shrinks(v) /\ Rests(v)
    BY <2>1, AfterPhase1Typed, BecomesShrunk
  <2> QED
    BY <2>2, <2>3, Unextracting DEF Start, ghosts, Extracts
<1> QED
  BY <1>1, <1>2

LEMMA TryClaimExtracts ==
    ASSUME MInv, NEW w \in Workers, NEW t \in Threads, NEW source \in Sources,
           TryClaim(w, t, source)
    PROVE  Extracts
<1>t. MTypeOK /\ StoreOK /\ worker[w] \in WorkerStates
  BY DEF MInv, MTypeOK
<1> DEFINE claimed == ~ UpToDate(t, source) /\ Claimable(t, source) /\ BelowLimit(t)
<1>1. PICK its : its = worker[w].items \ {<<t, source>>}
  OBVIOUS
<1>2. CASE claimed
  <2>1. PICK cls : cls = worker[w].claims \cup {<<t, source>>}
    OBVIOUS
  <2>2. its \in SUBSET Snapshots /\ cls \in SUBSET Snapshots
    BY <1>t, <1>1, <2>1 DEF WorkerStates, Snapshots
  <2>3. PICK st : st = [worker[w] EXCEPT !.items = its, !.claims = cls]
    OBVIOUS
  <2>4. st \in WorkerStates /\ st.items = its /\ st.claims = cls /\ st.at = "claim"
    BY <1>t, <2>2, <2>3 DEF WorkerStates, TryClaim, At
  <2>5. worker' = [worker EXCEPT ![w] = st]
    BY <1>t, <1>1, <1>2, <2>1, <2>3 DEF TryClaim, MTypeOK
  <2>6. Becomes(w, st)
    BY <1>t, <2>4, <2>5, SetWorker
  <2>7. PICK row : row = ClaimedRow(w, t, source)
    OBVIOUS
  <2>8. row \in Stage1Rows
    BY <1>t, <2>7, ClaimedTyped
  <2>9. stage1' = [stage1 EXCEPT ![t] = row]
    BY <1>2, <2>7 DEF TryClaim
  <2>10. /\ stage1' \in [Threads -> Stage1Rows \cup {None}] /\ stage1'[t] = row
         /\ \A u \in Threads : u # t => stage1'[u] = stage1[u]
    BY <1>t, <2>8, <2>9 DEF StoreOK
  <2>11. /\ failures' \in [Threads -> Nat]
         /\ failures'[t] = IF stage1[t] = None \/ source > stage1[t].input
                           THEN 0 ELSE failures[t]
         /\ \A u \in Threads : u # t => failures'[u] = failures[u]
    <3>1. CASE stage1[t] = None \/ source > stage1[t].input
      BY <1>t, <1>2, <3>1 DEF TryClaim, MTypeOK
    <3>2. CASE ~ (stage1[t] = None \/ source > stage1[t].input)
      BY <1>t, <1>2, <3>2 DEF TryClaim, MTypeOK
    <3> QED
      BY <3>1, <3>2
  <2>12. MTypeOK'
    BY <1>t, <2>6, <2>10, <2>11 DEF TryClaim, MTypeOK, StoreOK, fs, Becomes
  <2>13. JobClaimed(w, t, source)
    BY <1>2, <2>7, <2>10, <2>11 DEF TryClaim, JobClaimed
  <2>14. \A u \in Threads : JobFrom(u)
    BY <2>10, <2>11, <2>13 DEF TryClaim, JobFrom, JobKept, Uncounted
  <2>15. Claims(w, t, source) /\ Rests(w)
    BY <1>1, <2>1, <2>4, <2>6, <2>7, <2>10 DEF TryClaim, Claims, Becomes, Rests
  <2>16. \A v \in Workers : WorkerFrom(v)
    BY <2>6, <2>15 DEF Becomes, WorkerFrom, Shrinks, Rests
  <2>17. \A u \in Threads : u # t /\ RunsNow(u)' => RunsNow(u)
    BY <2>10 DEF RunsNow
  <2> QED
    BY <1>2, <2>12, <2>14, <2>16, <2>17, RunningGrows DEF Extracts, ExtractShape
<1>3. CASE ~ claimed
  <2>1. PICK st : st = [worker[w] EXCEPT !.items = its]
    OBVIOUS
  <2>2. its \in SUBSET Snapshots
    BY <1>t, <1>1 DEF WorkerStates
  <2>3. /\ st \in WorkerStates /\ st.items = its /\ st.claims = worker[w].claims
        /\ st.at = "claim"
    BY <1>t, <2>1, <2>2 DEF WorkerStates, TryClaim, At
  <2>4. worker' = [worker EXCEPT ![w] = st]
    BY <1>t, <1>1, <1>3, <2>1 DEF TryClaim, MTypeOK, WorkerStates
  <2>5. Becomes(w, st)
    BY <1>t, <2>3, <2>4, SetWorker
  <2>6. UNCHANGED <<stage1, failures>>
    BY <1>3 DEF TryClaim
  <2>7. MTypeOK'
    BY <1>t, <2>5, <2>6 DEF TryClaim, MTypeOK, StoreOK, fs, Becomes
  <2>8. \A v \in Workers : Shrinks(v) /\ Rests(v)
    BY <1>1, <2>3, <2>5, BecomesShrunk
  <2> QED
    BY <2>6, <2>7, <2>8, Unextracting DEF TryClaim, Extracts
<1> QED
  BY <1>2, <1>3

LEMMA ClaimedExtracts ==
    ASSUME MInv, NEW w \in Workers, Claimed(w)
    PROVE  Extracts
<1>t. MTypeOK /\ StoreOK /\ worker[w] \in WorkerStates
  BY DEF MInv, MTypeOK
<1>1. PICK st : st = IF worker[w].claims = {} THEN AfterPhase1(w)
                     ELSE [worker[w] EXCEPT !.at = "extract", !.items = {}]
  OBVIOUS
<1>2. /\ st \in WorkerStates /\ st.items = {} /\ st.claims = worker[w].claims
      /\ st.at = "idle" => st.claims = {}
  BY <1>t, <1>1, AfterPhase1Typed DEF WorkerStates
<1>3. worker' = [worker EXCEPT ![w] = st]
  BY <1>t, <1>1 DEF Claimed, MTypeOK
<1>4. Becomes(w, st)
  BY <1>t, <1>2, <1>3, SetWorker
<1>5. MTypeOK'
  BY <1>t, <1>4 DEF Claimed, MTypeOK, StoreOK, store, fs, ghosts, Becomes
<1>6. \A v \in Workers : Shrinks(v) /\ Rests(v)
  BY <1>2, <1>4, BecomesShrunk
<1> QED
  BY <1>5, <1>6, Unextracting DEF Claimed, Extracts, store, ghosts

\* The session after one of its extractions.
LEMMA AfterExtraction ==
    ASSUME MInv, NEW w \in Workers, NEW t \in Threads, NEW source \in Sources,
           Extracting(w, t, source), Extracted(w, t, source)
    PROVE  /\ worker' \in [Workers -> WorkerStates]
           /\ \A v \in Workers : Shrinks(v) /\ Rests(v)
<1>t. MTypeOK /\ worker[w] \in WorkerStates
  BY DEF MInv, MTypeOK
<1>0. PICK cls : cls = worker[w].claims \ {<<t, source>>}
  OBVIOUS
<1>1. PICK st : st = IF cls = {} THEN AfterPhase1(w)
                     ELSE [worker[w] EXCEPT !.claims = cls]
  OBVIOUS
<1>2. worker' = [worker EXCEPT ![w] = st]
  BY <1>0, <1>1 DEF Extracted
<1>3. cls \in SUBSET Snapshots
  BY <1>t, <1>0 DEF WorkerStates
<1>4. /\ st \in WorkerStates /\ st.items \subseteq worker[w].items
      /\ st.claims \subseteq worker[w].claims
      /\ st.at = "idle" => st.claims = {}
  <2>1. CASE cls = {}
    BY <1>1, <2>1, AfterPhase1Typed
  <2>2. CASE cls # {}
    <3>1. st = [worker[w] EXCEPT !.claims = cls] /\ worker[w].at = "extract"
      BY <1>1, <2>2 DEF Extracting, At
    <3>2. /\ st \in WorkerStates /\ st.items = worker[w].items
          /\ st.claims = cls /\ st.at = "extract"
      BY <1>t, <1>3, <3>1 DEF WorkerStates
    <3> QED
      BY <1>0, <3>2
  <2> QED
    BY <2>1, <2>2
<1>5. Becomes(w, st)
  BY <1>t, <1>2, <1>4, SetWorker
<1>6. \A v \in Workers : Shrinks(v) /\ Rests(v)
  BY <1>4, <1>5, BecomesShrunk
<1> QED
  BY <1>5, <1>6 DEF Becomes

LEMMA SucceedsExtracts ==
    ASSUME MInv, NEW w \in Workers, NEW t \in Threads, NEW source \in Sources,
           Succeeded(w, t, source) \/ SucceededNoOutput(w, t, source)
    PROVE  Extracts
<1>t. MTypeOK /\ StoreOK
  BY DEF MInv, MTypeOK
<1>1. /\ worker' \in [Workers -> WorkerStates]
      /\ \A v \in Workers : Shrinks(v) /\ Rests(v)
  BY AfterExtraction DEF Succeeded, SucceededNoOutput
<1>2. /\ UNCHANGED <<thread, polluting, fs, faults, clearing, disturbed, failures>>
      /\ Extracting(w, t, source)
  BY DEF Succeeded, SucceededNoOutput
<1>3. CASE Owns(w, t)
  <2>1. PICK row : row = SucceededRow(t)
    OBVIOUS
  <2>2. row \in Stage1Rows /\ row.status = "done" /\ row # None
    BY <1>t, <1>3, <2>1, SucceededTyped DEF Owns
  <2>3. PICK out : out = UpsertedOutput(t, source)
    OBVIOUS
  <2>4. out \in OutputRows
    BY <1>t, <2>3, UpsertTyped
  <2>5. /\ output' \in [Threads -> OutputRows \cup {None}]
        /\ global' \in GlobalRows \cup {None}
    <3>1. output' = [output EXCEPT ![t] = out] \/ output' = [output EXCEPT ![t] = None]
      BY <1>3, <2>3 DEF Succeeded, SucceededNoOutput
    <3>2. global' = Enqueued \/ global' = global
      BY <1>3 DEF Succeeded, SucceededNoOutput
    <3>3. global' \in GlobalRows \cup {None}
      BY <1>t, <3>2, EnqueuedTyped DEF StoreOK
    <3> QED
      BY <1>t, <2>4, <3>1, <3>3 DEF StoreOK
  <2>6. stage1' = [stage1 EXCEPT ![t] = row]
    BY <1>3, <2>1 DEF Succeeded, SucceededNoOutput
  <2>7. /\ stage1' \in [Threads -> Stage1Rows \cup {None}] /\ stage1'[t] = row
        /\ \A u \in Threads : u # t => stage1'[u] = stage1[u]
    BY <1>t, <2>2, <2>6 DEF StoreOK
  <2>8. /\ extracted' \in [Threads -> SUBSET Sources]
        /\ extracted'[t] = extracted[t] \cup {source}
        /\ \A u \in Threads : u # t => extracted'[u] = extracted[u]
    BY <1>t, <1>3 DEF Succeeded, SucceededNoOutput, MTypeOK
  <2>9. MTypeOK'
    BY <1>t, <1>1, <1>2, <2>5, <2>7, <2>8 DEF MTypeOK, StoreOK, fs
  <2>10. JobSucceeded(w, t, source)
    BY <1>2, <1>3, <2>1, <2>7, <2>8 DEF JobSucceeded, Extracting
  <2>11. \A u \in Threads : JobFrom(u)
    BY <1>2, <2>7, <2>8, <2>10 DEF JobFrom, JobKept, Uncounted
  <2>12. \A u \in Threads : RunsNow(u)' => RunsNow(u)
    BY <2>2, <2>7 DEF RunsNow
  <2> QED
    BY <1>1, <2>9, <2>11, <2>12, RunningShrinks DEF Extracts, ExtractShape, WorkerFrom
<1>4. CASE ~ Owns(w, t)
  <2>1. UNCHANGED <<stage1, output, global, extracted>>
    BY <1>4 DEF Succeeded, SucceededNoOutput
  <2>2. MTypeOK'
    BY <1>t, <1>1, <1>2, <2>1 DEF MTypeOK, StoreOK, fs
  <2> QED
    BY <1>1, <1>2, <2>1, <2>2, Unextracting DEF Extracts
<1> QED
  BY <1>3, <1>4

LEMMA FailsExtracts ==
    ASSUME MInv, NEW w \in Workers, NEW t \in Threads, NEW source \in Sources,
           ExtractionFailed(w, t, source)
    PROVE  Extracts
<1>t. MTypeOK /\ StoreOK
  BY DEF MInv, MTypeOK
<1>1. /\ worker' \in [Workers -> WorkerStates]
      /\ \A v \in Workers : Shrinks(v) /\ Rests(v)
  BY AfterExtraction DEF ExtractionFailed
<1>2. UNCHANGED <<thread, output, global, polluting, fs, faults, clearing, disturbed, extracted>>
  BY DEF ExtractionFailed
<1>3. CASE Owns(w, t)
  <2>1. PICK row : row = FailedRow(t)
    OBVIOUS
  <2>2. stage1[t] # None /\ stage1[t].retry_remaining > 0
    BY <1>3 DEF Owns, MInv, JobConsistent
  <2>3. row \in Stage1Rows /\ row.status = "error" /\ row # None
    BY <1>t, <2>1, <2>2, FailedTyped
  <2>4. stage1' = [stage1 EXCEPT ![t] = row]
    BY <1>3, <2>1 DEF ExtractionFailed
  <2>5. /\ stage1' \in [Threads -> Stage1Rows \cup {None}] /\ stage1'[t] = row
        /\ \A u \in Threads : u # t => stage1'[u] = stage1[u]
    BY <1>t, <2>3, <2>4 DEF StoreOK
  <2>6. /\ failures' \in [Threads -> Nat] /\ failures'[t] = failures[t] + 1
        /\ \A u \in Threads : u # t => failures'[u] = failures[u]
    BY <1>t, <1>3 DEF ExtractionFailed, MTypeOK
  <2>7. MTypeOK'
    BY <1>t, <1>1, <1>2, <2>5, <2>6 DEF MTypeOK, StoreOK, fs
  <2>8. JobFailed(w, t)
    BY <1>2, <1>3, <2>1, <2>5, <2>6 DEF JobFailed
  <2>9. \A u \in Threads : JobFrom(u)
    BY <1>2, <2>5, <2>6, <2>8 DEF JobFrom, JobKept, Uncounted
  <2>10. \A u \in Threads : RunsNow(u)' => RunsNow(u)
    BY <2>3, <2>5 DEF RunsNow
  <2> QED
    BY <1>1, <2>7, <2>9, <2>10, RunningShrinks DEF Extracts, ExtractShape, WorkerFrom
<1>4. CASE ~ Owns(w, t)
  <2>1. UNCHANGED <<stage1, failures>>
    BY <1>4 DEF ExtractionFailed
  <2>2. MTypeOK'
    BY <1>t, <1>1, <1>2, <2>1 DEF MTypeOK, StoreOK, fs
  <2> QED
    BY <1>1, <1>2, <2>1, <2>2, Unextracting DEF Extracts
<1> QED
  BY <1>3, <1>4

-----------------------------------------------------------------------------
(* Every step of phase 2, and every fault.                                  *)

\* The session selects snapshots and goes on.
Picks(w, label, snapshots) ==
    \E s \in WorkerStates :
        /\ Becomes(w, s) /\ s.at = label /\ s.items = worker[w].items
        /\ s.claims = worker[w].claims /\ s.picked = snapshots

Unmoved == UNCHANGED worker

\* A session moves in a way that leaves its claims alone or drops them.
MovesOn(w) ==
    \/ Unmoved \/ Becomes(w, Idle)
    \/ \E label \in Labels \ {"idle"} : Goes(w, label)
    \/ \E label \in Labels \ {"idle"}, snapshots \in SUBSET Snapshots :
           Picks(w, label, snapshots)

LEMMA MovesOnKeeps ==
    ASSUME MInv, NEW w \in Workers, MovesOn(w)
    PROVE  worker' \in [Workers -> WorkerStates] /\ \A v \in Workers : Shrinks(v) /\ Rests(v)
<1>1. CASE Unmoved
  BY <1>1 DEF MInv, MTypeOK, Unmoved, Shrinks, Rests
<1>2. CASE Becomes(w, Idle)
  <2>1. \A v \in Workers : Shrinks(v) /\ Rests(v)
    BY <1>2, IdleTyped, BecomesShrunk
  <2> QED
    BY <1>2, <2>1 DEF Becomes
<1>3. ASSUME NEW label \in Labels \ {"idle"}, Goes(w, label)
      PROVE  worker' \in [Workers -> WorkerStates] /\ \A v \in Workers : Shrinks(v) /\ Rests(v)
  <2>1. PICK s : /\ Becomes(w, s) /\ s.at = label /\ s.items = worker[w].items
                 /\ s.claims = worker[w].claims
    BY <1>3 DEF Goes
  <2>2. \A v \in Workers : Shrinks(v) /\ Rests(v)
    BY <2>1, BecomesShrunk
  <2> QED
    BY <2>1, <2>2 DEF Becomes
<1>4. ASSUME NEW label \in Labels \ {"idle"}, NEW snapshots \in SUBSET Snapshots,
             Picks(w, label, snapshots)
      PROVE  worker' \in [Workers -> WorkerStates] /\ \A v \in Workers : Shrinks(v) /\ Rests(v)
  <2>1. PICK s : /\ Becomes(w, s) /\ s.at = label /\ s.items = worker[w].items
                 /\ s.claims = worker[w].claims
    BY <1>4 DEF Picks
  <2>2. \A v \in Workers : Shrinks(v) /\ Rests(v)
    BY <2>1, BecomesShrunk
  <2> QED
    BY <2>1, <2>2 DEF Becomes
<1> QED
  BY <1>1, <1>2, <1>3, <1>4 DEF MovesOn

\* The rest of the state, apart from the jobs and the sessions.
RestTyped ==
    /\ output' \in [Threads -> OutputRows \cup {None}]
    /\ global' \in GlobalRows \cup {None}
    /\ disk' \in Trees
    /\ baseline' \in Trees \cup {None}
    /\ lingering' \in SUBSET (Workers \X SUBSET Snapshots)
    /\ faults' \in 0 .. MaxFaults
    /\ clearing' \in BOOLEAN
    /\ disturbed' \in BOOLEAN

LEMMA MovingExtracts ==
    ASSUME MInv, NEW w \in Workers, MovesOn(w), RestTyped,
           UNCHANGED <<thread, stage1, polluting, ghosts>>
    PROVE  Extracts
<1>1. worker' \in [Workers -> WorkerStates] /\ \A v \in Workers : Shrinks(v) /\ Rests(v)
  BY MovesOnKeeps
<1>2. MTypeOK'
  BY <1>1 DEF MInv, MTypeOK, StoreOK, RestTyped, ghosts
<1> QED
  BY <1>1, <1>2, Unextracting DEF Extracts, ghosts

\* Rows of the global job.
LEMMA ClaimedGlobalTyped ==
    ASSUME NEW w \in Workers
    PROVE  /\ ClaimedGlobal(w) \in GlobalRows /\ ClaimedGlobal(w) # None
           /\ ClaimedGlobal(w).status = "running" /\ ClaimedGlobal(w).token = w
           /\ ClaimedGlobal(w).leased
<1>1. ClaimedGlobal(w) \in GlobalRows
  BY DEF ClaimedGlobal, GlobalRows
<1>2. /\ ClaimedGlobal(w).status = "running" /\ ClaimedGlobal(w).token = w
      /\ ClaimedGlobal(w).leased
  BY DEF ClaimedGlobal
<1> QED
  BY <1>1, <1>2, StoreAssumption

LEMMA GlobalEnds ==
    ASSUME StoreOK, global # None
    PROVE  /\ SucceededGlobal \in GlobalRows /\ FailedGlobal \in GlobalRows
           /\ FailedGlobal # None /\ FailedGlobal.status = "error"
<1>1. global \in GlobalRows
  BY DEF StoreOK
<1>2. SucceededGlobal \in GlobalRows
  BY <1>1 DEF SucceededGlobal, GlobalRows
<1>3. FailedGlobal \in GlobalRows /\ FailedGlobal.status = "error"
  BY <1>1 DEF FailedGlobal, GlobalRows
<1> QED
  BY <1>2, <1>3, StoreAssumption

LEMMA GlobalLeased ==
    ASSUME StoreOK, global # None, NEW b \in BOOLEAN, NEW g, g = [global EXCEPT !.leased = b]
    PROVE  /\ g \in GlobalRows /\ g # None /\ g.status = global.status
           /\ g.token = global.token /\ g.leased = b
<1>1. global \in GlobalRows
  BY DEF StoreOK
<1>2. /\ g \in GlobalRows /\ g.status = global.status
      /\ g.token = global.token /\ g.leased = b
  BY <1>1 DEF GlobalRows
<1> QED
  BY <1>2, StoreAssumption

LEMMA DiskTyped ==
    ASSUME MTypeOK, NEW w \in Workers
    PROVE  /\ [disk EXCEPT !.memory = worker[w].picked] \in Trees
           /\ [disk EXCEPT !.inputs = worker[w].picked] \in Trees
<1>1. worker[w].picked \in SUBSET Snapshots /\ disk \in Trees
  BY DEF MTypeOK, WorkerStates
<1> QED
  BY <1>1 DEF Trees

LEMMA BetweenTyped ==
    ASSUME NEW S, NEW old \in SUBSET S, NEW new \in SUBSET S, NEW now \in Between(old, new)
    PROVE  now \in SUBSET S
BY DEF Between

\* What an agent writes, and what a session leaves.
LEMMA WrittenTyped ==
    ASSUME MTypeOK, NEW picked \in SUBSET Snapshots, NEW tree \in Written(picked)
    PROVE  tree \in Trees /\ tree.inputs = disk.inputs
<1>1. PICK now \in Between(disk.memory, picked) : tree = [disk EXCEPT !.memory = now]
  BY DEF Written
<1>m. disk.memory \in SUBSET Snapshots
  BY DEF MTypeOK, Trees
<1>2. now \in SUBSET Snapshots
  BY <1>1, <1>m, BetweenTyped
<1> QED
  BY <1>1, <1>2 DEF MTypeOK, Trees

LEMMA LeftTyped ==
    ASSUME MTypeOK, NEW w \in Workers, NEW tree \in Left(w)
    PROVE  /\ tree \in Trees
           /\ ~ At(w, "agent") /\ ~ At(w, "sync") => tree = disk
<1>1. worker[w].picked \in SUBSET Snapshots /\ disk \in Trees
  BY DEF MTypeOK, WorkerStates
<1>2. CASE At(w, "agent")
  <2>1. tree \in Written(worker[w].picked)
    BY <1>2 DEF Left
  <2> QED
    BY <1>1, <1>2, <2>1, WrittenTyped
<1>3. CASE ~ At(w, "agent") /\ At(w, "sync")
  <2>1. CASE tree = disk
    BY <1>1, <1>3, <2>1
  <2>2. CASE tree # disk
    <3>1. PICK now \in SUBSET Snapshots : tree = [disk EXCEPT !.inputs = now]
      <4>1. CASE disk.inputs # None
        <5>1. PICK now \in Between(disk.inputs, worker[w].picked) :
                  tree = [disk EXCEPT !.inputs = now]
          BY <1>3, <4>1 DEF Left
        <5>2. disk.inputs \in SUBSET Snapshots
          BY <1>1, <4>1 DEF Trees
        <5>3. now \in SUBSET Snapshots
          BY <1>1, <5>1, <5>2, BetweenTyped
        <5> QED
          BY <5>1, <5>3
      <4>2. CASE disk.inputs = None
        <5>1. PICK now \in SUBSET worker[w].picked : tree = [disk EXCEPT !.inputs = now]
          BY <1>3, <2>2, <4>2 DEF Left
        <5> QED
          BY <1>1, <5>1
      <4> QED
        BY <4>1, <4>2
    <3> QED
      BY <1>1, <1>3, <3>1 DEF Trees
  <2> QED
    BY <2>1, <2>2
<1>4. CASE ~ At(w, "agent") /\ ~ At(w, "sync")
  BY <1>1, <1>4 DEF Left
<1> QED
  BY <1>2, <1>3, <1>4

\* A session that gives its agent up.
LEMMA GivesUp ==
    ASSUME MTypeOK, NEW w \in Workers, GiveUp(w)
    PROVE  /\ MovesOn(w) /\ UNCHANGED <<disk, baseline>>
           /\ lingering' \in SUBSET (Workers \X SUBSET Snapshots)
<1>1. worker[w].picked \in SUBSET Snapshots
  BY DEF MTypeOK, WorkerStates
<1>2. MovesOn(w)
  BY GoesTo DEF GiveUp, MovesOn, Labels
<1> QED
  BY <1>1, <1>2 DEF GiveUp, MTypeOK

\* Where the phase-2 steps take their session, and what they select.
LEMMA SelectedTyped ==
    ASSUME MTypeOK
    PROVE  {<<t, output[t].source>> : t \in {u \in Threads : Eligible(u)}} \in SUBSET Snapshots
BY DEF MTypeOK, StoreOK, Eligible, OutputRows, Snapshots

LEMMA SelectsKeys ==
    ASSUME MTypeOK, NEW w \in Workers, SelectKeys(w)
    PROVE  \E snapshots \in SUBSET Snapshots : Picks(w, "rows", snapshots)
<1>1. PICK snapshots \in SUBSET Snapshots :
          snapshots = {<<t, output[t].source>> : t \in {u \in Threads : Eligible(u)}}
  BY SelectedTyped
<1>2. PICK s : s = [worker[w] EXCEPT !.at = "rows", !.picked = snapshots]
  OBVIOUS
<1>3. worker[w] \in WorkerStates
  BY DEF MTypeOK
<1>4. /\ s \in WorkerStates /\ s.at = "rows" /\ s.items = worker[w].items
      /\ s.claims = worker[w].claims /\ s.picked = snapshots
  BY <1>2, <1>3 DEF WorkerStates
<1>5. worker' = [worker EXCEPT ![w] = s]
  BY <1>1, <1>2 DEF SelectKeys, MTypeOK
<1> QED
  BY <1>4, <1>5, SetWorker DEF Picks

LEMMA LoadsRows ==
    ASSUME MTypeOK, NEW w \in Workers, LoadRows(w)
    PROVE  \E snapshots \in SUBSET Snapshots : Picks(w, "sync", snapshots)
<1>3. worker[w] \in WorkerStates
  BY DEF MTypeOK
<1>1. PICK snapshots \in SUBSET Snapshots : snapshots = StillThere(worker[w].picked)
  BY <1>3 DEF StillThere, WorkerStates
<1>2. PICK s : s = [worker[w] EXCEPT !.at = "sync", !.picked = snapshots]
  OBVIOUS
<1>4. /\ s \in WorkerStates /\ s.at = "sync" /\ s.items = worker[w].items
      /\ s.claims = worker[w].claims /\ s.picked = snapshots
  BY <1>2, <1>3 DEF WorkerStates
<1>5. worker' = [worker EXCEPT ![w] = s]
  BY <1>1, <1>2 DEF LoadRows, MTypeOK
<1> QED
  BY <1>4, <1>5, SetWorker DEF Picks

LEMMA Phase2Extracts ==
    ASSUME MInv, NEW w \in Workers, Phase2Step(w) \/ Heartbeat(w)
    PROVE  Extracts
<1>t. MTypeOK /\ StoreOK
  BY DEF MInv, MTypeOK
<1>r. /\ output \in [Threads -> OutputRows \cup {None}]
      /\ global \in GlobalRows \cup {None}
      /\ disk \in Trees /\ baseline \in Trees \cup {None}
      /\ lingering \in SUBSET (Workers \X SUBSET Snapshots)
      /\ faults \in 0 .. MaxFaults /\ clearing \in BOOLEAN /\ disturbed \in BOOLEAN
  BY <1>t DEF MTypeOK, StoreOK
<1>1. CASE ClaimGlobal(w)
  <2>1. MovesOn(w)
    BY <1>t, <1>1, GoesTo, Finishes DEF ClaimGlobal, MovesOn, Labels
  <2>2. global' \in GlobalRows \cup {None} /\ disturbed' \in BOOLEAN
    BY <1>r, <1>1, ClaimedGlobalTyped DEF ClaimGlobal
  <2> QED
    BY <1>r, <1>1, <2>1, <2>2, MovingExtracts DEF ClaimGlobal, RestTyped, fs
<1>2. CASE Prepare(w)
  <2>1. MovesOn(w)
    BY <1>t, <1>2, GoesTo DEF Prepare, MovesOn, Labels
  <2>2. baseline' \in Trees \cup {None}
    BY <1>r, <1>2 DEF Prepare
  <2> QED
    BY <1>r, <1>2, <2>1, <2>2, MovingExtracts DEF Prepare, RestTyped, Phase2Rest, store
<1>3. CASE SelectKeys(w)
  <2>1. MovesOn(w)
    BY <1>t, <1>3, SelectsKeys DEF MovesOn, Labels
  <2> QED
    BY <1>r, <1>3, <2>1, MovingExtracts DEF SelectKeys, RestTyped, Phase2Rest, store, fs
<1>4. CASE LoadRows(w)
  <2>1. MovesOn(w)
    BY <1>t, <1>4, LoadsRows DEF MovesOn, Labels
  <2> QED
    BY <1>r, <1>4, <2>1, MovingExtracts DEF LoadRows, RestTyped, Phase2Rest, store, fs
<1>5. CASE SyncInputs(w)
  <2>1. MovesOn(w)
    BY <1>t, <1>5, GoesTo DEF SyncInputs, MovesOn, Labels
  <2>2. disk' \in Trees
    BY <1>t, <1>5, DiskTyped DEF SyncInputs
  <2> QED
    BY <1>r, <1>5, <2>1, <2>2, MovingExtracts DEF SyncInputs, RestTyped, Phase2Rest, store
<1>6. CASE Diff(w)
  <2>1. PICK label \in {"failed", "agent", "succeed"} : GoTo(w, label)
    BY <1>6 DEF Diff
  <2>2. MovesOn(w)
    BY <1>t, <2>1, GoesTo DEF MovesOn, Labels
  <2> QED
    BY <1>r, <1>6, <2>2, MovingExtracts DEF Diff, RestTyped, Phase2Rest, store, fs
<1>7. CASE AgentCompleted(w)
  <2>1. MovesOn(w)
    BY <1>t, <1>7, GoesTo DEF AgentCompleted, MovesOn, Labels
  <2>2. disk' \in Trees
    BY <1>t, <1>7, DiskTyped DEF AgentCompleted
  <2> QED
    BY <1>r, <1>7, <2>1, <2>2, MovingExtracts DEF AgentCompleted, RestTyped, Phase2Rest, store
<1>8. CASE AgentErrored(w)
  <2>1. MovesOn(w)
    BY <1>t, <1>8, GoesTo DEF AgentErrored, MovesOn, Labels
  <2>2. disk' \in Trees
    BY <1>t, <1>8, LeftTyped DEF AgentErrored
  <2> QED
    BY <1>r, <1>8, <2>1, <2>2, MovingExtracts DEF AgentErrored, RestTyped, Phase2Rest, store
<1>9. CASE Heartbeat(w)
  <2>1. GiveUp(w) \/ UNCHANGED <<worker, fs>>
    BY <1>9 DEF Heartbeat
  <2>2. /\ MovesOn(w) /\ UNCHANGED <<disk, baseline>>
        /\ lingering' \in SUBSET (Workers \X SUBSET Snapshots)
    BY <1>t, <1>r, <2>1, GivesUp DEF MovesOn, Unmoved, fs
  <2>3. global' \in GlobalRows \cup {None}
    BY <1>t, <1>r, <1>9, GlobalLeased DEF Heartbeat, OwnsGlobal
  <2> QED
    BY <1>r, <1>9, <2>2, <2>3, MovingExtracts DEF Heartbeat, RestTyped
<1>10. CASE Confirm(w)
  <2>1. MovesOn(w)
    BY <1>t, <1>10, GoesTo, Finishes DEF Confirm, MovesOn, Labels
  <2>2. global' \in GlobalRows \cup {None}
    BY <1>t, <1>r, <1>10, GlobalLeased DEF Confirm, OwnsGlobal
  <2> QED
    BY <1>r, <1>10, <2>1, <2>2, MovingExtracts DEF Confirm, RestTyped, fs
<1>11. CASE ResetBaseline(w)
  <2>1. MovesOn(w)
    BY <1>t, <1>11, GoesTo DEF ResetBaseline, MovesOn, Labels
  <2> QED
    BY <1>r, <1>11, <2>1, MovingExtracts DEF ResetBaseline, RestTyped, Phase2Rest, store
<1>12. CASE SucceedGlobal(w)
  <2>1. MovesOn(w)
    BY <1>t, <1>12, Finishes DEF SucceedGlobal, MovesOn
  <2>2. global' \in GlobalRows \cup {None}
    BY <1>t, <1>r, <1>12, GlobalEnds DEF SucceedGlobal, OwnsGlobal
  <2>3. Selecting(worker[w].picked) \in [Threads -> OutputRows \cup {None}]
    BY <1>r DEF Selecting, OutputRows
  <2>4. output' \in [Threads -> OutputRows \cup {None}]
    BY <1>r, <1>12, <2>3 DEF SucceedGlobal
  <2> QED
    BY <1>r, <1>12, <2>1, <2>2, <2>4, MovingExtracts DEF SucceedGlobal, RestTyped, fs
<1>13. CASE FailGlobal(w)
  <2>1. MovesOn(w)
    BY <1>t, <1>13, Finishes DEF FailGlobal, MovesOn
  <2>2. global' \in GlobalRows \cup {None}
    BY <1>t, <1>r, <1>13, GlobalEnds DEF FailGlobal, OwnsGlobal
  <2> QED
    BY <1>r, <1>13, <2>1, <2>2, MovingExtracts DEF FailGlobal, RestTyped, fs
<1> QED
  BY <1>1, <1>2, <1>3, <1>4, <1>5, <1>6, <1>7, <1>8, <1>9, <1>10, <1>11, <1>12, <1>13
  DEF Phase2Step

LEMMA FaultExtracts ==
    ASSUME MInv, NEW w \in Workers,
           HeartbeatFails(w) \/ Die(w) \/ StepFails(w) \/ DieInReset(w)
    PROVE  Extracts
<1>t. MTypeOK
  BY DEF MInv
<1>1. MovesOn(w)
  BY <1>t, GoesTo, Finishes, GivesUp
  DEF HeartbeatFails, Die, StepFails, DieInReset, MovesOn, Labels
<1>2. faults' \in 0 .. MaxFaults
  BY <1>t, PipelineAssumption DEF MTypeOK, HeartbeatFails, Die, StepFails, DieInReset
<1>3. disk' \in Trees
  BY <1>t, LeftTyped, GivesUp DEF MTypeOK, HeartbeatFails, Die, StepFails, DieInReset
<1>4. baseline' \in Trees \cup {None}
  BY <1>t, GivesUp DEF MTypeOK, HeartbeatFails, Die, StepFails, DieInReset
<1>5. lingering' \in SUBSET (Workers \X SUBSET Snapshots)
  BY <1>t, GivesUp DEF MTypeOK, HeartbeatFails, Die, StepFails, DieInReset
<1>6. UNCHANGED <<store, polluting, clearing, disturbed, ghosts>>
  BY DEF HeartbeatFails, Die, StepFails, DieInReset
<1>7. RestTyped
  BY <1>t, <1>2, <1>3, <1>4, <1>5, <1>6 DEF MTypeOK, StoreOK, RestTyped, store
<1> QED
  BY <1>1, <1>6, <1>7, MovingExtracts DEF store

-----------------------------------------------------------------------------
(* Time, threads and resets.                                                *)

\* A session that did nothing.
LEMMA Resting ==
    ASSUME MInv, UNCHANGED worker
    PROVE  \A v \in Workers : Shrinks(v) /\ Rests(v)
BY DEF MInv, MTypeOK, Shrinks, Rests

\* Agents that were given up.
LEMMA LingeringExtracts ==
    ASSUME MInv, NEW agent \in lingering, LingeringWorks(agent) \/ ShutdownAgent(agent)
    PROVE  Extracts
<1>t. MTypeOK /\ agent[2] \in SUBSET Snapshots
  BY DEF MInv, MTypeOK
<1>1. disk' \in Trees
  BY <1>t, WrittenTyped DEF LingeringWorks, ShutdownAgent, MTypeOK
<1>2. lingering' \in SUBSET (Workers \X SUBSET Snapshots)
  BY <1>t DEF LingeringWorks, ShutdownAgent, MTypeOK
<1>3. UNCHANGED <<baseline, worker, store, polluting, faults, clearing, disturbed, ghosts>>
  BY DEF LingeringWorks, ShutdownAgent, Phase2Rest
<1>4. MTypeOK'
  BY <1>t, <1>1, <1>2, <1>3 DEF MTypeOK, StoreOK, store, ghosts
<1> QED
  BY <1>3, <1>4, Resting, Unextracting DEF Extracts, store, ghosts

LEMMA JobTimeExtracts ==
    ASSUME MInv, NEW t \in Threads, Stage1LeaseExpires(t) \/ Stage1BackoffElapses(t)
    PROVE  Extracts
<1>t. MTypeOK /\ StoreOK
  BY DEF MInv, MTypeOK
<1>n. stage1[t] \in Stage1Rows /\ stage1[t] # None
  BY <1>t DEF Stage1LeaseExpires, Stage1BackoffElapses, RunsNow, StoreOK
<1>1. PICK row : row = IF Stage1LeaseExpires(t) THEN [stage1[t] EXCEPT !.leased = FALSE]
                       ELSE [stage1[t] EXCEPT !.backoff = FALSE]
  OBVIOUS
<1>2. /\ row \in Stage1Rows /\ row.status = stage1[t].status /\ row.token = stage1[t].token
      /\ row.retry_remaining = stage1[t].retry_remaining /\ row.input = stage1[t].input
      /\ row.last_success = stage1[t].last_success
  BY <1>n, <1>1 DEF Stage1Rows
<1>3. row.leased => stage1[t].leased
  BY <1>n, <1>1, Zenon DEF Stage1Rows
<1>4. stage1' = [stage1 EXCEPT ![t] = row]
  <2>1. CASE Stage1LeaseExpires(t)
    BY <1>1, <2>1, Zenon DEF Stage1LeaseExpires
  <2>2. CASE ~ Stage1LeaseExpires(t)
    BY <1>1, <2>2, Zenon DEF Stage1BackoffElapses
  <2> QED
    BY <2>1, <2>2
<1>5. /\ stage1' \in [Threads -> Stage1Rows \cup {None}] /\ stage1'[t] = row
      /\ \A u \in Threads : u # t => stage1'[u] = stage1[u]
  BY <1>t, <1>2, <1>4 DEF StoreOK
<1>6. /\ UNCHANGED <<thread, output, global, worker, polluting, fs, clearing, disturbed, ghosts>>
      /\ faults' \in 0 .. MaxFaults
  BY <1>t, PipelineAssumption
  DEF Stage1LeaseExpires, Stage1BackoffElapses, ExpiresUnder, MTypeOK
<1>7. MTypeOK'
  BY <1>t, <1>5, <1>6 DEF MTypeOK, StoreOK, fs, ghosts
<1>8. JobTimed(t)
  BY <1>n, <1>2, <1>5, <1>6, StoreAssumption DEF JobTimed, Uncounted, ghosts
<1>9. \A u \in Threads : JobFrom(u)
  BY <1>5, <1>6, <1>8 DEF JobFrom, JobKept, Uncounted, ghosts
<1>10. \A u \in Threads : RunsNow(u)' => RunsNow(u)
  <2>1. RunsNow(t)' => RunsNow(t)
    BY <1>n, <1>2, <1>3, <1>5 DEF RunsNow
  <2> QED
    BY <1>5, <2>1 DEF RunsNow
<1> QED
  BY <1>6, <1>7, <1>9, <1>10, Resting, RunningShrinks DEF Extracts, ExtractShape, WorkerFrom

LEMMA GlobalTimeExtracts ==
    ASSUME MInv, GlobalLeaseExpires \/ GlobalDelayElapses
    PROVE  Extracts
<1>t. MTypeOK /\ StoreOK
  BY DEF MInv, MTypeOK
<1>1. global' \in GlobalRows
  <2>1. global \in GlobalRows
    BY <1>t DEF StoreOK, GlobalLeaseExpires, GlobalDelayElapses
  <2>2. CASE GlobalLeaseExpires
    BY <2>1, <2>2 DEF GlobalLeaseExpires, GlobalRows
  <2>3. CASE GlobalDelayElapses
    BY <2>1, <2>3 DEF GlobalDelayElapses, GlobalRows
  <2> QED
    BY <2>2, <2>3
<1>2. /\ UNCHANGED <<thread, output, stage1, worker, polluting, fs, clearing, ghosts>>
      /\ faults' \in 0 .. MaxFaults
  BY <1>t, PipelineAssumption DEF GlobalLeaseExpires, GlobalDelayElapses, ExpiresUnder, MTypeOK
<1>3. disturbed' \in BOOLEAN
  BY <1>t DEF GlobalLeaseExpires, GlobalDelayElapses, MTypeOK
<1>4. MTypeOK'
  BY <1>t, <1>1, <1>2, <1>3 DEF MTypeOK, StoreOK, fs, ghosts
<1> QED
  BY <1>2, <1>4, Resting, Unextracting DEF Extracts, ghosts

LEMMA ThreadExtracts ==
    ASSUME MInv, NEW t \in Threads, ThreadStep(t)
    PROVE  Extracts
<1>t. MTypeOK /\ StoreOK
  BY DEF MInv, MTypeOK
<1>r. thread[t] \in ThreadRows
  BY <1>t DEF StoreOK
<1>u. UNCHANGED <<worker, disk, baseline, lingering, faults, clearing, disturbed>>
  BY DEF ThreadStep, UpdateThread, PolluteRead, PolluteMark, PolluteEnqueue, DeleteThread,
         DeleteThreadMemory, fs
<1>1. CASE UpdateThread(t) \/ DeleteThread(t) \/ PolluteRead(t) \/ PolluteMark(t)
           \/ PolluteEnqueue(t)
  <2>1. thread' \in [Threads -> ThreadRows]
    <3>1. CASE UpdateThread(t)
      <4>1. thread[t].updated_at + 1 \in Sources
        BY <1>r, <3>1, StoreAssumption DEF UpdateThread, ThreadRows, Sources
      <4>2. PICK row : row = [thread[t] EXCEPT !.updated_at = thread[t].updated_at + 1]
        OBVIOUS
      <4>3. row \in ThreadRows
        BY <1>r, <4>1, <4>2 DEF ThreadRows
      <4>4. thread' = [thread EXCEPT ![t] = row]
        BY <3>1, <4>2, Zenon DEF UpdateThread
      <4> QED
        BY <1>t, <4>3, <4>4 DEF StoreOK
    <3>2. CASE DeleteThread(t)
      BY <1>t, <1>r, <3>2 DEF DeleteThread, StoreOK, ThreadRows
    <3>3. CASE PolluteMark(t)
      BY <1>t, <1>r, <3>3 DEF PolluteMark, StoreOK, ThreadRows
    <3>4. CASE PolluteRead(t) \/ PolluteEnqueue(t)
      BY <1>t, <3>4 DEF PolluteRead, PolluteEnqueue, StoreOK, store
    <3> QED
      BY <1>1, <3>1, <3>2, <3>3, <3>4
  <2>2. polluting' \in [Threads -> {"no", "unselected", "selected", "enqueue", "done"}]
    BY <1>t, <1>1
    DEF UpdateThread, DeleteThread, PolluteRead, PolluteMark, PolluteEnqueue, MTypeOK
  <2>3. global' \in GlobalRows \cup {None}
    BY <1>t, <1>1, EnqueuedTyped
    DEF UpdateThread, DeleteThread, PolluteRead, PolluteMark, PolluteEnqueue, StoreOK, store
  <2>4. UNCHANGED <<output, stage1, ghosts>>
    BY <1>1 DEF UpdateThread, DeleteThread, PolluteRead, PolluteMark, PolluteEnqueue, store
  <2>5. MTypeOK'
    BY <1>t, <1>u, <2>1, <2>2, <2>3, <2>4 DEF MTypeOK, StoreOK, ghosts
  <2> QED
    BY <1>u, <2>4, <2>5, Resting, Unextracting DEF Extracts, ghosts
<1>2. CASE DeleteThreadMemory(t)
  <2>1. global' \in GlobalRows \cup {None}
    BY <1>t, <1>2, EnqueuedTyped DEF DeleteThreadMemory, StoreOK
  <2>2. /\ output' \in [Threads -> OutputRows \cup {None}]
        /\ stage1' \in [Threads -> Stage1Rows \cup {None}]
        /\ extracted' \in [Threads -> SUBSET Sources]
        /\ failures' \in [Threads -> Nat]
    BY <1>t, <1>2 DEF DeleteThreadMemory, StoreOK, MTypeOK
  <2>3. MTypeOK'
    BY <1>t, <1>u, <1>2, <2>1, <2>2 DEF MTypeOK, StoreOK, DeleteThreadMemory
  <2>4. \A u \in Threads : IF u = t THEN JobGone(u) ELSE JobKept(u)
    BY <1>t, <1>2 DEF DeleteThreadMemory, JobGone, JobKept, Uncounted, StoreOK, MTypeOK
  <2>5. \A u \in Threads : RunsNow(u)' => RunsNow(u)
    BY <2>4 DEF RunsNow, JobGone, JobKept
  <2> QED
    BY <1>u, <2>3, <2>4, <2>5, Resting, RunningShrinks
    DEF Extracts, ExtractShape, WorkerFrom, JobFrom
<1> QED
  BY <1>1, <1>2 DEF ThreadStep

LEMMA ResetExtracts ==
    ASSUME MInv, ClearMemoryData \/ ClearMemoryRoots
    PROVE  Extracts
<1>t. MTypeOK /\ StoreOK
  BY DEF MInv, MTypeOK
<1>1. CASE ClearMemoryData
  <2>1. \A u \in Threads : JobGone(u)
    BY <1>1 DEF ClearMemoryData, JobGone
  <2>2. faults' \in 0 .. MaxFaults /\ disturbed' \in BOOLEAN
    BY <1>t, <1>1, PipelineAssumption DEF ClearMemoryData, MTypeOK
  <2>3. MTypeOK'
    BY <1>t, <1>1, <2>2 DEF MTypeOK, StoreOK, ClearMemoryData, fs
  <2>4. \A u \in Threads : RunsNow(u)' => RunsNow(u)
    BY <2>1 DEF RunsNow, JobGone
  <2> QED
    BY <1>1, <2>1, <2>3, <2>4, Resting, RunningShrinks
    DEF Extracts, ExtractShape, WorkerFrom, JobFrom, ClearMemoryData
<1>2. CASE ClearMemoryRoots
  <2>1. EmptyTree \in Trees
    BY DEF EmptyTree, Trees
  <2>2. disturbed' \in BOOLEAN
    BY <1>t, <1>2 DEF ClearMemoryRoots, MTypeOK
  <2>3. MTypeOK'
    BY <1>t, <1>2, <2>1, <2>2 DEF MTypeOK, StoreOK, ClearMemoryRoots, store, ghosts
  <2> QED
    BY <1>2, <2>3, Resting, Unextracting DEF Extracts, ClearMemoryRoots, store, ghosts
<1> QED
  BY <1>1, <1>2

LEMMA NextExtracts ==
    ASSUME MInv, [MNext]_mvars
    PROVE  Extracts
<1>1. ASSUME NEW w \in Workers, Phase1Step(w) PROVE Extracts
  <2>1. CASE Claimed(w)
    BY <2>1, ClaimedExtracts
  <2>2. ASSUME NEW t \in Threads, NEW source \in Sources,
               \/ TryClaim(w, t, source) \/ Succeeded(w, t, source)
               \/ SucceededNoOutput(w, t, source) \/ ExtractionFailed(w, t, source)
        PROVE  Extracts
    BY <2>2, TryClaimExtracts, SucceedsExtracts, FailsExtracts
  <2> QED
    BY <1>1, <2>1, <2>2 DEF Phase1Step
<1>2. ASSUME NEW w \in Workers,
             \/ Start(w) \/ Phase1Step(w) \/ Phase2Step(w) \/ Heartbeat(w)
             \/ HeartbeatFails(w) \/ Die(w) \/ StepFails(w) \/ DieInReset(w)
      PROVE  Extracts
  BY <1>1, <1>2, StartExtracts, Phase2Extracts, FaultExtracts
<1>3. CASE Elapse
  BY <1>3, JobTimeExtracts, GlobalTimeExtracts DEF Elapse
<1>4. ASSUME NEW t \in Threads, ThreadStep(t) PROVE Extracts
  BY <1>4, ThreadExtracts
<1>5. CASE ClearMemoryData \/ ClearMemoryRoots
  BY <1>5, ResetExtracts
<1>7. ASSUME NEW agent \in lingering, LingeringWorks(agent) \/ ShutdownAgent(agent)
      PROVE  Extracts
  BY <1>7, LingeringExtracts
<1>6. CASE UNCHANGED mvars
  <2>1. MTypeOK'
    BY <1>6 DEF MInv, MTypeOK, StoreOK, mvars, store, fs, ghosts
  <2> QED
    BY <1>6, <2>1, Resting, Unextracting DEF Extracts, mvars, store, ghosts
<1> QED
  BY <1>2, <1>3, <1>4, <1>5, <1>6, <1>7 DEF MNext

-----------------------------------------------------------------------------
(* The extraction jobs.                                                     *)

LEMMA InitExtracts == MInit => MInv
<1> SUFFICES ASSUME MInit PROVE MInv
  OBVIOUS
<1>1. MTypeOK
  <2>1. /\ [memory_mode |-> "enabled", updated_at |-> 1] \in ThreadRows
        /\ EmptyTree \in Trees
    BY StoreAssumption DEF ThreadRows, Sources, EmptyTree, Trees
  <2>2. 0 \in 0 .. MaxFaults
    BY PipelineAssumption
  <2> QED
    BY <2>1, <2>2, IdleTyped DEF MInit, MTypeOK, StoreOK
<1>2. \A w \in Workers : worker[w].items = {} /\ worker[w].claims = {}
  BY IdleTyped DEF MInit
<1>3. WatermarkHonest /\ JobConsistent /\ ClaimsConsistent
  BY <1>2 DEF MInit, WatermarkHonest, JobConsistent, ClaimsConsistent
<1>4. {t \in Threads : RunsNow(t)} = {}
  BY DEF MInit, RunsNow
<1>5. RunningBounded
  BY <1>4, FS_EmptySet, StoreAssumption DEF RunningBounded
<1> QED
  BY <1>1, <1>3, <1>5 DEF MInv

LEMMA NextKeepsMInv == MInv /\ [MNext]_mvars => MInv'
<1> SUFFICES ASSUME MInv, [MNext]_mvars PROVE MInv'
  OBVIOUS
<1>1. MTypeOK' /\ ExtractShape /\ RunningBounded'
  BY NextExtracts DEF Extracts
<1>2. WatermarkHonest' /\ JobConsistent'
  BY <1>1, JobKeeps DEF ExtractShape, WatermarkHonest, JobConsistent
<1>3. ClaimsConsistent'
  BY <1>1, ClaimsKeep
<1> QED
  BY <1>1, <1>2, <1>3 DEF MInv

\* The extraction jobs of any number of sessions keep to their limits: the state
\* is well typed, at most MaxRunning extractions hold a lease, a job's retries and
\* failures add up, its watermark is honest, and a session owns a job only with
\* the version it claimed (try_claim_stage1_job, mark_stage1_job_*).
THEOREM ExtractionSafe == MSpec => []MInv
<1>1. MInit => MInv
  BY InitExtracts
<1>2. MInv /\ [MNext]_mvars => MInv'
  BY NextKeepsMInv
<1> QED
  BY <1>1, <1>2, PTL DEF MSpec

\* The version a job calls its last success has a stored result, whoever finished
\* late and whoever claimed the job meanwhile.
THEOREM WatermarksHonest == MSpec => []WatermarkHonest
<1>1. MInv => WatermarkHonest
  BY DEF MInv
<1> QED
  BY <1>1, ExtractionSafe, PTL

\* No version is extracted again once it has a result, also when retention pruned
\* the output or there was none (try_claim_stage1_job).
THEOREM NeverExtractedAgain == MSpec => []NotAgain
<1>1. MInv => NotAgain
  <2> SUFFICES ASSUME MInv, NEW w \in Workers, NEW t \in Threads, NEW source \in Sources,
                      <<t, source>> \in worker[w].claims, Owns(w, t),
                      source \in extracted[t]
               PROVE  FALSE
    BY DEF NotAgain
  <2>1. stage1[t] # None /\ stage1[t].status = "running" /\ stage1[t].input = source
    BY DEF MInv, ClaimsConsistent, Owns
  <2>2. source > stage1[t].last_success /\ source <= stage1[t].last_success
    BY <2>1 DEF MInv, JobConsistent
  <2>3. source \in Nat /\ stage1[t].last_success \in Nat
    BY <2>1 DEF MInv, MTypeOK, StoreOK, Stage1Rows, Sources
  <2> QED
    BY <2>2, <2>3
<1> QED
  BY <1>1, ExtractionSafe, PTL

\* A version that fails is tried DEFAULT_RETRY_REMAINING times at most, whatever
\* sessions claim it in turn (mark_stage1_job_failed).
THEOREM RetriesBounded == MSpec => []FailuresBounded
<1>1. MInv => FailuresBounded
  <2> SUFFICES ASSUME MInv, NEW t \in Threads
               PROVE  failures[t] <= DEFAULT_RETRY_REMAINING
    BY DEF FailuresBounded
  <2>1. failures[t] \in Nat /\ DEFAULT_RETRY_REMAINING \in Nat
    BY StoreAssumption DEF MInv, MTypeOK
  <2>2. stage1[t] # None => stage1[t].retry_remaining \in Nat
    BY DEF MInv, MTypeOK, StoreOK, Stage1Rows
  <2> QED
    BY <2>1, <2>2 DEF MInv, JobConsistent
<1> QED
  BY <1>1, ExtractionSafe, PTL

-----------------------------------------------------------------------------
(* The consolidation.  A step either stands aside from it, or is a step of  *)
(* the one session that consolidates.                                       *)

Steady(v) ==
    \/ worker'[v].at = worker[v].at /\ worker'[v].picked = worker[v].picked
    \/ ~ Consolidating(v)'

\* What a consolidation needs of the global job, and what the other sessions and
\* the threads leave of the selection.
GlobalSteady ==
    /\ \A w \in Workers : Consolidating(w) /\ OwnsGlobal(w) /\ global.leased
                            => OwnsGlobal(w)' /\ global'.leased
    /\ global' # None /\ global'.status = "done" => global # None /\ global.status = "done"

SelectionSteady ==
    \A t \in Threads : output'[t] # None /\ output'[t].selected # 0
        => output[t] # None /\ output[t].selected = output'[t].selected

Aside ==
    /\ UNCHANGED <<disk, baseline>> /\ lingering' \subseteq lingering
    /\ \A v \in Workers : Steady(v)
    /\ GlobalSteady
    /\ SelectionSteady

LEMMA AsideKeeps ==
    ASSUME ConsolidationInv, MTypeOK', ~ disturbed' => ~ disturbed /\ Aside
    PROVE  ConsolidationInv'
<1> SUFFICES ASSUME ~ disturbed' PROVE ConsolidationInv'
  BY DEF ConsolidationInv, ConsolidatorHolds, WorkspaceInStep, LingeringAlone,
         UntrackedConsolidated, BaselineConsolidated, DoneIsClean
<1>a. ~ disturbed /\ Aside
  OBVIOUS
<1>1. ASSUME NEW v \in Workers
      PROVE  /\ Consolidating(v)' => Consolidating(v) /\ OwnsGlobal(v)' /\ global'.leased
             /\ InStep(v)'
  <2>1. InStep(v) /\ (Consolidating(v) => OwnsGlobal(v) /\ global.leased)
    BY <1>a DEF ConsolidationInv, ConsolidatorHolds, WorkspaceInStep
  <2>2. CASE worker'[v].at = worker[v].at /\ worker'[v].picked = worker[v].picked
    <3>1. InStep(v)'
      BY <1>a, <2>1, <2>2 DEF Aside, InStep
    <3>2. Consolidating(v)' => Consolidating(v)
      BY <2>2 DEF Consolidating
    <3> QED
      BY <1>a, <2>1, <3>1, <3>2 DEF Aside, GlobalSteady
  <2>3. CASE ~ Consolidating(v)'
    BY <2>3 DEF Consolidating, InStep
  <2> QED
    BY <1>a, <2>2, <2>3 DEF Aside, Steady
<1>2. ConsolidatorHolds' /\ WorkspaceInStep'
  BY <1>1 DEF ConsolidatorHolds, WorkspaceInStep
<1>3. UntrackedConsolidated' /\ BaselineConsolidated'
  BY <1>a DEF Aside, ConsolidationInv, UntrackedConsolidated, BaselineConsolidated
<1>4. DoneIsClean'
  <2> SUFFICES ASSUME global' # None, global'.status = "done"
               PROVE  /\ disk' = baseline'
                      /\ \A t \in Threads : output'[t] # None /\ output'[t].selected # 0
                            => <<t, output'[t].selected>> \in baseline'.inputs
    BY DEF DoneIsClean
  <2>1. /\ disk = baseline
        /\ \A t \in Threads : output[t] # None /\ output[t].selected # 0
               => <<t, output[t].selected>> \in baseline.inputs
    BY <1>a DEF Aside, GlobalSteady, ConsolidationInv, DoneIsClean
  <2> QED
    BY <1>a, <2>1 DEF Aside, SelectionSteady
<1>5. LingeringAlone'
  <2> SUFFICES ASSUME lingering' # {}
               PROVE  /\ baseline' # None
                      /\ global' # None => global'.status # "done"
                      /\ \A v \in Workers : Consolidating(v)' => At(v, "failed")'
    BY DEF LingeringAlone
  <2>1. /\ baseline # None
        /\ global # None => global.status # "done"
        /\ \A v \in Workers : Consolidating(v) => At(v, "failed")
    BY <1>a DEF Aside, ConsolidationInv, LingeringAlone
  <2>2. \A v \in Workers : Consolidating(v)' => At(v, "failed")'
    BY <1>a, <2>1 DEF Aside, Steady, Consolidating, At
  <2> QED
    BY <1>a, <2>1, <2>2 DEF Aside, GlobalSteady
<1> QED
  BY <1>2, <1>3, <1>4, <1>5 DEF ConsolidationInv

\* Two sessions never consolidate at a time.
LEMMA Alone ==
    ASSUME ConsolidationInv, ~ disturbed, NEW w \in Workers, Consolidating(w)
    PROVE  /\ OwnsGlobal(w) /\ global.leased /\ InStep(w)
           /\ \A v \in Workers : v # w => ~ Consolidating(v)
           /\ ~ At(w, "failed") => lingering = {}
<1>1. \A v \in Workers : Consolidating(v) => global.token = v
  BY DEF ConsolidationInv, ConsolidatorHolds, OwnsGlobal
<1> QED
  BY <1>1 DEF ConsolidationInv, ConsolidatorHolds, WorkspaceInStep, LingeringAlone

\* A step of the session that consolidates, which goes on or gives up.
LEMMA WorkKeeps ==
    ASSUME ConsolidationInv, MTypeOK', ~ disturbed, NEW w \in Workers,
           \A v \in Workers : v # w => worker'[v] = worker[v] /\ ~ Consolidating(v),
           Consolidating(w)' => OwnsGlobal(w)' /\ global'.leased,
           InStep(w)', LingeringAlone', UntrackedConsolidated', BaselineConsolidated',
           DoneIsClean'
    PROVE  ConsolidationInv'
<1>1. \A v \in Workers : v # w => ~ Consolidating(v)' /\ InStep(v)'
  BY DEF Consolidating, InStep
<1> QED
  BY <1>1 DEF ConsolidationInv, ConsolidatorHolds, WorkspaceInStep

\* The same, when the step leaves the global job and the agents alone.
LEMMA SameJobKeeps ==
    ASSUME ConsolidationInv, MTypeOK', ~ disturbed, NEW w \in Workers, Consolidating(w),
           \A v \in Workers : v # w => worker'[v] = worker[v],
           UNCHANGED global, ~ At(w, "failed"), lingering' \subseteq lingering,
           InStep(w)', UntrackedConsolidated', BaselineConsolidated'
    PROVE  ConsolidationInv'
<1>1. /\ OwnsGlobal(w) /\ global.leased
      /\ \A v \in Workers : v # w => ~ Consolidating(v)
      /\ lingering = {}
  BY Alone
<1>2. OwnsGlobal(w)' /\ global'.leased /\ DoneIsClean' /\ LingeringAlone'
  BY <1>1 DEF OwnsGlobal, DoneIsClean, LingeringAlone
<1> QED
  BY <1>1, <1>2, WorkKeeps

Others(w) == \A v \in Workers : v # w => worker'[v] = worker[v]

LEMMA WentTo ==
    ASSUME MTypeOK, NEW w \in Workers, NEW label \in Labels, GoTo(w, label)
    PROVE  worker'[w].at = label /\ worker'[w].picked = worker[w].picked /\ Others(w)
<1>1. Goes(w, label)
  BY GoesTo
<1> QED
  BY <1>1 DEF Goes, Becomes, Others

LEMMA WentIdle ==
    ASSUME MTypeOK, NEW w \in Workers, Finish(w)
    PROVE  worker'[w].at = "idle" /\ Others(w) /\ ~ Consolidating(w)' /\ InStep(w)'
<1>1. worker'[w].at = "idle" /\ Others(w)
  BY Finishes, IdleTyped DEF Becomes, Others
<1> QED
  BY <1>1 DEF Consolidating, InStep

\* The sessions in phase 1.
LEMMA Phase1Steady ==
    ASSUME MTypeOK, NEW w \in Workers, Start(w) \/ Phase1Step(w)
    PROVE  \A v \in Workers : Steady(v)
<1>t. worker[w] \in WorkerStates
  BY DEF MTypeOK
<1>o. ASSUME NEW s, worker' = [worker EXCEPT ![w] = s],
             s.at \in {"idle", "claim", "extract", "phase2"}
      PROVE  \A v \in Workers : Steady(v)
  <2>1. worker'[w] = s /\ \A v \in Workers : v # w => worker'[v] = worker[v]
    BY <1>o DEF MTypeOK
  <2>2. ~ Consolidating(w)'
    BY <1>o, <2>1 DEF Consolidating
  <2> QED
    BY <2>1, <2>2 DEF Steady
<1>1. CASE Start(w)
  <2>1. CASE 1 \in Phases[w]
    <3>1. PICK its : its = {<<t, thread[t].updated_at>> :
                              t \in {u \in Threads : thread[u].memory_mode = "enabled"}}
      OBVIOUS
    <3>2. PICK s : s = [worker[w] EXCEPT !.at = "claim", !.items = its]
      OBVIOUS
    <3>3. worker' = [worker EXCEPT ![w] = s]
      BY <1>1, <2>1, <3>1, <3>2 DEF Start, MTypeOK
    <3>4. s.at = "claim"
      BY <1>t, <3>2 DEF WorkerStates
    <3> QED
      BY <1>o, <3>3, <3>4
  <2>2. CASE 1 \notin Phases[w]
    <3>1. AfterPhase1(w).at \in {"idle", "phase2"}
      BY AfterPhase1Typed
    <3>2. worker' = [worker EXCEPT ![w] = AfterPhase1(w)]
      BY <1>1, <2>2 DEF Start
    <3> QED
      BY <1>o, <3>1, <3>2
  <2> QED
    BY <2>1, <2>2
<1>2. CASE Claimed(w)
  <2>1. PICK s : s = IF worker[w].claims = {} THEN AfterPhase1(w)
                     ELSE [worker[w] EXCEPT !.at = "extract", !.items = {}]
    OBVIOUS
  <2>2. s.at \in {"idle", "claim", "extract", "phase2"}
    BY <1>t, <2>1, AfterPhase1Typed DEF WorkerStates
  <2>3. worker' = [worker EXCEPT ![w] = s]
    BY <1>2, <2>1 DEF Claimed, MTypeOK
  <2> QED
    BY <1>o, <2>2, <2>3
<1>3. ASSUME NEW t \in Threads, NEW source \in Sources, TryClaim(w, t, source)
      PROVE  \A v \in Workers : Steady(v)
  <2> DEFINE claimed == ~ UpToDate(t, source) /\ Claimable(t, source) /\ BelowLimit(t)
  <2>1. PICK its, cls : /\ its = worker[w].items \ {<<t, source>>}
                        /\ cls = IF claimed THEN worker[w].claims \cup {<<t, source>>}
                                 ELSE worker[w].claims
    OBVIOUS
  <2>2. PICK s : s = [worker[w] EXCEPT !.items = its, !.claims = cls]
    OBVIOUS
  <2>3. s.at = "claim"
    BY <1>t, <1>3, <2>2 DEF WorkerStates, TryClaim, At
  <2>4. worker' = [worker EXCEPT ![w] = s]
    BY <1>t, <1>3, <2>1, <2>2 DEF TryClaim, MTypeOK
  <2> QED
    BY <1>o, <2>3, <2>4
<1>4. ASSUME NEW t \in Threads, NEW source \in Sources,
             Extracting(w, t, source), Extracted(w, t, source)
      PROVE  \A v \in Workers : Steady(v)
  <2>1. PICK cls : cls = worker[w].claims \ {<<t, source>>}
    OBVIOUS
  <2>2. PICK s : s = IF cls = {} THEN AfterPhase1(w) ELSE [worker[w] EXCEPT !.claims = cls]
    OBVIOUS
  <2>3. worker[w].at = "extract"
    BY <1>4 DEF Extracting, At
  <2>4. s.at \in {"idle", "claim", "extract", "phase2"}
    BY <1>t, <2>2, <2>3, AfterPhase1Typed DEF WorkerStates
  <2>5. worker' = [worker EXCEPT ![w] = s]
    BY <1>4, <2>1, <2>2 DEF Extracted
  <2> QED
    BY <1>o, <2>4, <2>5
<1> QED
  BY <1>1, <1>2, <1>3, <1>4
  DEF Phase1Step, Succeeded, SucceededNoOutput, ExtractionFailed

\* Enqueueing leaves a running job alone and never makes one done.
LEMMA EnqueuedSteady ==
    ASSUME MTypeOK, global' = Enqueued \/ UNCHANGED global
    PROVE  GlobalSteady
<1>1. /\ Enqueued.status # "done"
      /\ (global # None /\ global.status = "running") => Enqueued = global
  BY EnqueuedTyped DEF MTypeOK
<1> QED
  BY <1>1 DEF GlobalSteady, OwnsGlobal

LEMMA Phase1Aside ==
    ASSUME MTypeOK, NEW w \in Workers, Start(w) \/ Phase1Step(w)
    PROVE  Aside /\ UNCHANGED disturbed
<1>o. output \in [Threads -> OutputRows \cup {None}]
  BY DEF MTypeOK, StoreOK
<1>1. \A v \in Workers : Steady(v)
  BY Phase1Steady
<1>2. UNCHANGED <<disk, baseline, lingering, disturbed>>
  BY DEF Start, Phase1Step, Claimed, TryClaim, Succeeded, SucceededNoOutput,
         ExtractionFailed, fs
<1>3. GlobalSteady
  BY EnqueuedSteady
  DEF Start, Phase1Step, Claimed, TryClaim, Succeeded, SucceededNoOutput, ExtractionFailed, store
<1>4. CASE UNCHANGED output
  BY <1>1, <1>2, <1>3, <1>4 DEF Aside, SelectionSteady
<1>5. CASE Start(w)
  <2>1. SelectionSteady
    BY <1>5 DEF Start, SelectionSteady
  <2> QED
    BY <1>1, <1>2, <1>3, <2>1 DEF Aside
<1>6. ASSUME NEW t \in Threads, NEW source \in Sources,
             output' = [output EXCEPT ![t] = UpsertedOutput(t, source)]
      PROVE  SelectionSteady
  <2>1. PICK out : out = UpsertedOutput(t, source)
    OBVIOUS
  <2>2. out.selected = IF output[t] = None THEN 0 ELSE output[t].selected
    BY <2>1, UpsertTyped DEF MTypeOK
  <2>3. output'[t] = out /\ \A u \in Threads : u # t => output'[u] = output[u]
    BY <1>o, <1>6, <2>1
  <2> QED
    BY <2>2, <2>3 DEF SelectionSteady
<1>7. ASSUME NEW t \in Threads, output' = [output EXCEPT ![t] = None]
      PROVE  SelectionSteady
  BY <1>o, <1>7 DEF SelectionSteady
<1>8. CASE \E t \in Threads, source \in Sources :
               Succeeded(w, t, source) \/ SucceededNoOutput(w, t, source)
  <2>1. SelectionSteady \/ UNCHANGED output
    BY <1>6, <1>7, <1>8 DEF Succeeded, SucceededNoOutput
  <2> QED
    BY <1>1, <1>2, <1>3, <1>4, <2>1 DEF Aside
<1>9. CASE Claimed(w) \/ \E t \in Threads, source \in Sources :
               TryClaim(w, t, source) \/ ExtractionFailed(w, t, source)
  BY <1>2, <1>4, <1>9 DEF Claimed, TryClaim, ExtractionFailed, store
<1> QED
  BY <1>2, <1>5, <1>8, <1>9 DEF Phase1Step

-----------------------------------------------------------------------------
(* The steps of a consolidation.                                            *)

LEMMA TreeNotNone == ASSUME MTypeOK PROVE disk # None
BY PipelineAssumption DEF MTypeOK

\* After a disturbance the invariant asks for the types only.
LEMMA DisturbedKeeps ==
    ASSUME MTypeOK', disturbed' PROVE ConsolidationInv'
BY DEF ConsolidationInv, ConsolidatorHolds, WorkspaceInStep, LingeringAlone,
       UntrackedConsolidated, BaselineConsolidated, DoneIsClean

LEMMA ClaimGlobalConsolidates ==
    ASSUME ConsolidationInv, MTypeOK', ~ disturbed, ~ disturbed', NEW w \in Workers,
           ClaimGlobal(w)
    PROVE  ConsolidationInv'
<1>t. MTypeOK /\ UNCHANGED <<output, disk, baseline, lingering, disturbed>>
  BY DEF ConsolidationInv, ClaimGlobal, fs, MTypeOK
<1>1. CASE GlobalClaimable
  <2>1. \A v \in Workers : ~ Consolidating(v)
    BY <1>1 DEF GlobalClaimable, ConsolidationInv, ConsolidatorHolds, OwnsGlobal
  <2>2. worker'[w].at = "prepare" /\ Others(w)
    BY <1>t, <1>1, WentTo DEF ClaimGlobal, Labels
  <2>3. InStep(w)'
    BY <2>2 DEF InStep
  <2>4. /\ global' # None /\ global'.status = "running" /\ global'.token = w
        /\ global'.leased
    BY <1>1, ClaimedGlobalTyped DEF ClaimGlobal
  <2>5. OwnsGlobal(w)' /\ DoneIsClean' /\ LingeringAlone'
    BY <1>1, <1>t, <2>4 DEF OwnsGlobal, DoneIsClean, LingeringAlone, ClaimGlobal
  <2>6. UntrackedConsolidated' /\ BaselineConsolidated'
    BY <1>t DEF ConsolidationInv, UntrackedConsolidated, BaselineConsolidated
  <2> QED
    BY <2>1, <2>2, <2>3, <2>4, <2>5, <2>6, WorkKeeps DEF Others
<1>2. CASE ~ GlobalClaimable
  <2>1. Finish(w) /\ UNCHANGED global
    BY <1>2 DEF ClaimGlobal
  <2>2. \A v \in Workers : Steady(v)
    BY <1>t, <2>1, WentIdle DEF Steady, Others
  <2>3. GlobalSteady /\ SelectionSteady
    BY <1>t, <2>1, EnqueuedSteady DEF SelectionSteady
  <2> QED
    BY <1>t, <2>2, <2>3, AsideKeeps DEF Aside
<1> QED
  BY <1>1, <1>2

\* From the claim to the diff.
LEMMA PreparationConsolidates ==
    ASSUME ConsolidationInv, MTypeOK', ~ disturbed, NEW w \in Workers,
           Prepare(w) \/ SelectKeys(w) \/ LoadRows(w) \/ SyncInputs(w) \/ Diff(w)
    PROVE  ConsolidationInv'
<1>t. MTypeOK /\ UNCHANGED <<global, lingering, disturbed>>
  BY DEF ConsolidationInv, Prepare, SelectKeys, LoadRows, SyncInputs, Diff, Phase2Rest, store, fs
<1>c. Consolidating(w) /\ ~ At(w, "failed")
  BY DEF Prepare, SelectKeys, LoadRows, SyncInputs, Diff, At, Consolidating
<1>a. InStep(w)
  BY <1>c, Alone
<1>f. /\ baseline = None => disk.inputs = None \/ disk.memory = disk.inputs
      /\ baseline # None /\ baseline.inputs # None => baseline.memory = baseline.inputs
  BY DEF ConsolidationInv, UntrackedConsolidated, BaselineConsolidated
<1>1. CASE Prepare(w)
  <2>1. worker'[w].at = "keys" /\ Others(w)
    BY <1>t, <1>1, WentTo DEF Prepare, Labels
  <2>2. baseline' # None /\ UNCHANGED disk /\ (baseline' = disk \/ baseline' = baseline)
    BY <1>t, <1>1, TreeNotNone DEF Prepare
  <2>3. baseline'.inputs # None => baseline'.memory = baseline'.inputs
    <3>1. CASE baseline = None
      BY <1>1, <1>f, <3>1 DEF Prepare
    <3>2. CASE baseline # None
      BY <1>1, <1>f, <3>2 DEF Prepare
    <3> QED
      BY <3>1, <3>2
  <2>4. InStep(w)' /\ UntrackedConsolidated' /\ BaselineConsolidated'
    BY <2>1, <2>2, <2>3 DEF InStep, UntrackedConsolidated, BaselineConsolidated
  <2> QED
    BY <1>t, <1>c, <2>1, <2>4, SameJobKeeps DEF Others
<1>2. CASE SelectKeys(w) \/ LoadRows(w)
  <2>1. PICK label \in {"rows", "sync"}, snapshots \in SUBSET Snapshots : Picks(w, label, snapshots)
    BY <1>t, <1>2, SelectsKeys, LoadsRows
  <2>2. worker'[w].at = label /\ Others(w)
    BY <2>1 DEF Picks, Becomes, Others
  <2>3. baseline # None /\ UNCHANGED <<disk, baseline>>
    BY <1>2, <1>a DEF InStep, SelectKeys, LoadRows, At, fs
  <2>4. InStep(w)' /\ UntrackedConsolidated' /\ BaselineConsolidated'
    BY <1>f, <2>2, <2>3 DEF InStep, UntrackedConsolidated, BaselineConsolidated
  <2> QED
    BY <1>t, <1>c, <2>2, <2>4, SameJobKeeps DEF Others
<1>3. CASE SyncInputs(w)
  <2>1. worker'[w].at = "diff" /\ worker'[w].picked = worker[w].picked /\ Others(w)
    BY <1>t, <1>3, WentTo DEF SyncInputs, Labels
  <2>2. baseline # None /\ UNCHANGED baseline
    BY <1>3, <1>a DEF InStep, SyncInputs, At
  <2>3. disk'.inputs = worker[w].picked
    BY <1>t, <1>3 DEF SyncInputs, MTypeOK, Trees
  <2>4. InStep(w)' /\ UntrackedConsolidated' /\ BaselineConsolidated'
    BY <1>f, <2>1, <2>2, <2>3 DEF InStep, UntrackedConsolidated, BaselineConsolidated
  <2> QED
    BY <1>t, <1>c, <2>1, <2>4, SameJobKeeps DEF Others
<1>4. CASE Diff(w)
  <2>1. baseline # None /\ UNCHANGED <<disk, baseline>> /\ disk.inputs = worker[w].picked
    BY <1>4, <1>a DEF InStep, Diff, At, fs
  <2>2. PICK label \in {"agent", "succeed"} :
            GoTo(w, label) /\ (label = "succeed" => disk = baseline)
    BY <1>4, <2>1 DEF Diff, HasChanges
  <2>3. worker'[w].at = label /\ worker'[w].picked = worker[w].picked /\ Others(w)
    BY <1>t, <2>2, WentTo DEF Labels
  <2>4. InStep(w)' /\ UntrackedConsolidated' /\ BaselineConsolidated'
    BY <1>f, <2>1, <2>2, <2>3 DEF InStep, UntrackedConsolidated, BaselineConsolidated
  <2> QED
    BY <1>t, <1>c, <2>3, <2>4, SameJobKeeps DEF Others
<1> QED
  BY <1>1, <1>2, <1>3, <1>4

\* While the agent runs, and when it has ended.
LEMMA AgentConsolidates ==
    ASSUME ConsolidationInv, MTypeOK', ~ disturbed, NEW w \in Workers,
           \/ AgentCompleted(w) \/ AgentErrored(w) \/ Heartbeat(w) \/ HeartbeatFails(w)
           \/ Confirm(w)
    PROVE  ConsolidationInv'
<1>t. MTypeOK /\ UNCHANGED <<baseline, disturbed>>
  BY DEF ConsolidationInv, AgentCompleted, AgentErrored, Heartbeat, HeartbeatFails, GiveUp,
         Confirm, Phase2Rest, fs
<1>c. Consolidating(w) /\ ~ At(w, "failed")
  BY DEF AgentCompleted, AgentErrored, Heartbeat, HeartbeatFails, Confirm, At, Consolidating
<1>a. /\ InStep(w) /\ OwnsGlobal(w) /\ global.leased
      /\ \A v \in Workers : v # w => ~ Consolidating(v)
      /\ lingering = {}
  BY <1>c, Alone
<1>b. /\ baseline # None /\ disk.inputs = worker[w].picked
      /\ Confirm(w) => disk.memory = worker[w].picked
  BY <1>a DEF InStep, AgentCompleted, AgentErrored, Heartbeat, HeartbeatFails, Confirm, At
<1>f. UntrackedConsolidated' /\ BaselineConsolidated'
  BY <1>t, <1>b DEF ConsolidationInv, UntrackedConsolidated, BaselineConsolidated
<1>1. CASE AgentCompleted(w)
  <2>1. worker'[w].at = "confirm" /\ worker'[w].picked = worker[w].picked /\ Others(w)
    BY <1>t, <1>1, WentTo DEF AgentCompleted, Labels
  <2>2. disk'.inputs = disk.inputs /\ disk'.memory = worker[w].picked
    BY <1>t, <1>1 DEF AgentCompleted, MTypeOK, Trees
  <2>3. InStep(w)'
    BY <1>t, <1>b, <2>1, <2>2 DEF InStep
  <2>4. UNCHANGED <<global, lingering>>
    BY <1>1 DEF AgentCompleted, Phase2Rest, store
  <2> QED
    BY <1>t, <1>c, <1>f, <2>1, <2>3, <2>4, SameJobKeeps DEF Others
<1>2. CASE AgentErrored(w)
  <2>1. worker'[w].at = "failed" /\ Others(w)
    BY <1>t, <1>2, WentTo DEF AgentErrored, Labels
  <2>2. InStep(w)' /\ UNCHANGED <<global, lingering>>
    BY <1>2, <2>1 DEF InStep, AgentErrored, Phase2Rest, store
  <2> QED
    BY <1>c, <1>f, <2>1, <2>2, SameJobKeeps DEF Others
<1>3. CASE Heartbeat(w)
  BY <1>3, <1>a DEF Heartbeat
<1>5. CASE HeartbeatFails(w)
  <2>1. worker'[w].at = "failed" /\ Others(w)
    BY <1>t, <1>5, WentTo DEF HeartbeatFails, GiveUp, Labels
  <2>2. InStep(w)' /\ UNCHANGED <<global, disk>>
    BY <1>5, <2>1 DEF InStep, HeartbeatFails, GiveUp, store
  <2>3. OwnsGlobal(w)' /\ global'.leased /\ DoneIsClean'
    BY <1>a, <2>2 DEF OwnsGlobal, DoneIsClean
  <2>4. \A v \in Workers : Consolidating(v)' => At(v, "failed")'
    BY <1>a, <2>1 DEF Others, Consolidating, At
  <2>5. LingeringAlone'
    BY <1>t, <1>b, <2>3, <2>4 DEF LingeringAlone, OwnsGlobal
  <2> QED
    BY <1>a, <1>f, <2>1, <2>2, <2>3, <2>5, WorkKeeps DEF Others
<1>4. CASE Confirm(w)
  <2>1. worker'[w].at = "reset" /\ worker'[w].picked = worker[w].picked /\ Others(w)
    BY <1>t, <1>a, <1>4, WentTo DEF Confirm, Labels
  <2>2. /\ global' # None /\ global'.status = global.status /\ global'.token = global.token
        /\ global'.leased
    BY <1>t, <1>a, <1>4, GlobalLeased DEF Confirm, OwnsGlobal, MTypeOK
  <2>4. UNCHANGED <<disk, lingering>>
    BY <1>4 DEF Confirm, fs
  <2>3. OwnsGlobal(w)' /\ DoneIsClean' /\ LingeringAlone'
    BY <1>a, <2>2, <2>4 DEF OwnsGlobal, DoneIsClean, LingeringAlone
  <2>5. InStep(w)'
    BY <1>t, <1>b, <1>4, <2>1, <2>4 DEF InStep
  <2> QED
    BY <1>a, <1>f, <2>1, <2>2, <2>3, <2>5, WorkKeeps DEF Others
<1> QED
  BY <1>1, <1>2, <1>3, <1>4, <1>5

\* The new baseline, and the end of the job.
LEMMA EndConsolidates ==
    ASSUME ConsolidationInv, MTypeOK', ~ disturbed, NEW w \in Workers,
           ResetBaseline(w) \/ SucceedGlobal(w) \/ FailGlobal(w)
    PROVE  ConsolidationInv'
<1>t. MTypeOK /\ StoreOK /\ UNCHANGED <<disk, lingering, disturbed>>
  BY DEF ConsolidationInv, MTypeOK, ResetBaseline, SucceedGlobal, FailGlobal, Phase2Rest, fs
<1>c. Consolidating(w)
  BY DEF ResetBaseline, SucceedGlobal, FailGlobal, At, Consolidating
<1>a. /\ InStep(w) /\ OwnsGlobal(w) /\ global.leased
      /\ \A v \in Workers : v # w => ~ Consolidating(v)
      /\ ~ At(w, "failed") => lingering = {}
  BY <1>c, Alone
<1>1. CASE ResetBaseline(w)
  <2>1. worker'[w].at = "succeed" /\ worker'[w].picked = worker[w].picked /\ Others(w)
    BY <1>t, <1>1, WentTo DEF ResetBaseline, Labels
  <2>2. disk.inputs = worker[w].picked /\ disk.memory = worker[w].picked
    BY <1>1, <1>a DEF InStep, ResetBaseline, At
  <2>3. baseline' = disk /\ disk # None /\ UNCHANGED global
    BY <1>t, <1>1, TreeNotNone DEF ResetBaseline, Phase2Rest, store
  <2>4. InStep(w)' /\ UntrackedConsolidated' /\ BaselineConsolidated'
    BY <1>t, <2>1, <2>2, <2>3 DEF InStep, UntrackedConsolidated, BaselineConsolidated
  <2> QED
    BY <1>t, <1>c, <1>1, <2>1, <2>3, <2>4, SameJobKeeps DEF Others, ResetBaseline, At
<1>e. CASE SucceedGlobal(w) \/ FailGlobal(w)
  <2>1. UNCHANGED baseline /\ ~ Consolidating(w)' /\ InStep(w)' /\ Others(w)
    BY <1>t, <1>e, WentIdle DEF SucceedGlobal, FailGlobal, fs
  <2>2. UntrackedConsolidated' /\ BaselineConsolidated'
    BY <1>t, <2>1 DEF ConsolidationInv, UntrackedConsolidated, BaselineConsolidated
  <2>3. DoneIsClean'
    <3>1. CASE SucceedGlobal(w)
      <4>1. disk = baseline /\ disk.inputs = worker[w].picked
        BY <1>a, <3>1 DEF InStep, SucceedGlobal, At
      <4>2. output' = Selecting(worker[w].picked)
        BY <1>a, <3>1 DEF SucceedGlobal
      <4>3. ASSUME NEW t \in Threads, output'[t] # None, output'[t].selected # 0
            PROVE  <<t, output'[t].selected>> \in worker[w].picked
        <5>1. output[t] # None /\ output[t] \in OutputRows
          BY <1>t, <4>2, <4>3 DEF Selecting, StoreOK
        <5>2. output'[t].selected = IF <<t, output[t].source>> \in worker[w].picked
                                    THEN output[t].source ELSE 0
          BY <4>2, <5>1 DEF Selecting, OutputRows
        <5> QED
          BY <4>3, <5>2
      <4> QED
        BY <1>t, <2>1, <4>1, <4>3 DEF DoneIsClean
    <3>2. CASE FailGlobal(w)
      BY <1>t, <1>a, <3>2, GlobalEnds DEF FailGlobal, OwnsGlobal, DoneIsClean
    <3> QED
      BY <1>e, <3>1, <3>2
  <2>4. LingeringAlone'
    <3>1. CASE SucceedGlobal(w)
      BY <1>t, <1>a, <3>1 DEF SucceedGlobal, At, LingeringAlone
    <3>2. CASE FailGlobal(w)
      <4>1. \A v \in Workers : ~ Consolidating(v)'
        BY <1>a, <2>1 DEF Others, Consolidating
      <4>2. global'.status # "done"
        BY <1>t, <1>a, <3>2, GlobalEnds DEF FailGlobal, OwnsGlobal
      <4> QED
        BY <1>t, <2>1, <4>1, <4>2 DEF ConsolidationInv, LingeringAlone
    <3> QED
      BY <1>e, <3>1, <3>2
  <2> QED
    BY <1>a, <2>1, <2>2, <2>3, <2>4, WorkKeeps DEF Others
<1> QED
  BY <1>1, <1>e

\* Deaths and failing steps.
LEMMA FaultConsolidates ==
    ASSUME ConsolidationInv, MTypeOK', ~ disturbed, NEW w \in Workers,
           Die(w) \/ StepFails(w) \/ DieInReset(w)
    PROVE  ConsolidationInv'
<1>t. /\ MTypeOK /\ UNCHANGED <<output, global, disturbed>>
      /\ lingering' \subseteq lingering
  BY DEF ConsolidationInv, Die, StepFails, DieInReset, store
<1>o. Others(w) /\ worker'[w].at \in {"failed", "idle"}
  BY <1>t, WentTo, WentIdle DEF Die, StepFails, DieInReset, Labels
<1>d. ~ At(w, "agent") /\ ~ At(w, "sync") => UNCHANGED disk
  BY <1>t, LeftTyped DEF Die, StepFails, DieInReset
<1>1. CASE Die(w) /\ ~ At(w, "agent") /\ ~ At(w, "sync")
  <2>1. UNCHANGED baseline /\ \A v \in Workers : Steady(v)
    BY <1>t, <1>1, WentIdle DEF Die, Steady, Others
  <2>2. GlobalSteady /\ SelectionSteady
    BY <1>t, EnqueuedSteady DEF SelectionSteady
  <2> QED
    BY <1>t, <1>1, <1>d, <2>1, <2>2, AsideKeeps DEF Aside
<1>2. CASE \/ StepFails(w) \/ DieInReset(w)
           \/ Die(w) /\ (At(w, "agent") \/ At(w, "sync"))
  <2>c. Consolidating(w) /\ ~ At(w, "failed")
    BY <1>2 DEF StepFails, DieInReset, At, Consolidating
  <2>a. InStep(w)
    BY <2>c, Alone
  <2>2. InStep(w)'
    BY <1>o DEF InStep
  <2>3. baseline' = baseline \/ ((baseline' = None \/ baseline' = disk) /\ At(w, "reset"))
    BY <1>2 DEF Die, StepFails, DieInReset
  <2>4. /\ At(w, "reset") => disk.memory = disk.inputs /\ UNCHANGED disk
        /\ At(w, "agent") \/ At(w, "sync") => baseline # None
    BY <1>d, <2>a DEF InStep, At
  <2>5. UntrackedConsolidated' /\ BaselineConsolidated'
    <3>1. CASE At(w, "agent") \/ At(w, "sync")
      <4>1. UNCHANGED baseline /\ baseline # None
        BY <2>3, <2>4, <3>1 DEF At
      <4> QED
        BY <1>t, <4>1 DEF ConsolidationInv, UntrackedConsolidated, BaselineConsolidated
    <3>2. CASE ~ At(w, "agent") /\ ~ At(w, "sync")
      BY <1>t, <1>d, <2>3, <2>4, <3>2
      DEF ConsolidationInv, UntrackedConsolidated, BaselineConsolidated
    <3> QED
      BY <3>1, <3>2
  <2> QED
    BY <1>t, <1>o, <2>c, <2>2, <2>5, SameJobKeeps DEF Others
<1> QED
  BY <1>1, <1>2

\* An agent that was given up writes while nobody relies on the workspace.
LEMMA LingeringConsolidates ==
    ASSUME ConsolidationInv, MTypeOK', ~ disturbed, NEW agent \in lingering,
           LingeringWorks(agent) \/ ShutdownAgent(agent)
    PROVE  ConsolidationInv'
<1>t. /\ MTypeOK /\ UNCHANGED <<output, global, worker, baseline, disturbed>>
      /\ lingering' \subseteq lingering
  BY DEF ConsolidationInv, LingeringWorks, ShutdownAgent, Phase2Rest, store
<1>1. /\ baseline # None
      /\ global # None => global.status # "done"
      /\ \A v \in Workers : Consolidating(v) => At(v, "failed")
  BY DEF ConsolidationInv, LingeringAlone
<1>2. ConsolidatorHolds' /\ LingeringAlone'
  BY <1>t, <1>1 DEF ConsolidationInv, ConsolidatorHolds, LingeringAlone, Consolidating,
                    OwnsGlobal, At
<1>3. WorkspaceInStep'
  BY <1>t, <1>1 DEF WorkspaceInStep, InStep, Consolidating, At
<1>4. UntrackedConsolidated' /\ BaselineConsolidated' /\ DoneIsClean'
  BY <1>t, <1>1 DEF ConsolidationInv, UntrackedConsolidated, BaselineConsolidated, DoneIsClean
<1> QED
  BY <1>2, <1>3, <1>4 DEF ConsolidationInv

\* Time and threads stand aside.
LEMMA StoodAside ==
    ASSUME ConsolidationInv, MTypeOK', UNCHANGED <<worker, disk, baseline, lingering>>,
           ~ disturbed' => ~ disturbed /\ GlobalSteady /\ SelectionSteady
    PROVE  ConsolidationInv'
<1>1. \A v \in Workers : Steady(v)
  BY DEF Steady
<1> QED
  BY <1>1, AsideKeeps DEF Aside

LEMMA ElapseConsolidates ==
    ASSUME ConsolidationInv, MTypeOK', Elapse
    PROVE  ConsolidationInv'
<1>t. MTypeOK /\ StoreOK
  BY DEF ConsolidationInv, MTypeOK
<1>s. UNCHANGED <<output, worker, disk, baseline, lingering>>
  BY DEF Elapse, Stage1LeaseExpires, Stage1BackoffElapses, GlobalLeaseExpires,
         GlobalDelayElapses, fs
<1>o. SelectionSteady
  BY <1>s DEF SelectionSteady
<1>1. ASSUME NEW t \in Threads, Stage1LeaseExpires(t) \/ Stage1BackoffElapses(t)
      PROVE  ConsolidationInv'
  <2>1. UNCHANGED <<global, disturbed>>
    BY <1>1 DEF Stage1LeaseExpires, Stage1BackoffElapses
  <2> QED
    BY <1>t, <1>s, <1>o, <2>1, EnqueuedSteady, StoodAside
<1>2. CASE GlobalLeaseExpires
  <2>1. SUFFICES ASSUME ~ disturbed' PROVE ~ disturbed /\ GlobalSteady
    BY <1>s, <1>o, StoodAside
  <2>2. ~ disturbed /\ ~ Consolidating(global.token)
    BY <1>2, <2>1 DEF GlobalLeaseExpires
  <2>3. \A v \in Workers : ~ (Consolidating(v) /\ OwnsGlobal(v))
    BY <2>2 DEF OwnsGlobal
  <2>4. global' # None => global'.status = global.status
    BY <1>t, <1>2, GlobalLeased DEF GlobalLeaseExpires
  <2> QED
    BY <1>2, <2>2, <2>3, <2>4 DEF GlobalSteady, GlobalLeaseExpires
<1>3. CASE GlobalDelayElapses
  <2>1. global \in GlobalRows /\ global # None /\ UNCHANGED disturbed
    BY <1>t, <1>3 DEF GlobalDelayElapses, StoreOK
  <2>2. /\ global' \in GlobalRows /\ global'.status = global.status
        /\ global'.token = global.token
    BY <1>3, <2>1 DEF GlobalDelayElapses, GlobalRows
  <2>3. global'.leased = global.leased
    <3>1. CASE global' = [global EXCEPT !.backoff = FALSE]
      BY <2>1, <3>1 DEF GlobalRows
    <3>2. CASE global' = [global EXCEPT !.recent = FALSE]
      BY <2>1, <3>2 DEF GlobalRows
    <3> QED
      BY <1>3, <3>1, <3>2 DEF GlobalDelayElapses
  <2>4. GlobalSteady
    BY <2>1, <2>2, <2>3, StoreAssumption DEF GlobalSteady, OwnsGlobal
  <2> QED
    BY <1>s, <1>o, <2>1, <2>4, StoodAside
<1> QED
  BY <1>1, <1>2, <1>3 DEF Elapse

LEMMA ThreadConsolidates ==
    ASSUME ConsolidationInv, MTypeOK', NEW t \in Threads, ThreadStep(t)
    PROVE  ConsolidationInv'
<1>t. MTypeOK /\ StoreOK
  BY DEF ConsolidationInv, MTypeOK
<1>1. UNCHANGED <<worker, disk, baseline, lingering, disturbed>>
  BY DEF ThreadStep, UpdateThread, PolluteRead, PolluteMark, PolluteEnqueue, DeleteThread,
         DeleteThreadMemory, fs
<1>2. global' = Enqueued \/ UNCHANGED global
  BY DEF ThreadStep, UpdateThread, PolluteRead, PolluteMark, PolluteEnqueue, DeleteThread,
         DeleteThreadMemory, store
<1>3. UNCHANGED output \/ output' = [output EXCEPT ![t] = None]
  BY DEF ThreadStep, UpdateThread, PolluteRead, PolluteMark, PolluteEnqueue, DeleteThread,
         DeleteThreadMemory, store
<1>4. SelectionSteady
  BY <1>t, <1>3 DEF SelectionSteady, StoreOK
<1> QED
  BY <1>t, <1>1, <1>2, <1>4, EnqueuedSteady, StoodAside

LEMMA ResetConsolidates ==
    ASSUME ConsolidationInv, MTypeOK', ~ disturbed', ClearMemoryData \/ ClearMemoryRoots
    PROVE  ConsolidationInv'
<1>1. CASE ClearMemoryData
  <2>1. ~ disturbed /\ UNCHANGED <<worker, disk, baseline, lingering>> /\ global' = None
    BY <1>1 DEF ClearMemoryData, fs
  <2>2. \A v \in Workers : ~ Consolidating(v)
    BY <1>1 DEF ClearMemoryData
  <2>3. GlobalSteady /\ SelectionSteady
    BY <1>1, <2>1, <2>2 DEF GlobalSteady, SelectionSteady, ClearMemoryData
  <2> QED
    BY <2>1, <2>3, StoodAside
<1>2. CASE ClearMemoryRoots
  <2>1. /\ ~ disturbed /\ UNCHANGED <<worker, global, lingering>> /\ lingering = {}
        /\ ~ (global # None /\ global.status # "pending")
    BY <1>2 DEF ClearMemoryRoots, store
  <2>2. \A v \in Workers : ~ Consolidating(v)
    BY <2>1 DEF ConsolidationInv, ConsolidatorHolds, OwnsGlobal
  <2>3. \A v \in Workers : ~ Consolidating(v)' /\ InStep(v)'
    BY <2>1, <2>2 DEF Consolidating, InStep
  <2>4. baseline' = None /\ disk'.inputs = None
    BY <1>2 DEF ClearMemoryRoots, EmptyTree
  <2> QED
    BY <2>1, <2>3, <2>4
    DEF ConsolidationInv, ConsolidatorHolds, WorkspaceInStep, LingeringAlone,
        UntrackedConsolidated, BaselineConsolidated, DoneIsClean
<1> QED
  BY <1>1, <1>2

\* Whatever has disturbed a consolidation stays remembered.
LEMMA StaysDisturbed ==
    ASSUME [MNext]_mvars, disturbed
    PROVE  disturbed'
<1>1. ASSUME NEW w \in Workers, Start(w) \/ Phase1Step(w) PROVE disturbed'
  BY <1>1 DEF Start, Phase1Step, Claimed, TryClaim, Succeeded, SucceededNoOutput,
              ExtractionFailed
<1>2. ASSUME NEW w \in Workers, Phase2Step(w) \/ Heartbeat(w) PROVE disturbed'
  BY <1>2 DEF Phase2Step, ClaimGlobal, Prepare, SelectKeys, LoadRows, SyncInputs, Diff,
              AgentCompleted, AgentErrored, Heartbeat, Confirm, ResetBaseline, SucceedGlobal,
              FailGlobal, Phase2Rest
<1>3. ASSUME NEW w \in Workers,
             HeartbeatFails(w) \/ Die(w) \/ StepFails(w) \/ DieInReset(w)
      PROVE  disturbed'
  BY <1>3 DEF HeartbeatFails, Die, StepFails, DieInReset
<1>8. ASSUME NEW agent \in lingering, LingeringWorks(agent) \/ ShutdownAgent(agent)
      PROVE  disturbed'
  BY <1>8 DEF LingeringWorks, ShutdownAgent, Phase2Rest
<1>4. CASE Elapse
  BY <1>4 DEF Elapse, Stage1LeaseExpires, Stage1BackoffElapses, GlobalLeaseExpires,
              GlobalDelayElapses
<1>5. ASSUME NEW t \in Threads, ThreadStep(t) PROVE disturbed'
  BY <1>5 DEF ThreadStep, UpdateThread, PolluteRead, PolluteMark, PolluteEnqueue,
              DeleteThread, DeleteThreadMemory
<1>6. CASE ClearMemoryData \/ ClearMemoryRoots
  BY <1>6 DEF ClearMemoryData, ClearMemoryRoots
<1>7. CASE UNCHANGED mvars
  BY <1>7 DEF mvars
<1> QED
  BY <1>1, <1>2, <1>3, <1>4, <1>5, <1>6, <1>7, <1>8 DEF MNext

LEMMA NextConsolidates ==
    ASSUME MInv, ConsolidationInv, [MNext]_mvars
    PROVE  ConsolidationInv'
<1>t. MTypeOK /\ MTypeOK'
  BY NextExtracts DEF MInv, Extracts
<1> SUFFICES ASSUME ~ disturbed' PROVE ConsolidationInv'
  BY <1>t, DisturbedKeeps
<1>d. ~ disturbed
  BY StaysDisturbed
<1>1. ASSUME NEW w \in Workers, Start(w) \/ Phase1Step(w) PROVE ConsolidationInv'
  BY <1>t, <1>d, <1>1, Phase1Aside, AsideKeeps
<1>2. ASSUME NEW w \in Workers, Phase2Step(w) \/ Heartbeat(w) \/ HeartbeatFails(w)
      PROVE  ConsolidationInv'
  BY <1>t, <1>d, <1>2, ClaimGlobalConsolidates, PreparationConsolidates, AgentConsolidates,
     EndConsolidates DEF Phase2Step
<1>3. ASSUME NEW w \in Workers, Die(w) \/ StepFails(w) \/ DieInReset(w)
      PROVE  ConsolidationInv'
  BY <1>t, <1>d, <1>3, FaultConsolidates
<1>8. ASSUME NEW agent \in lingering, LingeringWorks(agent) \/ ShutdownAgent(agent)
      PROVE  ConsolidationInv'
  BY <1>t, <1>d, <1>8, LingeringConsolidates
<1>4. CASE Elapse
  BY <1>t, <1>4, ElapseConsolidates
<1>5. ASSUME NEW t \in Threads, ThreadStep(t) PROVE ConsolidationInv'
  BY <1>t, <1>5, ThreadConsolidates
<1>6. CASE ClearMemoryData \/ ClearMemoryRoots
  BY <1>t, <1>6, ResetConsolidates
<1>7. CASE UNCHANGED mvars
  <2>1. UNCHANGED <<worker, disk, baseline, lingering, disturbed, global, output>>
    BY <1>7 DEF mvars, store, fs
  <2>2. GlobalSteady /\ SelectionSteady
    BY <1>t, <2>1, EnqueuedSteady DEF SelectionSteady
  <2> QED
    BY <1>t, <1>d, <2>1, <2>2, StoodAside
<1> QED
  BY <1>1, <1>2, <1>3, <1>4, <1>5, <1>6, <1>7, <1>8 DEF MNext

LEMMA InitConsolidates == MInit => ConsolidationInv
<1> SUFFICES ASSUME MInit PROVE ConsolidationInv
  OBVIOUS
<1>1. MTypeOK
  BY InitExtracts DEF MInv
<1>2. \A w \in Workers : worker[w].at = "idle"
  BY IdleTyped DEF MInit
<1>3. \A w \in Workers : ~ Consolidating(w) /\ InStep(w)
  BY <1>2 DEF Consolidating, InStep
<1>4. global = None /\ baseline = None /\ lingering = {} /\ disk.inputs = None
  BY DEF MInit, EmptyTree
<1> QED
  BY <1>1, <1>3, <1>4
  DEF ConsolidationInv, ConsolidatorHolds, WorkspaceInStep, LingeringAlone,
      UntrackedConsolidated, BaselineConsolidated, DoneIsClean

\* Unless it was disturbed, the session that consolidates holds the lease of the
\* global job and the workspace is what its step says it is, whoever dies where.
THEOREM ConsolidationSafe == MSpec => []ConsolidationInv
<1>1. MInit => ConsolidationInv
  BY InitConsolidates
<1>2. MInv /\ ConsolidationInv /\ [MNext]_mvars => ConsolidationInv'
  BY NextConsolidates
<1> QED
  BY <1>1, <1>2, ExtractionSafe, PTL DEF MSpec

\* Only one consolidation inspects or mutates the workspace at a time, unless a
\* session was suspended past its lease, a reset removed the job, or it began while
\* the agent of a failed job had still to be shut down (phase2.rs).
THEOREM ConsolidationsExclude == MSpec => []OneConsolidation
<1>1. ConsolidationInv => OneConsolidation
  BY DEF ConsolidationInv, ConsolidatorHolds, OwnsGlobal, OneConsolidation
<1> QED
  BY <1>1, ConsolidationSafe, PTL

\* Inputs never become the git baseline before the agent has dealt with them,
\* whichever session dies or fails at whichever step of phase 2.
THEOREM BaselinesConsolidated == MSpec => []BaselineConsolidated
<1>1. ConsolidationInv => BaselineConsolidated
  BY DEF ConsolidationInv
<1> QED
  BY <1>1, ConsolidationSafe, PTL

\* When the job is done the workspace is clean and exactly the snapshots consumed
\* are marked as selected (mark_global_phase2_job_succeeded).
THEOREM DoneLeavesClean == MSpec => []DoneIsClean
<1>1. ConsolidationInv => DoneIsClean
  BY DEF ConsolidationInv
<1> QED
  BY <1>1, ConsolidationSafe, PTL
=============================================================================
