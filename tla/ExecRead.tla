------------------------------- MODULE ExecRead -------------------------------
(***************************************************************************)
(* LocalProcess::exec_read (exec-server/src/local_process.rs): a client     *)
(* pages through the retained output while the tasks of ExecProcess number, *)
(* retain and evict it.  It asks for the next page after next_seq - 1, as   *)
(* recover_lagged_events of rmcp-client does, until the process is closed.  *)
(***************************************************************************)
EXTENDS ExecProcess

VARIABLE
    reader     \* the call in flight, the position, and the chunks returned

rvars == <<pvars, reader>>

RTypeOK ==
    /\ PTypeOK
    /\ reader \in [at : {"idle", "check", "unlocked", "waiting", "expired", "done"},
                   after_seq : Nat, got : SUBSET Nat]

RInit ==
    /\ PInit
    /\ reader = [at |-> "idle", after_seq |-> 0, got |-> {}]

ReadCall ==
    /\ reader.at = "idle"
    /\ reader' = [reader EXCEPT !.at = "check"]
    /\ UNCHANGED pvars

\* Under the lock: an unknown or a starting id is an error; the page is
\* returned when there is news or the time is up.
ReadCheck ==
    /\ reader.at \in {"check", "expired"}
    /\ reader' =
          IF entry # "running" THEN [reader EXCEPT !.at = "done"]
          ELSE IF HasNews(reader.after_seq) \/ reader.at = "expired"
          THEN [at        |-> IF process.closed /\ Page(reader.after_seq) = {}
                              THEN "done" ELSE "idle",
                after_seq |-> NextSeq(reader.after_seq) - 1,
                got       |-> reader.got \cup {c.seq : c \in Page(reader.after_seq)}]
          ELSE [reader EXCEPT !.at = "unlocked"]
    /\ UNCHANGED pvars

\* notified() is called after the unlock: what is notified before is missed.
ReadWait ==
    /\ reader.at = "unlocked"
    /\ reader' = [reader EXCEPT !.at = "waiting"]
    /\ UNCHANGED pvars

\* Mutant: no deadline, the reader relies on being woken.
Mutant_NoDeadline == FALSE /\ UNCHANGED rvars

ReadDeadline ==
    /\ reader.at \in {"unlocked", "waiting"}
    /\ reader' = [reader EXCEPT !.at = "expired"]
    /\ UNCHANGED pvars

\* notify_waiters wakes who waits now and leaves no permit for who comes later.
Woken == reader' = [reader EXCEPT !.at = IF @ = "waiting" THEN "check" ELSE @]

Tasking(t) ==
    \/ (\E len \in ChunkLens : ReceiveChunk(t, len)) /\ UNCHANGED reader
    \/ EndOfStream(t) /\ UNCHANGED reader
    \/ t = "exit" /\ WatchExit /\ IF entry = "running" THEN UNCHANGED reader ELSE Woken
    \/ FinishOutputStream(t) /\ UNCHANGED reader
    \/ MaybeEmitClosed(t) /\ UNCHANGED reader
    \/ Notify(t) /\ Woken

Backend ==
    /\ \/ StartProcess \/ Spawned \/ SpawnFailed \/ StartDropped
       \/ Cleanup \/ TerminateProcess \/ Shutdown
    /\ UNCHANGED reader

RNext ==
    \/ ReadCall \/ ReadCheck \/ ReadWait \/ ReadDeadline
    \/ Backend
    \/ \E t \in Tasks : Tasking(t)

(***************************************************************************)
(* Tokio runs every task that can run and fires timers; the streams and    *)
(* the exit of a killed child end.  Nothing is assumed of other children.  *)
(***************************************************************************)
RFairness ==
    /\ WF_rvars(ReadCheck) /\ WF_rvars(ReadDeadline)
    /\ \A t \in Tasks :
        /\ WF_rvars(Notify(t) /\ Woken)
        /\ WF_rvars((FinishOutputStream(t) \/ MaybeEmitClosed(t)) /\ UNCHANGED reader)
        /\ WF_rvars(process.killed /\ Tasking(t))

RSpec == RInit /\ [][RNext]_rvars /\ RFairness

-----------------------------------------------------------------------------
\* Paging loses nothing: what is still retained and lies before the reader's
\* position was returned to it, whatever was numbered, evicted or notified
\* between two pages.
NothingSkipped ==
    \A c \in process.output : c.seq <= reader.after_seq => c.seq \in reader.got

\* The invariant of the process and of its reader: events numbered, streams
\* counted, closed by the last event, retaining the tail of the output, and read
\* up to a number that was given.
RInv ==
    /\ RTypeOK
    /\ PInv
    /\ reader.after_seq < process.next_seq

\* A killed process closes: the three tasks end in any order, whoever is last
\* closes it, and none of them waits for another.
KilledCloses ==
    process.killed /\ entry = "running" ~> process.closed \/ entry = "removed"

\* A read returns, although a notification that comes between the unlock and
\* the wait is missed: the deadline bounds it.
ReadsReturn == reader.at = "check" ~> reader.at \in {"idle", "done"}
=============================================================================
