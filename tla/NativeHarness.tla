----------------------------- MODULE NativeHarness -----------------------------
(***************************************************************************)
(* The command sessions of the MCP harness (native-harness-mcp/src/lib.rs): *)
(* exec_command starts a process of the local exec backend and returns its  *)
(* first output, write_stdin returns what came since.  The map of sessions  *)
(* keeps the position of each session; a call copies it, reads without the  *)
(* map's lock, and takes the lock again to store the new position.          *)
(***************************************************************************)
EXTENDS ExecProcess

CONSTANT Callers      \* concurrent tool calls

VARIABLES
    command,     \* the entry of the process in NativeHarness.processes
    call,        \* tool calls in flight
    delivered    \* numbers of the chunks that tool results have carried

hvars == <<pvars, command, call, delivered>>

Idle == [at |-> "idle", after_seq |-> 0, next_seq |-> 0, exited |-> FALSE]

HTypeOK ==
    /\ PTypeOK
    /\ command \in [open : BOOLEAN, next_seq : Nat]
    /\ call \in [Callers -> [at : {"idle", "exec", "poll", "exec_store", "poll_store"},
                             after_seq : Nat, next_seq : Nat, exited : BOOLEAN]]
    /\ delivered \in SUBSET Nat

HInit ==
    /\ PInit
    /\ command = [open |-> FALSE, next_seq |-> 0]
    /\ call = [c \in Callers |-> Idle]
    /\ delivered = {}

ExecCommand(c) ==
    /\ call[c] = Idle
    /\ StartProcess
    /\ call' = [call EXCEPT ![c].at = "exec"]
    /\ UNCHANGED <<command, delivered>>

StartFails(c) ==
    /\ call[c].at = "exec"
    /\ SpawnFailed
    /\ call' = [call EXCEPT ![c] = Idle]
    /\ UNCHANGED <<command, delivered>>

WriteStdin(c) ==
    /\ call[c] = Idle
    /\ command.open
    /\ call' = [call EXCEPT ![c] = [Idle EXCEPT !.at = "poll",
                                               !.after_seq = command.next_seq]]
    /\ UNCHANGED <<pvars, command, delivered>>

\* read_process: news, or the end of yield_time_ms.  An unknown process id ends
\* the call and leaves the session.
ReadProcess(c) ==
    /\ call[c].at \in {"exec", "poll"}
    /\ entry \in {"running", "removed"}
    /\ IF entry = "running"
       THEN /\ call' = [call EXCEPT ![c] =
                          [at        |-> IF @.at = "exec" THEN "exec_store" ELSE "poll_store",
                           after_seq |-> @.after_seq,
                           next_seq  |-> NextSeq(@.after_seq),
                           exited    |-> process.exited]]
            /\ delivered' = delivered \cup {k.seq : k \in Page(call[c].after_seq)}
       ELSE call' = [call EXCEPT ![c] = Idle] /\ UNCHANGED delivered
    /\ UNCHANGED <<pvars, command>>

\* The session is kept while the child has not exited.
StoreSession(c) ==
    /\ call[c].at \in {"exec_store", "poll_store"}
    /\ command' =
          IF call[c].exited THEN [command EXCEPT !.open = FALSE]
          ELSE IF call[c].at = "exec_store" \/ command.open
          THEN [open |-> TRUE, next_seq |-> call[c].next_seq]
          ELSE command
    /\ call' = [call EXCEPT ![c] = Idle]
    /\ UNCHANGED <<pvars, delivered>>

HNext ==
    \/ \E c \in Callers :
        ExecCommand(c) \/ StartFails(c) \/ WriteStdin(c) \/ ReadProcess(c) \/ StoreSession(c)
    \/ /\ \/ Spawned \/ Cleanup
          \/ \E t \in Streams : EndOfStream(t) \/ \E len \in ChunkLens : ReceiveChunk(t, len)
          \/ WatchExit
          \/ \E t \in Tasks : FinishOutputStream(t) \/ MaybeEmitClosed(t) \/ Notify(t)
       /\ UNCHANGED <<command, call, delivered>>

HSpec == HInit /\ [][HNext]_hvars

-----------------------------------------------------------------------------
\* Polling a session gives its client the output of the command: what lies at or
\* before the position that the next poll starts after has been delivered, or
\* has been evicted, when no call is in flight.
PollsDeliver ==
    command.open /\ (\A c \in Callers : call[c] = Idle) =>
        \A k \in process.output : k.seq <= command.next_seq => k.seq \in delivered
=============================================================================
