----------------------------- MODULE ExecProcess -----------------------------
(***************************************************************************)
(* One process of exec-server/src/local_process.rs, from exec to the end   *)
(* of its retention.  Three tasks watch the child: one per output stream   *)
(* (stream_output) and one for the exit (watch_exit).  Each takes the next *)
(* sequence number under the lock of the process map, and after unlocking  *)
(* wakes the readers and sends its notification, so notifications leave in *)
(* another order than their numbers.                                       *)
(***************************************************************************)
EXTENDS Naturals, Sequences, FiniteSetsExt

CONSTANTS
    ChunkLens,   \* sizes of the chunks the child writes
    Retained,    \* RETAINED_OUTPUT_BYTES_PER_PROCESS
    MaxBytes,    \* max_bytes of the reader
    MaxChunks,   \* bound on the chunks of one process
    None

ASSUME ExecAssumption ==
    /\ ChunkLens \subseteq Nat \ {0}
    /\ Retained \in Nat /\ MaxBytes \in Nat /\ MaxChunks \in Nat
    /\ None \notin [seq : Nat, kind : {"output", "exited", "closed"}]

Streams == {"stdout", "stderr"}

Tasks == Streams \cup {"exit"}

VARIABLES
    entry,     \* the entry of the process map
    process,   \* RunningProcess
    events,    \* every event numbered so far (ExecProcessEventLog, unbounded)
    task       \* the three tasks that watch the child

pvars == <<entry, process, events, task>>

Events == [seq : Nat, kind : {"output", "exited", "closed"}]

Chunks == [seq : Nat, len : ChunkLens]

\* "abandoned": Starting, and the request that would finish the start is gone.
ProcessEntry == {"none", "starting", "abandoned", "running", "removed"}

PTypeOK ==
    /\ entry \in ProcessEntry
    /\ process \in [next_seq : Nat, output : SUBSET Chunks, exited : BOOLEAN,
                    open_streams : 0 .. 2, closed : BOOLEAN, killed : BOOLEAN]
    /\ events \in Seq(Events)
    /\ task \in [Tasks -> [at   : {"idle", "receive", "send", "finish", "close", "done"},
                           note : Events \cup {None}]]

RunningProcess ==
    [next_seq |-> 1, output |-> {}, exited |-> FALSE,
     open_streams |-> 2, closed |-> FALSE, killed |-> FALSE]

PInit ==
    /\ entry = "none"
    /\ process = RunningProcess
    /\ events = <<>>
    /\ task = [t \in Tasks |-> [at |-> "idle", note |-> None]]

-----------------------------------------------------------------------------
\* start_process: the id is reserved, the child spawned outside the lock.

StartProcess ==
    /\ entry = "none"
    /\ entry' = "starting"
    /\ UNCHANGED <<process, events, task>>

Spawned ==
    /\ entry = "starting"
    /\ entry' = "running"
    /\ process' = RunningProcess
    /\ task' = [t \in Tasks |-> [at |-> "receive", note |-> None]]
    /\ UNCHANGED events

SpawnFailed ==
    /\ entry = "starting"
    /\ entry' = "none"
    /\ UNCHANGED <<process, events, task>>

\* The processor drops the request when the transport disconnects; the child,
\* if there is one, is killed as its handle is dropped.
StartDropped ==
    /\ entry = "starting"
    /\ entry' = "abandoned"
    /\ UNCHANGED <<process, events, task>>

-----------------------------------------------------------------------------
\* The tasks.

Bytes(chunks) == MapThenSumSet(LAMBDA c : c.len, chunks)

\* Mutant: pop_back.
Mutant_EvictNewest(output) ==
    {c \in output : \E last \in output :
        c.seq <= last.seq /\ Bytes({d \in output : d.seq <= last.seq}) <= Retained}

\* pop_front while retained_bytes is over the limit: what stays starts with the
\* first chunk from which on everything fits.
Evict(output) ==
    {c \in output : \E first \in output :
        first.seq <= c.seq /\ Bytes({d \in output : d.seq >= first.seq}) <= Retained}

At(t, label) == task[t].at = label

GoTo(t, label) == task' = [task EXCEPT ![t] = [at |-> label, note |-> None]]

\* Under the lock: the event gets the next number and is published.
Emit(t, kind, changed) ==
    LET event == [seq |-> process.next_seq, kind |-> kind]
    IN  /\ process' = [changed EXCEPT !.next_seq = @ + 1]
        /\ events' = Append(events, event)
        /\ task' = [task EXCEPT ![t] = [at |-> "send", note |-> event]]

ReceiveChunk(t, len) ==
    /\ At(t, "receive") /\ t \in Streams
    /\ Cardinality({i \in DOMAIN events : events[i].kind = "output"}) < MaxChunks
    /\ \/ /\ entry = "running"
          /\ Emit(t, "output",
                  [process EXCEPT !.output =
                      Evict(@ \cup {[seq |-> process.next_seq, len |-> len]})])
       \/ /\ entry # "running"
          /\ GoTo(t, "finish")
          /\ UNCHANGED <<process, events>>
    /\ UNCHANGED entry

EndOfStream(t) ==
    /\ At(t, "receive") /\ t \in Streams
    /\ GoTo(t, "finish")
    /\ UNCHANGED <<entry, process, events>>

WatchExit ==
    /\ At("exit", "receive")
    /\ \/ /\ entry = "running"
          /\ Emit("exit", "exited", [process EXCEPT !.exited = TRUE])
       \/ /\ entry # "running"
          /\ GoTo("exit", "close")
          /\ UNCHANGED <<process, events>>
    /\ UNCHANGED entry

\* notify_waiters, then the notification: what both do is up to the readers and
\* the connection that a module extending this one adds.
Notify(t) ==
    /\ At(t, "send")
    /\ GoTo(t, CASE task[t].note.kind = "output" -> "receive"
                 [] task[t].note.kind = "exited" -> "close"
                 [] task[t].note.kind = "closed" -> "done")
    /\ UNCHANGED <<entry, process, events>>

FinishOutputStream(t) ==
    /\ At(t, "finish")
    /\ \/ /\ entry = "running"
          /\ process' = [process EXCEPT !.open_streams = IF @ > 0 THEN @ - 1 ELSE @]
          /\ GoTo(t, "close")
       \/ /\ entry # "running"
          /\ GoTo(t, "done")
          /\ UNCHANGED process
    /\ UNCHANGED <<entry, events>>

\* Mutant: closed as soon as the child has exited.
Mutant_CloseOnExit ==
    ~ process.closed /\ process.exited

MayClose ==
    ~ process.closed /\ process.open_streams = 0 /\ process.exited

\* Mutant: only the exit is followed by a close.
Mutant_ExitCloses(t) ==
    /\ At(t, "close")
    /\ \/ /\ entry = "running" /\ MayClose /\ t = "exit"
          /\ Emit(t, "closed", [process EXCEPT !.closed = TRUE])
       \/ /\ ~ (entry = "running" /\ MayClose /\ t = "exit")
          /\ GoTo(t, "done")
          /\ UNCHANGED <<process, events>>
    /\ UNCHANGED entry

MaybeEmitClosed(t) ==
    /\ At(t, "close")
    /\ \/ /\ entry = "running" /\ MayClose
          /\ Emit(t, "closed", [process EXCEPT !.closed = TRUE])
       \/ /\ ~ (entry = "running" /\ MayClose)
          /\ GoTo(t, "done")
          /\ UNCHANGED <<process, events>>
    /\ UNCHANGED entry

\* EXITED_PROCESS_RETENTION after the close.
Cleanup ==
    /\ entry = "running" /\ process.closed
    /\ entry' = "removed"
    /\ UNCHANGED <<process, events, task>>

\* Killing the child aborts what feeds the streams and the exit: they end, once
\* the chunks in their channels are received.
TerminateProcess ==
    /\ entry = "running" /\ ~ process.exited /\ ~ process.killed
    /\ process' = [process EXCEPT !.killed = TRUE]
    /\ UNCHANGED <<entry, events, task>>

\* shutdown drains the map and kills what runs.
Shutdown ==
    /\ entry \in {"abandoned", "running"}
    /\ entry' = "removed"
    /\ process' = [process EXCEPT !.killed = (entry = "running")]
    /\ UNCHANGED <<events, task>>

-----------------------------------------------------------------------------
\* exec_read, in pages of at most MaxBytes (one chunk at least).

Fresh(after_seq) == {c \in process.output : c.seq > after_seq}

Page(after_seq) ==
    {c \in Fresh(after_seq) :
        \/ \A d \in Fresh(after_seq) : c.seq <= d.seq
        \/ \E last \in Fresh(after_seq) :
            /\ c.seq <= last.seq
            /\ Bytes({d \in Fresh(after_seq) : d.seq <= last.seq}) <= MaxBytes}

\* Mutant: the page ends where the process is, not where the page does.
Mutant_NextSeqOfProcess(after_seq) == process.next_seq

NextSeq(after_seq) ==
    IF Page(after_seq) = {} THEN process.next_seq
    ELSE Max({c.seq : c \in Page(after_seq)}) + 1

\* The last conjunct of the disjunction is has_new_terminal_event.
HasNews(after_seq) ==
    \/ Page(after_seq) # {}
    \/ process.closed
    \/ process.exited /\ after_seq + 1 < NextSeq(after_seq)

-----------------------------------------------------------------------------
\* Before the child is spawned, and if it never is, nothing happens; then the
\* three tasks watch it.
Unstarted ==
    /\ entry \in {"none", "starting", "abandoned"} =>
        /\ process = RunningProcess
        /\ events = <<>>
        /\ \A t \in Tasks : task[t] = [at |-> "idle", note |-> None]
    /\ entry = "running" => \A t \in Tasks : task[t].at # "idle"

\* Events carry their positions as numbers, and output the numbers of its events.
Numbered ==
    /\ process.next_seq = Len(events) + 1
    /\ \A i \in DOMAIN events : events[i].seq = i
    /\ \A c \in process.output : c.seq < process.next_seq

\* The exit and the close are recorded where their events are numbered.
KindsRecorded ==
    /\ process.exited <=> \E i \in DOMAIN events : events[i].kind = "exited"
    /\ process.closed <=> \E i \in DOMAIN events : events[i].kind = "closed"

\* Output may still come of a stream.
Open(t) ==
    \/ task[t].at \in {"receive", "finish"}
    \/ task[t].at = "send" /\ task[t].note.kind = "output"

StreamsCounted ==
    entry = "running" =>
        process.open_streams = (IF Open("stdout") THEN 1 ELSE 0) + (IF Open("stderr") THEN 1 ELSE 0)

IsEvent(e) == e.seq \in DOMAIN events /\ events[e.seq] = e

\* A task sends the event it has numbered, each task its own kinds.
NotesAreEvents ==
    /\ \A t \in Tasks :
        /\ task[t].note # None <=> task[t].at = "send"
        /\ task[t].note # None => IsEvent(task[t].note)
    /\ task["exit"].at # "finish"
    /\ task["exit"].at = "receive" => ~ process.exited
    /\ task["exit"].at = "send" => task["exit"].note.kind # "output"
    /\ \A t \in Streams : task[t].at = "send" => task[t].note.kind # "exited"

\* A close is the last event, comes once the child has exited and both streams
\* have ended, and finds every task past its last chunk.
ClosedIsLast ==
    process.closed =>
        /\ events[Len(events)].kind = "closed"
        /\ process.exited
        /\ \A t \in Streams : task[t].at \in {"close", "send", "done"} /\ ~ Open(t)

\* Eviction drops the oldest output: what is retained is the tail of what was
\* written, so a reader that keeps up within the limit misses nothing.
RetainsTail ==
    \A i \in DOMAIN events :
        \A c \in process.output :
            events[i].kind = "output" /\ c.seq < i
                => \E d \in process.output : d.seq = i

\* The invariant of the process and the tasks that watch it.
PInv ==
    /\ PTypeOK
    /\ Unstarted
    /\ Numbered
    /\ KindsRecorded
    /\ StreamsCounted
    /\ NotesAreEvents
    /\ ClosedIsLast
    /\ RetainsTail
=============================================================================
