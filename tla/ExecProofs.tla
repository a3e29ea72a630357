------------------------------ MODULE ExecProofs ------------------------------
(***************************************************************************)
(* Proofs about a process of the exec server, for any chunks, limits and    *)
(* interleavings: PInv is inductive for the process and its three tasks,    *)
(* RInv for a reader that pages through the output, CInv for the session of *)
(* a remote client, which implements EventStream.                           *)
(***************************************************************************)
EXTENDS ExecRead, ExecServerClient, SequenceTheorems, WellFoundedInduction, TLAPS

-----------------------------------------------------------------------------
(* Numbers: sets of naturals have a least element and, if bounded, a        *)
(* greatest.                                                                *)

LEMMA Least ==
    ASSUME NEW S \in SUBSET Nat, S # {}
    PROVE  \E x \in S : \A y \in S : x <= y
<1>1. PICK x \in S : \A y \in S : ~ (<<y, x>> \in OpToRel(<, Nat))
  BY NatLessThanWellFounded, WFMin
<1>2. \A y \in S : ~ (y < x)
  BY <1>1 DEF OpToRel
<1> QED
  BY <1>2

LEMMA Greatest ==
    ASSUME NEW S \in SUBSET Nat, S # {}, NEW n \in Nat, \A x \in S : x <= n
    PROVE  \E x \in S : \A y \in S : x >= y
<1>1. {n - x : x \in S} \in SUBSET Nat /\ {n - x : x \in S} # {}
  <2>1. \A x \in S : n - x \in Nat
    OBVIOUS
  <2>2. PICK x : x \in S
    OBVIOUS
  <2> QED
    BY <2>1, <2>2
<1>2. PICK d \in {n - x : x \in S} : \A e \in {n - x : x \in S} : d <= e
  BY <1>1, Least
<1>3. PICK x \in S : d = n - x
  BY <1>2
<1>4. \A y \in S : n - x <= n - y
  BY <1>2, <1>3
<1> QED
  BY <1>4

-----------------------------------------------------------------------------
(* What the steps of a task do to the tasks and to the events.              *)

TaskStates ==
    [at : {"idle", "receive", "send", "finish", "close", "done"}, note : Events \cup {None}]

TaskBecomes(t, s) ==
    /\ task' \in [Tasks -> TaskStates]
    /\ task'[t] = s
    /\ \A u \in Tasks : u # t => task'[u] = task[u]

LEMMA TaskGoes ==
    ASSUME PTypeOK, NEW t \in Tasks, NEW label \in {"receive", "finish", "close", "done"},
           GoTo(t, label)
    PROVE  \E s : TaskBecomes(t, s) /\ s.at = label /\ s.note = None
<1>1. PICK s : s = [at |-> label, note |-> None]
  OBVIOUS
<1>2. s \in TaskStates /\ s.at = label /\ s.note = None
  BY <1>1 DEF TaskStates
<1>3. task' = [task EXCEPT ![t] = s]
  BY <1>1 DEF GoTo
<1>4. task \in [Tasks -> TaskStates]
  BY DEF PTypeOK, TaskStates
<1> QED
  BY <1>2, <1>3, <1>4 DEF TaskBecomes

\* An event is numbered, and nothing numbered before changes.
Numbers(kind) ==
    /\ events' \in Seq(Events)
    /\ Len(events') = Len(events) + 1
    /\ \A i \in DOMAIN events : events'[i] = events[i]
    /\ DOMAIN events' = DOMAIN events \cup {Len(events) + 1}
    /\ Len(events) + 1 \notin DOMAIN events
    /\ events'[Len(events) + 1].seq = Len(events) + 1
    /\ events'[Len(events) + 1].kind = kind

\* What it is given as its task's note.
Notes(t, kind) ==
    \E s : /\ TaskBecomes(t, s) /\ s.at = "send" /\ s.note # None
           /\ s.note = events'[Len(events) + 1] /\ s.note.kind = kind
           /\ s.note.seq = Len(events) + 1

ProcessRows ==
    [next_seq : Nat, output : SUBSET Chunks, exited : BOOLEAN,
     open_streams : 0 .. 2, closed : BOOLEAN, killed : BOOLEAN]

LEMMA Emits ==
    ASSUME PTypeOK, Numbered, NEW t \in Tasks, NEW kind \in {"output", "exited", "closed"},
           NEW changed \in ProcessRows, changed.next_seq = process.next_seq,
           Emit(t, kind, changed)
    PROVE  /\ Numbers(kind) /\ Notes(t, kind)
           /\ process' \in ProcessRows
           /\ process'.next_seq = Len(events') + 1
           /\ process'.output = changed.output /\ process'.exited = changed.exited
           /\ process'.open_streams = changed.open_streams
           /\ process'.closed = changed.closed
<1>1. PICK e : e = [seq |-> process.next_seq, kind |-> kind]
  OBVIOUS
<1>0. process.next_seq \in Nat /\ events \in Seq(Events)
  BY DEF PTypeOK
<1>2. e \in Events /\ e.kind = kind /\ e.seq = Len(events) + 1 /\ e # None
  BY <1>0, <1>1, ExecAssumption DEF Events, Numbered
<1>3. events' = Append(events, e)
  BY <1>1 DEF Emit
<1>4. Numbers(kind)
  BY <1>0, <1>2, <1>3 DEF Numbers
<1>5. events'[Len(events) + 1] = e
  BY <1>0, <1>2, <1>3
<1>6. PICK s : s = [at |-> "send", note |-> e]
  OBVIOUS
<1>7. s \in TaskStates /\ s.at = "send" /\ s.note = e
  BY <1>2, <1>6 DEF TaskStates
<1>8. task' = [task EXCEPT ![t] = s] /\ task \in [Tasks -> TaskStates]
  BY <1>1, <1>6 DEF Emit, PTypeOK, TaskStates
<1>9. TaskBecomes(t, s)
  BY <1>7, <1>8 DEF TaskBecomes
<1>10. Notes(t, kind)
  BY <1>2, <1>5, <1>7, <1>9 DEF Notes
<1>11. process' = [changed EXCEPT !.next_seq = changed.next_seq + 1]
  BY DEF Emit
<1>12. process.next_seq + 1 \in Nat /\ process.next_seq + 1 = Len(events') + 1
  BY <1>0, <1>4 DEF Numbers, Numbered
<1>13. /\ process' \in ProcessRows
       /\ process'.next_seq = Len(events') + 1
       /\ process'.output = changed.output
       /\ process'.open_streams = changed.open_streams
  BY <1>11, <1>12 DEF ProcessRows
<1>14. process'.exited = changed.exited /\ process'.closed = changed.closed
  BY <1>11 DEF ProcessRows
<1> QED
  BY <1>4, <1>10, <1>13, <1>14

\* An event of the process after the step: every event of it before, and the new one.
WillBeEvent(e) == e.seq \in DOMAIN events' /\ events'[e.seq] = e

LEMMA StaysEvent ==
    ASSUME NEW kind, Numbers(kind), NEW e, IsEvent(e)
    PROVE  WillBeEvent(e)
BY DEF Numbers, IsEvent, WillBeEvent

-----------------------------------------------------------------------------
(* The process and its tasks.                                               *)

\* Tasks that do something are those of a child that was spawned.
LEMMA Spawnedness ==
    ASSUME PInv, NEW t \in Tasks, task[t].at # "idle"
    PROVE  entry \in {"running", "removed"}
<1>1. CASE entry \in {"none", "starting", "abandoned"}
  <2>1. task[t] = [at |-> "idle", note |-> None]
    BY <1>1 DEF PInv, Unstarted
  <2>2. task[t].at = "idle"
    BY <2>1
  <2> QED
    BY <2>2
<1> QED
  BY <1>1 DEF PInv, PTypeOK, ProcessEntry

SameProcess ==
    /\ process' \in ProcessRows
    /\ process'.next_seq = process.next_seq /\ process'.output = process.output
    /\ process'.exited = process.exited /\ process'.closed = process.closed

\* A task that numbers nothing.
LEMMA GoKeeps ==
    ASSUME PInv, NEW t \in Tasks, NEW s, TaskBecomes(t, s), s.note = None,
           s.at \in {"receive", "finish", "close", "done"},
           UNCHANGED <<entry, events>>, SameProcess,
           entry \in {"running", "removed"},
           t = "exit" => s.at \in {"close", "done"},
           process.closed => s.at \in {"close", "done"},
           StreamsCounted'
    PROVE  PInv'
<1>1. PTypeOK'
  BY DEF PInv, PTypeOK, TaskBecomes, TaskStates, SameProcess, ProcessRows
<1>2. Unstarted' /\ Numbered' /\ KindsRecorded' /\ RetainsTail'
  <2>1. Unstarted'
    BY DEF PInv, Unstarted, TaskBecomes
  <2> QED
    BY <2>1 DEF PInv, Numbered, KindsRecorded, RetainsTail, SameProcess
<1>3. NotesAreEvents'
  BY DEF PInv, NotesAreEvents, IsEvent, TaskBecomes, SameProcess, Tasks, Streams
<1>4. ClosedIsLast'
  <2> SUFFICES ASSUME process'.closed, NEW u \in Streams
               PROVE  /\ events'[Len(events')].kind = "closed" /\ process'.exited
                      /\ task'[u].at \in {"close", "send", "done"} /\ ~ Open(u)'
    BY DEF ClosedIsLast, Streams
  <2>1. /\ events[Len(events)].kind = "closed" /\ process.exited /\ process.closed
        /\ task[u].at \in {"close", "send", "done"} /\ ~ Open(u)
    BY DEF PInv, ClosedIsLast, SameProcess
  <2>2. u \in Tasks
    BY DEF Tasks
  <2>3. task'[u].at \in {"close", "send", "done"} /\ ~ Open(u)'
    BY <2>1, <2>2 DEF TaskBecomes, Open
  <2> QED
    BY <2>1, <2>3 DEF SameProcess
<1> QED
  BY <1>1, <1>2, <1>3, <1>4 DEF PInv

\* Going on without closing or opening a stream, the process untouched.
LEMMA GoSame ==
    ASSUME PInv, NEW t \in Tasks, NEW label \in {"receive", "finish", "close", "done"},
           GoTo(t, label), UNCHANGED <<entry, process, events>>,
           task[t].at # "idle",
           t = "exit" => label \in {"close", "done"},
           process.closed => label \in {"close", "done"},
           entry = "running" /\ t \in Streams => (Open(t) <=> label \in {"receive", "finish"})
    PROVE  PInv'
<1>1. PICK s : TaskBecomes(t, s) /\ s.at = label /\ s.note = None
  BY TaskGoes DEF PInv
<1>2. SameProcess
  BY DEF PInv, PTypeOK, SameProcess, ProcessRows
<1>3. entry \in {"running", "removed"}
  BY Spawnedness
<1>4. ASSUME NEW u \in Streams, entry = "running" PROVE Open(u)' <=> Open(u)
  <2>1. u \in Tasks
    BY DEF Tasks
  <2>2. CASE u = t
    BY <1>1, <1>4, <2>2 DEF TaskBecomes, Open
  <2>3. CASE u # t
    BY <1>1, <2>1, <2>3 DEF TaskBecomes, Open
  <2> QED
    BY <2>2, <2>3
<1>5. StreamsCounted'
  BY <1>4 DEF PInv, StreamsCounted, Streams
<1> QED
  BY <1>1, <1>2, <1>3, <1>5, GoKeeps

LEMMA EndOfStreamKeeps ==
    ASSUME PInv, NEW t \in Tasks,
           \/ EndOfStream(t)
           \/ \E len \in ChunkLens : ReceiveChunk(t, len) /\ entry # "running"
    PROVE  PInv'
<1>1. /\ task[t].at = "receive" /\ t \in Streams /\ GoTo(t, "finish")
      /\ UNCHANGED <<entry, process, events>>
  BY DEF EndOfStream, ReceiveChunk, At
<1>2. Open(t) /\ ~ process.closed /\ t # "exit"
  BY <1>1 DEF Open, PInv, ClosedIsLast, Streams
<1> QED
  BY <1>1, <1>2, GoSame

LEMMA NoExitKeeps ==
    ASSUME PInv, WatchExit, entry # "running"
    PROVE  PInv'
<1>1. /\ task["exit"].at = "receive" /\ GoTo("exit", "close")
      /\ UNCHANGED <<entry, process, events>>
  BY DEF WatchExit, At
<1> QED
  BY <1>1, GoSame DEF Tasks, Streams

LEMMA NotifyKeeps ==
    ASSUME PInv, NEW t \in Tasks, Notify(t)
    PROVE  PInv'
<1>1. task[t].at = "send" /\ UNCHANGED <<entry, process, events>>
  BY DEF Notify, At
<1>2. task[t].note \in Events
  BY <1>1 DEF PInv, PTypeOK, NotesAreEvents
<1>3. PICK label \in {"receive", "close", "done"} :
          /\ GoTo(t, label)
          /\ label = "receive" <=> task[t].note.kind = "output"
  <2>1. task[t].note.kind \in {"output", "exited", "closed"}
    BY <1>2 DEF Events
  <2>2. CASE task[t].note.kind = "output"
    BY <2>2 DEF Notify
  <2>3. CASE task[t].note.kind = "exited"
    BY <2>3 DEF Notify
  <2>4. CASE task[t].note.kind = "closed"
    BY <2>4 DEF Notify
  <2> QED
    BY <2>1, <2>2, <2>3, <2>4
<1>4. t = "exit" => label # "receive"
  BY <1>1, <1>3 DEF PInv, NotesAreEvents
<1>5. Open(t) <=> label = "receive"
  BY <1>1, <1>3 DEF Open
<1>6. process.closed => label # "receive"
  <2>1. t \in Streams \/ t = "exit"
    BY DEF Tasks
  <2> QED
    BY <1>4, <1>5, <2>1 DEF PInv, ClosedIsLast
<1> QED
  BY <1>1, <1>3, <1>4, <1>5, <1>6, GoSame

LEMMA FinishKeeps ==
    ASSUME PInv, NEW t \in Tasks, FinishOutputStream(t)
    PROVE  PInv'
<1>1. task[t].at = "finish" /\ UNCHANGED <<entry, events>>
  BY DEF FinishOutputStream, At
<1>2. t \in Streams /\ Open(t)
  BY <1>1 DEF PInv, NotesAreEvents, Tasks, Open
<1>3. entry \in {"running", "removed"}
  BY <1>1, Spawnedness
<1>4. CASE entry = "running"
  <2>1. PICK s : TaskBecomes(t, s) /\ s.at = "close" /\ s.note = None
    BY <1>4, TaskGoes DEF FinishOutputStream, PInv
  <2>2. process \in ProcessRows
    BY DEF PInv, PTypeOK, ProcessRows
  <2>3. PICK n : n = IF process.open_streams > 0 THEN process.open_streams - 1
                     ELSE process.open_streams
    OBVIOUS
  <2>4. n \in 0 .. 2
    BY <2>2, <2>3 DEF ProcessRows
  <2>5. process' = [process EXCEPT !.open_streams = n]
    BY <1>4, <2>3 DEF FinishOutputStream
  <2>6. /\ process' \in ProcessRows /\ process'.open_streams = n
        /\ process'.next_seq = process.next_seq /\ process'.output = process.output
    BY <2>2, <2>4, <2>5 DEF ProcessRows
  <2>7. process'.exited = process.exited /\ process'.closed = process.closed
    BY <2>2, <2>5 DEF ProcessRows
  <2>8. ~ Open(t)' /\ \A u \in Streams : u # t => (Open(u)' <=> Open(u))
    BY <2>1 DEF TaskBecomes, Open, Tasks
  <2>9. process.open_streams = (IF Open("stdout") THEN 1 ELSE 0) + (IF Open("stderr") THEN 1 ELSE 0)
    BY <1>4 DEF PInv, StreamsCounted
  <2>10. n = (IF Open("stdout")' THEN 1 ELSE 0) + (IF Open("stderr")' THEN 1 ELSE 0)
    <3>1. CASE t = "stdout"
      BY <1>2, <2>3, <2>8, <2>9, <3>1 DEF Streams
    <3>2. CASE t = "stderr"
      BY <1>2, <2>3, <2>8, <2>9, <3>2 DEF Streams
    <3> QED
      BY <1>2, <3>1, <3>2 DEF Streams
  <2>11. StreamsCounted'
    BY <2>6, <2>10 DEF StreamsCounted
  <2>12. SameProcess
    BY <2>6, <2>7 DEF SameProcess
  <2> QED
    BY <1>1, <1>3, <2>1, <2>11, <2>12, GoKeeps
<1>5. CASE entry # "running"
  <2>1. GoTo(t, "done") /\ UNCHANGED process
    BY <1>5 DEF FinishOutputStream
  <2> QED
    BY <1>1, <1>5, <2>1, GoSame
<1> QED
  BY <1>4, <1>5

LEMMA NoCloseKeeps ==
    ASSUME PInv, NEW t \in Tasks, MaybeEmitClosed(t), ~ (entry = "running" /\ MayClose)
    PROVE  PInv'
<1>1. task[t].at = "close" /\ GoTo(t, "done") /\ UNCHANGED <<entry, process, events>>
  BY DEF MaybeEmitClosed, At
<1>2. ~ Open(t)
  BY <1>1 DEF Open
<1> QED
  BY <1>1, <1>2, GoSame

\* A task numbers an event: what is common to the three kinds.
LEMMA EmitKeeps ==
    ASSUME PInv, NEW t \in Tasks, NEW kind \in {"output", "exited", "closed"},
           entry = "running", UNCHANGED entry, ~ process.closed,
           Numbers(kind), Notes(t, kind),
           process' \in ProcessRows, process'.next_seq = Len(events') + 1,
           process'.exited = (process.exited \/ kind = "exited"),
           process'.closed = (kind = "closed"),
           process'.open_streams = process.open_streams,
           t \in Streams => kind # "exited" /\ (Open(t) <=> kind = "output"),
           t = "exit" => kind # "output",
           kind = "closed" => process.exited /\ process.open_streams = 0,
           \A c \in process'.output : c.seq < process'.next_seq,
           RetainsTail'
    PROVE  PInv'
<1>n. events \in Seq(Events) /\ Len(events) \in Nat /\ DOMAIN events = 1 .. Len(events)
  BY DEF PInv, PTypeOK
<1>1. PICK s : /\ TaskBecomes(t, s) /\ s.at = "send" /\ s.note # None
               /\ s.note = events'[Len(events) + 1] /\ s.note.kind = kind
               /\ s.note.seq = Len(events) + 1
  BY DEF Notes
<1>2. PTypeOK'
  BY <1>1 DEF PInv, PTypeOK, TaskBecomes, TaskStates, ProcessRows, Numbers
<1>3. Unstarted'
  BY <1>1 DEF PInv, Unstarted, TaskBecomes
<1>4. Numbered'
  BY DEF PInv, Numbered, Numbers
<1>5. KindsRecorded'
  <2>1. ASSUME NEW k
        PROVE  (\E i \in DOMAIN events' : events'[i].kind = k)
                 <=> (kind = k \/ \E i \in DOMAIN events : events[i].kind = k)
    BY DEF Numbers
  <2> QED
    BY <2>1 DEF PInv, KindsRecorded
<1>6. ASSUME NEW u \in Streams PROVE Open(u)' <=> Open(u)
  <2>1. u \in Tasks
    BY DEF Tasks
  <2>2. CASE u = t
    BY <1>1, <1>6, <2>2 DEF TaskBecomes, Open
  <2>3. CASE u # t
    BY <1>1, <2>1, <2>3 DEF TaskBecomes, Open
  <2> QED
    BY <2>2, <2>3
<1>7. StreamsCounted'
  BY <1>6 DEF PInv, StreamsCounted, Streams
<1>8. NotesAreEvents'
  <2>1. WillBeEvent(s.note)
    BY <1>1 DEF WillBeEvent, Numbers
  <2>2. \A u \in Tasks : /\ task'[u].note # None <=> task'[u].at = "send"
                         /\ task'[u].note # None => WillBeEvent(task'[u].note)
    <3> SUFFICES ASSUME NEW u \in Tasks
                 PROVE  /\ task'[u].note # None <=> task'[u].at = "send"
                        /\ task'[u].note # None => WillBeEvent(task'[u].note)
      OBVIOUS
    <3>1. CASE u = t
      BY <1>1, <2>1, <3>1 DEF TaskBecomes
    <3>2. CASE u # t
      <4>1. task'[u] = task[u]
        BY <1>1, <3>2 DEF TaskBecomes
      <4>2. /\ task[u].note # None <=> task[u].at = "send"
            /\ task[u].note # None => IsEvent(task[u].note)
        BY DEF PInv, NotesAreEvents
      <4>3. task[u].note # None => WillBeEvent(task[u].note)
        BY <4>2, StaysEvent
      <4> QED
        BY <4>1, <4>2, <4>3
    <3> QED
      BY <3>1, <3>2
  <2>3. /\ task'["exit"].at # "finish"
        /\ task'["exit"].at = "receive" => ~ process'.exited
        /\ task'["exit"].at = "send" => task'["exit"].note.kind # "output"
    <3>1. "exit" \in Tasks
      BY DEF Tasks
    <3>2. CASE t = "exit"
      BY <1>1, <3>2 DEF TaskBecomes
    <3>3. CASE t # "exit"
      <4>1. t \in Streams /\ task'["exit"] = task["exit"]
        BY <1>1, <3>1, <3>3 DEF TaskBecomes, Tasks
      <4> QED
        BY <4>1 DEF PInv, NotesAreEvents
    <3> QED
      BY <3>2, <3>3
  <2>4. ASSUME NEW u \in Streams, task'[u].at = "send" PROVE task'[u].note.kind # "exited"
    <3>1. u \in Tasks
      BY DEF Tasks
    <3>2. CASE u = t
      BY <1>1, <2>4, <3>2 DEF TaskBecomes
    <3>3. CASE u # t
      BY <1>1, <2>4, <3>1, <3>3 DEF TaskBecomes, PInv, NotesAreEvents
    <3> QED
      BY <3>2, <3>3
  <2> QED
    BY <2>2, <2>3, <2>4 DEF NotesAreEvents, IsEvent, WillBeEvent
<1>9. ClosedIsLast'
  <2> SUFFICES ASSUME process'.closed, NEW u \in Streams
               PROVE  /\ events'[Len(events')].kind = "closed" /\ process'.exited
                      /\ task'[u].at \in {"close", "send", "done"} /\ ~ Open(u)'
    BY DEF ClosedIsLast, Streams
  <2>1. kind = "closed" /\ process.exited /\ process.open_streams = 0
    OBVIOUS
  <2>2. ~ Open(u)'
    BY <1>6, <2>1 DEF PInv, StreamsCounted, Streams
  <2>3. u \in Tasks
    BY DEF Tasks
  <2>4. task'[u].at # "idle"
    <3>1. CASE u = t
      BY <1>1, <3>1 DEF TaskBecomes
    <3>2. CASE u # t
      <4>1. task'[u] = task[u]
        BY <1>1, <2>3, <3>2 DEF TaskBecomes
      <4> QED
        BY <2>3, <4>1 DEF PInv, Unstarted
    <3> QED
      BY <3>1, <3>2
  <2>5. task'[u].at \in {"idle", "receive", "send", "finish", "close", "done"}
    BY <1>2, <2>3 DEF PTypeOK
  <2>6. task'[u].at \in {"close", "send", "done"}
    BY <2>2, <2>4, <2>5 DEF Open
  <2> QED
    BY <2>1, <2>2, <2>6 DEF Numbers
<1> QED
  BY <1>2, <1>3, <1>4, <1>5, <1>7, <1>8, <1>9 DEF PInv

\* Eviction keeps a tail.
LEMMA EvictsOldest ==
    ASSUME NEW output, NEW c \in Evict(output), NEW d \in output,
           \A x \in output : x.seq \in Nat, c.seq < d.seq
    PROVE  Evict(output) \subseteq output /\ d \in Evict(output)
<1>1. PICK first \in output :
          first.seq <= c.seq /\ Bytes({x \in output : x.seq >= first.seq}) <= Retained
  BY DEF Evict
<1>2. c \in output
  BY DEF Evict
<1>3. first.seq <= d.seq
  BY <1>1, <1>2
<1> QED
  BY <1>1, <1>3 DEF Evict

LEMMA ReceiveKeeps ==
    ASSUME PInv, NEW t \in Tasks, NEW len \in ChunkLens, ReceiveChunk(t, len),
           entry = "running"
    PROVE  PInv'
<1>0. /\ PTypeOK /\ Numbered /\ process \in ProcessRows
      /\ events \in Seq(Events) /\ Len(events) \in Nat
  BY DEF PInv, PTypeOK, ProcessRows
<1>1. PICK new : new = [seq |-> process.next_seq, len |-> len]
  OBVIOUS
<1>2. new \in Chunks /\ new.seq = Len(events) + 1
  BY <1>0, <1>1 DEF Chunks, Numbered, ProcessRows
<1>3. PICK out : out = Evict(process.output \cup {new})
  OBVIOUS
<1>4. out \subseteq process.output \cup {new}
  BY <1>3 DEF Evict
<1>5. PICK changed : changed = [process EXCEPT !.output = out]
  OBVIOUS
<1>6. out \in SUBSET Chunks
  BY <1>0, <1>2, <1>4 DEF ProcessRows
<1>7. /\ changed \in ProcessRows /\ changed.next_seq = process.next_seq
      /\ changed.output = out /\ changed.open_streams = process.open_streams
  BY <1>0, <1>5, <1>6 DEF ProcessRows
<1>8. changed.exited = process.exited /\ changed.closed = process.closed
  BY <1>0, <1>5 DEF ProcessRows
<1>9. Emit(t, "output", changed) /\ UNCHANGED entry /\ task[t].at = "receive" /\ t \in Streams
  BY <1>1, <1>3, <1>5 DEF ReceiveChunk, At
<1>10. /\ Numbers("output") /\ Notes(t, "output")
       /\ process' \in ProcessRows
       /\ process'.next_seq = Len(events') + 1
       /\ process'.output = out /\ process'.exited = process.exited
       /\ process'.open_streams = process.open_streams
       /\ process'.closed = process.closed
  BY <1>0, <1>7, <1>8, <1>9, Emits
<1>11. Open(t) /\ t # "exit" /\ ~ process.closed
  BY <1>9 DEF Open, PInv, ClosedIsLast, Streams
<1>12. \A c \in process.output \cup {new} : c.seq \in Nat
  BY <1>0, <1>2 DEF ProcessRows, Chunks
<1>13. \A c \in process'.output : c.seq < process'.next_seq
  <2>1. \A c \in process.output : c.seq < Len(events) + 1
    BY <1>0 DEF Numbered
  <2>2. process'.next_seq = Len(events) + 2
    BY <1>0, <1>10 DEF Numbers
  <2> QED
    BY <1>0, <1>2, <1>4, <1>10, <1>12, <2>1, <2>2
<1>14. RetainsTail'
  <2> SUFFICES ASSUME NEW i \in DOMAIN events', NEW c \in out,
                      events'[i].kind = "output", c.seq < i
               PROVE  \E d \in out : d.seq = i
    BY <1>10 DEF RetainsTail
  <2>1. CASE i = Len(events) + 1
    <3>1. c \in Evict(process.output \cup {new}) /\ c.seq < new.seq
      BY <1>2, <1>3, <2>1
    <3>2. new \in Evict(process.output \cup {new})
      BY <1>12, <3>1, EvictsOldest
    <3> QED
      BY <1>2, <1>3, <2>1, <3>2
  <2>2. CASE i # Len(events) + 1
    <3>1. i \in DOMAIN events /\ events[i].kind = "output" /\ i <= Len(events) /\ i \in Nat
      BY <1>0, <1>10, <2>2 DEF Numbers
    <3>2. c \in process.output
      BY <1>0, <1>2, <1>4, <3>1
    <3>3. PICK d \in process.output : d.seq = i
      BY <3>1, <3>2 DEF PInv, RetainsTail
    <3>4. d \in Evict(process.output \cup {new})
      BY <1>3, <1>12, <3>3, EvictsOldest
    <3> QED
      BY <1>3, <3>3, <3>4
  <2> QED
    BY <2>1, <2>2
<1>15. /\ process'.exited = (process.exited \/ "output" = "exited")
       /\ process'.closed = ("output" = "closed")
  <2>1. process.closed = FALSE /\ process.exited \in BOOLEAN
    BY <1>0, <1>11 DEF ProcessRows
  <2> QED
    BY <1>10, <2>1
<1> QED
  BY <1>9, <1>10, <1>11, <1>13, <1>14, <1>15, EmitKeeps

\* The exit and the close leave the output alone.
LEMMA TailStays ==
    ASSUME PInv, NEW kind \in {"exited", "closed"}, Numbers(kind),
           process'.output = process.output, process'.next_seq = Len(events') + 1
    PROVE  RetainsTail' /\ \A c \in process'.output : c.seq < process'.next_seq
<1>0. Len(events) \in Nat /\ process.output \in SUBSET Chunks
  BY DEF PInv, PTypeOK
<1>1. RetainsTail'
  BY DEF PInv, RetainsTail, Numbers
<1>2. \A c \in process.output : c.seq \in Nat /\ c.seq < Len(events) + 1
  BY <1>0 DEF PInv, Numbered, Chunks
<1> QED
  BY <1>0, <1>1, <1>2 DEF Numbers

LEMMA ExitKeeps ==
    ASSUME PInv, WatchExit, entry = "running"
    PROVE  PInv'
<1>0. PTypeOK /\ Numbered /\ process \in ProcessRows /\ "exit" \in Tasks
  BY DEF PInv, PTypeOK, ProcessRows, Tasks
<1>1. PICK changed : changed = [process EXCEPT !.exited = TRUE]
  OBVIOUS
<1>2. /\ changed \in ProcessRows /\ changed.next_seq = process.next_seq
      /\ changed.output = process.output /\ changed.open_streams = process.open_streams
  BY <1>0, <1>1 DEF ProcessRows
<1>3. changed.exited = TRUE /\ changed.closed = process.closed
  BY <1>0, <1>1 DEF ProcessRows
<1>4. Emit("exit", "exited", changed) /\ UNCHANGED entry /\ task["exit"].at = "receive"
  BY <1>1 DEF WatchExit, At
<1>5. ~ process.exited /\ ~ process.closed
  BY <1>4 DEF PInv, NotesAreEvents, ClosedIsLast
<1>6. /\ Numbers("exited") /\ Notes("exit", "exited")
      /\ process' \in ProcessRows
      /\ process'.next_seq = Len(events') + 1
      /\ process'.output = process.output /\ process'.exited = TRUE
      /\ process'.open_streams = process.open_streams
      /\ process'.closed = process.closed
  BY <1>0, <1>2, <1>3, <1>4, Emits
<1>7. /\ process'.exited = (process.exited \/ "exited" = "exited")
      /\ process'.closed = ("exited" = "closed")
  <2>1. process.closed = FALSE
    BY <1>0, <1>5 DEF ProcessRows
  <2> QED
    BY <1>6, <2>1
<1>8. RetainsTail' /\ \A c \in process'.output : c.seq < process'.next_seq
  BY <1>6, TailStays
<1> QED
  BY <1>0, <1>4, <1>5, <1>6, <1>7, <1>8, EmitKeeps DEF Streams

LEMMA CloseKeeps ==
    ASSUME PInv, NEW t \in Tasks, MaybeEmitClosed(t), entry = "running", MayClose
    PROVE  PInv'
<1>0. PTypeOK /\ Numbered /\ process \in ProcessRows
  BY DEF PInv, PTypeOK, ProcessRows
<1>1. PICK changed : changed = [process EXCEPT !.closed = TRUE]
  OBVIOUS
<1>2. /\ changed \in ProcessRows /\ changed.next_seq = process.next_seq
      /\ changed.output = process.output /\ changed.open_streams = process.open_streams
  BY <1>0, <1>1 DEF ProcessRows
<1>3. changed.exited = process.exited /\ changed.closed = TRUE
  BY <1>0, <1>1 DEF ProcessRows
<1>4. Emit(t, "closed", changed) /\ UNCHANGED entry /\ task[t].at = "close"
  BY <1>1 DEF MaybeEmitClosed, At
<1>5. ~ process.closed /\ process.open_streams = 0 /\ process.exited
  BY DEF MayClose
<1>6. /\ Numbers("closed") /\ Notes(t, "closed")
      /\ process' \in ProcessRows
      /\ process'.next_seq = Len(events') + 1
      /\ process'.output = process.output /\ process'.exited = process.exited
      /\ process'.open_streams = process.open_streams
      /\ process'.closed = TRUE
  BY <1>0, <1>2, <1>3, <1>4, Emits
<1>7. /\ process'.exited = (process.exited \/ "closed" = "exited")
      /\ process'.closed = ("closed" = "closed")
  <2>1. process.exited = TRUE
    BY <1>0, <1>5 DEF ProcessRows
  <2> QED
    BY <1>6, <2>1
<1>8. RetainsTail' /\ \A c \in process'.output : c.seq < process'.next_seq
  BY <1>6, TailStays
<1>9. ~ Open(t)
  BY <1>4 DEF Open
<1> QED
  BY <1>4, <1>5, <1>6, <1>7, <1>8, <1>9, EmitKeeps

\* The process map.
LEMMA MapKeeps ==
    ASSUME PInv,
           \/ StartProcess \/ Spawned \/ SpawnFailed \/ StartDropped
           \/ Cleanup \/ TerminateProcess \/ Shutdown
    PROVE  PInv'
<1>0. process \in ProcessRows
  BY DEF PInv, PTypeOK, ProcessRows
<1>1. CASE StartProcess \/ SpawnFailed \/ StartDropped \/ Cleanup
  <2>1. UNCHANGED <<process, events, task>> /\ entry' \in ProcessEntry /\ entry' # "running"
    BY <1>1 DEF StartProcess, SpawnFailed, StartDropped, Cleanup, ProcessEntry
  <2>2. PTypeOK' /\ Numbered' /\ KindsRecorded' /\ NotesAreEvents' /\ ClosedIsLast' /\ RetainsTail'
    BY <2>1 DEF PInv, PTypeOK, Numbered, KindsRecorded, NotesAreEvents, IsEvent, ClosedIsLast,
                Open, RetainsTail
  <2>3. Unstarted'
    BY <1>1, <2>1 DEF PInv, Unstarted, StartProcess, SpawnFailed, StartDropped, Cleanup
  <2>4. StreamsCounted'
    BY <2>1 DEF StreamsCounted
  <2> QED
    BY <2>2, <2>3, <2>4 DEF PInv
<1>2. CASE Spawned
  <2>1. entry = "starting" /\ process = RunningProcess /\ events = <<>>
    BY <1>2 DEF Spawned, PInv, Unstarted
  <2>2. UNCHANGED <<process, events>> /\ entry' = "running"
    BY <1>2, <2>1 DEF Spawned
  <2>3. \A t \in Tasks : task'[t].at = "receive" /\ task'[t].note = None
    BY <1>2 DEF Spawned
  <2>4. PTypeOK'
    BY <1>2, <2>2 DEF PInv, PTypeOK, ProcessEntry, Spawned
  <2>5. process.open_streams = 2 /\ ~ process.exited /\ ~ process.closed
    BY <2>1 DEF RunningProcess
  <2>6. StreamsCounted'
    BY <2>2, <2>3, <2>5 DEF StreamsCounted, Open, Tasks, Streams
  <2>7. Unstarted' /\ NotesAreEvents' /\ ClosedIsLast'
    BY <2>2, <2>3, <2>5 DEF Unstarted, NotesAreEvents, ClosedIsLast, Tasks, Streams
  <2>8. Numbered' /\ KindsRecorded' /\ RetainsTail'
    BY <2>2 DEF PInv, Numbered, KindsRecorded, RetainsTail
  <2> QED
    BY <2>4, <2>6, <2>7, <2>8 DEF PInv
<1>3. CASE TerminateProcess \/ Shutdown
  <2>1. PICK b \in BOOLEAN : process' = [process EXCEPT !.killed = b]
    BY <1>3 DEF TerminateProcess, Shutdown
  <2>2. /\ process' \in ProcessRows /\ process'.open_streams = process.open_streams
        /\ process'.next_seq = process.next_seq /\ process'.output = process.output
    BY <1>0, <2>1 DEF ProcessRows
  <2>3. process'.exited = process.exited /\ process'.closed = process.closed
    BY <1>0, <2>1 DEF ProcessRows
  <2>4. /\ UNCHANGED <<events, task>> /\ entry' \in {"running", "removed"}
        /\ entry' = "running" => entry = "running"
    BY <1>3 DEF TerminateProcess, Shutdown
  <2>5. PTypeOK' /\ Unstarted' /\ StreamsCounted'
    BY <2>2, <2>4 DEF PInv, PTypeOK, ProcessEntry, ProcessRows, Unstarted, StreamsCounted, Open
  <2>6. Numbered' /\ KindsRecorded' /\ NotesAreEvents' /\ ClosedIsLast' /\ RetainsTail'
    BY <2>2, <2>3, <2>4 DEF PInv, Numbered, KindsRecorded, NotesAreEvents, IsEvent, ClosedIsLast,
                            Open, RetainsTail
  <2> QED
    BY <2>5, <2>6 DEF PInv
<1> QED
  BY <1>1, <1>2, <1>3

\* The steps of a process, whoever reads it.
ProcessStep ==
    \/ StartProcess \/ Spawned \/ SpawnFailed \/ StartDropped
    \/ Cleanup \/ TerminateProcess \/ Shutdown
    \/ \E t \in Tasks :
           \/ \E len \in ChunkLens : ReceiveChunk(t, len)
           \/ EndOfStream(t) \/ Notify(t) \/ FinishOutputStream(t) \/ MaybeEmitClosed(t)
    \/ WatchExit

LEMMA ProcessKeeps ==
    ASSUME PInv, ProcessStep \/ UNCHANGED pvars
    PROVE  PInv'
<1>1. ASSUME NEW t \in Tasks, NEW len \in ChunkLens, ReceiveChunk(t, len) PROVE PInv'
  BY <1>1, ReceiveKeeps, EndOfStreamKeeps
<1>2. ASSUME NEW t \in Tasks,
             EndOfStream(t) \/ Notify(t) \/ FinishOutputStream(t) \/ MaybeEmitClosed(t)
      PROVE  PInv'
  BY <1>2, EndOfStreamKeeps, NotifyKeeps, FinishKeeps, NoCloseKeeps, CloseKeeps
<1>3. CASE WatchExit
  BY <1>3, ExitKeeps, NoExitKeeps
<1>4. CASE UNCHANGED pvars
  BY <1>4 DEF pvars, PInv, PTypeOK, Unstarted, Numbered, KindsRecorded, StreamsCounted, Open,
              NotesAreEvents, IsEvent, ClosedIsLast, RetainsTail
<1> QED
  BY <1>1, <1>2, <1>3, <1>4, MapKeeps DEF ProcessStep

LEMMA ProcessStarts == PInit => PInv
<1> SUFFICES ASSUME PInit PROVE PInv
  OBVIOUS
<1>1. process \in ProcessRows /\ process.next_seq = 1 /\ process.output = {}
  BY DEF PInit, RunningProcess, ProcessRows
<1>2. ~ process.exited /\ ~ process.closed
  BY DEF PInit, RunningProcess
<1>3. \A t \in Tasks : task[t].at = "idle" /\ task[t].note = None
  BY DEF PInit
<1>4. PTypeOK
  BY <1>1 DEF PInit, PTypeOK, ProcessRows, ProcessEntry
<1>5. Unstarted /\ StreamsCounted
  BY DEF PInit, Unstarted, StreamsCounted
<1>6. Numbered /\ KindsRecorded /\ RetainsTail /\ ClosedIsLast
  BY <1>1, <1>2 DEF PInit, Numbered, KindsRecorded, RetainsTail, ClosedIsLast
<1>7. NotesAreEvents
  BY <1>2, <1>3 DEF NotesAreEvents, Tasks, Streams
<1> QED
  BY <1>4, <1>5, <1>6, <1>7 DEF PInv

-----------------------------------------------------------------------------
(* A reader of the output.                                                  *)

\* Output is only added under numbers that were not given before.
LEMMA ProcessGrows ==
    ASSUME PInv, ProcessStep \/ UNCHANGED pvars
    PROVE  /\ process'.next_seq >= process.next_seq
           /\ \A c \in process'.output : c \in process.output \/ c.seq = process.next_seq
<1>0. process \in ProcessRows /\ process.next_seq \in Nat /\ PTypeOK /\ Numbered
  BY DEF PInv, PTypeOK, ProcessRows
<1>1. CASE UNCHANGED process
  BY <1>0, <1>1
<1>2. ASSUME NEW t \in Tasks, NEW len \in ChunkLens, ReceiveChunk(t, len), entry = "running"
      PROVE  /\ process'.next_seq = process.next_seq + 1
             /\ \A c \in process'.output : c \in process.output \/ c.seq = process.next_seq
  <2>1. PICK new : new = [seq |-> process.next_seq, len |-> len]
    OBVIOUS
  <2>2. new.seq = process.next_seq
    BY <2>1
  <2>3. PICK out : out = Evict(process.output \cup {new})
    OBVIOUS
  <2>4. process' = [[process EXCEPT !.output = out] EXCEPT !.next_seq = process.next_seq + 1]
    BY <1>0, <1>2, <2>1, <2>3 DEF ReceiveChunk, Emit, ProcessRows
  <2>5. process'.output = out /\ process'.next_seq = process.next_seq + 1
    BY <1>0, <2>4 DEF ProcessRows
  <2>6. out \subseteq process.output \cup {new}
    BY <2>3 DEF Evict
  <2> QED
    BY <2>2, <2>5, <2>6
<1>3. CASE WatchExit \/ \E t \in Tasks : MaybeEmitClosed(t)
  <2>1. \/ UNCHANGED process
        \/ \E changed : /\ \/ changed = [process EXCEPT !.exited = TRUE]
                           \/ changed = [process EXCEPT !.closed = TRUE]
                        /\ process' = [changed EXCEPT !.next_seq = process.next_seq + 1]
    <3>1. PICK exited, closed : /\ exited = [process EXCEPT !.exited = TRUE]
                                /\ closed = [process EXCEPT !.closed = TRUE]
      OBVIOUS
    <3>2. exited.next_seq = process.next_seq /\ closed.next_seq = process.next_seq
      BY <1>0, <3>1 DEF ProcessRows
    <3>3. \/ UNCHANGED process
          \/ process' = [exited EXCEPT !.next_seq = exited.next_seq + 1]
          \/ process' = [closed EXCEPT !.next_seq = closed.next_seq + 1]
      BY <1>3, <3>1 DEF WatchExit, MaybeEmitClosed, Emit
    <3> QED
      BY <3>1, <3>2, <3>3
  <2>2. ASSUME NEW changed,
               \/ changed = [process EXCEPT !.exited = TRUE]
               \/ changed = [process EXCEPT !.closed = TRUE],
               process' = [changed EXCEPT !.next_seq = process.next_seq + 1]
        PROVE  process'.next_seq = process.next_seq + 1 /\ process'.output = process.output
    <3>1. changed \in ProcessRows /\ changed.output = process.output
      BY <1>0, <2>2 DEF ProcessRows
    <3> QED
      BY <1>0, <2>2, <3>1 DEF ProcessRows
  <2>3. CASE UNCHANGED process
    BY <1>0, <2>3
  <2>4. CASE ~ UNCHANGED process
    BY <1>0, <2>1, <2>2, <2>4
  <2> QED
    BY <2>3, <2>4
<1>4. CASE \E t \in Tasks : FinishOutputStream(t)
  BY <1>0, <1>4 DEF FinishOutputStream, ProcessRows
<1>5. CASE Spawned
  BY <1>0, <1>5 DEF Spawned, PInv, Unstarted
<1>6. CASE TerminateProcess \/ Shutdown
  BY <1>0, <1>6 DEF TerminateProcess, Shutdown, ProcessRows
<1>7. ASSUME NEW t \in Tasks, NEW len \in ChunkLens, ReceiveChunk(t, len), entry # "running"
      PROVE  UNCHANGED process
  BY <1>7 DEF ReceiveChunk
<1>8. CASE \/ StartProcess \/ SpawnFailed \/ StartDropped \/ Cleanup \/ UNCHANGED pvars
           \/ \E t \in Tasks : EndOfStream(t) \/ Notify(t)
  BY <1>0, <1>8 DEF StartProcess, SpawnFailed, StartDropped, Cleanup, pvars, EndOfStream, Notify
<1> QED
  BY <1>0, <1>1, <1>2, <1>3, <1>4, <1>5, <1>6, <1>7, <1>8 DEF ProcessStep

\* A page is what there is up to where it says the next one starts.
LEMMA PageIsWhole ==
    ASSUME PInv, NEW after_seq \in Nat, after_seq < process.next_seq
    PROVE  /\ NextSeq(after_seq) \in Nat
           /\ 0 < NextSeq(after_seq) /\ NextSeq(after_seq) <= process.next_seq
           /\ \A c \in process.output :
                  after_seq < c.seq /\ c.seq < NextSeq(after_seq) => c \in Page(after_seq)
<1>0. process.next_seq \in Nat /\ \A c \in process.output : c.seq \in Nat /\ c.seq < process.next_seq
  BY DEF PInv, PTypeOK, Numbered, Chunks
<1> DEFINE fresh == Fresh(after_seq)
           page == Page(after_seq)
           seqs == {c.seq : c \in page}
<1>1. fresh \subseteq process.output /\ page \subseteq fresh
  BY DEF Fresh, Page
<1>2. CASE page = {}
  <2>1. fresh = {}
    <3> SUFFICES ASSUME fresh # {} PROVE FALSE
      OBVIOUS
    <3>1. {c.seq : c \in fresh} \in SUBSET Nat /\ {c.seq : c \in fresh} # {}
      BY <1>0, <1>1
    <3>2. PICK x \in {c.seq : c \in fresh} : \A y \in {c.seq : c \in fresh} : x <= y
      BY <3>1, Least
    <3>3. PICK c \in fresh : c.seq = x
      BY <3>2
    <3>4. \A d \in fresh : c.seq <= d.seq
      BY <3>2, <3>3
    <3>5. c \in page
      BY <3>3, <3>4 DEF Page
    <3> QED
      BY <1>2, <3>5
  <2>2. NextSeq(after_seq) = process.next_seq
    BY <1>2 DEF NextSeq
  <2> QED
    BY <1>0, <2>1, <2>2 DEF Fresh
<1>3. CASE page # {}
  <2>1. seqs \in SUBSET Nat /\ seqs # {} /\ \A x \in seqs : x <= process.next_seq
    BY <1>0, <1>1, <1>3
  <2>2. PICK x \in seqs : \A y \in seqs : x >= y
    BY <1>0, <2>1, Greatest
  <2>3. Max(seqs) \in seqs /\ \A y \in seqs : Max(seqs) >= y
    BY <2>2 DEF Max
  <2>4. PICK m \in page : m.seq = Max(seqs)
    BY <2>3
  <2>5. NextSeq(after_seq) = m.seq + 1
    BY <1>3, <2>4 DEF NextSeq
  <2>6. m \in process.output /\ m \in fresh
    BY <1>1, <2>4
  <2>7. ASSUME NEW c \in process.output, after_seq < c.seq, c.seq < m.seq + 1
        PROVE  c \in page
    <3>1. c \in fresh /\ c.seq <= m.seq
      BY <1>0, <2>6, <2>7 DEF Fresh
    <3>2. CASE \A d \in fresh : m.seq <= d.seq
      <4>1. \A d \in fresh : c.seq <= d.seq
        BY <1>0, <1>1, <2>6, <3>1, <3>2
      <4> QED
        BY <3>1, <4>1 DEF Page
    <3>3. ASSUME NEW last \in fresh, m.seq <= last.seq,
                 Bytes({d \in fresh : d.seq <= last.seq}) <= MaxBytes
          PROVE  c \in page
      <4>1. c.seq <= last.seq
        BY <1>0, <1>1, <2>6, <3>1, <3>3
      <4> QED
        BY <3>1, <3>3, <4>1 DEF Page
    <3> QED
      BY <2>4, <3>2, <3>3 DEF Page
  <2> QED
    BY <1>0, <2>5, <2>6, <2>7
<1> QED
  BY <1>2, <1>3

ReaderStates ==
    [at : {"idle", "check", "unlocked", "waiting", "expired", "done"},
     after_seq : Nat, got : SUBSET Nat]

\* The reader stays where it is, at whatever point of its call.
Stays ==
    /\ reader' \in ReaderStates
    /\ reader'.after_seq = reader.after_seq /\ reader'.got = reader.got

LEMMA ReaderStays ==
    ASSUME RTypeOK,
           \/ UNCHANGED reader \/ Woken
           \/ \E label \in {"check", "unlocked", "waiting", "expired", "done"} :
                  reader' = [reader EXCEPT !.at = label]
    PROVE  Stays
<1>1. reader \in ReaderStates
  BY DEF RTypeOK, ReaderStates
<1>2. CASE Woken
  <2>1. reader' = [reader EXCEPT !.at = "check"] \/ reader' = reader
    <3>1. CASE reader.at = "waiting"
      BY <1>2, <3>1 DEF Woken
    <3>2. CASE reader.at # "waiting"
      BY <1>1, <1>2, <3>2 DEF Woken, ReaderStates
    <3> QED
      BY <3>1, <3>2
  <2> QED
    BY <1>1, <2>1 DEF Stays, ReaderStates
<1> QED
  BY <1>1, <1>2 DEF Stays, ReaderStates

\* What a step of the specification is: the process moves and the reader stays,
\* or the reader gets a page.
GetsPage ==
    /\ UNCHANGED pvars
    /\ reader' \in ReaderStates
    /\ reader'.after_seq = NextSeq(reader.after_seq) - 1
    /\ reader'.got = reader.got \cup {c.seq : c \in Page(reader.after_seq)}

LEMMA ReadShape ==
    ASSUME RInv, [RNext]_rvars
    PROVE  GetsPage \/ ((ProcessStep \/ UNCHANGED pvars) /\ Stays)
<1>t. RTypeOK /\ PInv /\ reader \in ReaderStates /\ reader.after_seq \in Nat
  BY DEF RInv, RTypeOK, ReaderStates
<1>1. CASE ReadCall \/ ReadWait \/ ReadDeadline
  BY <1>t, <1>1, ReaderStays DEF ReadCall, ReadWait, ReadDeadline
<1>2. CASE ReadCheck
  <2>1. CASE entry = "running" /\ (HasNews(reader.after_seq) \/ reader.at = "expired")
    <3>1. PICK label \in {"idle", "done"} : reader' =
            [at |-> label, after_seq |-> NextSeq(reader.after_seq) - 1,
             got |-> reader.got \cup {c.seq : c \in Page(reader.after_seq)}]
      BY <1>2, <2>1 DEF ReadCheck
    <3>2. NextSeq(reader.after_seq) - 1 \in Nat
      BY <1>t, PageIsWhole DEF RInv
    <3>3. {c.seq : c \in Page(reader.after_seq)} \in SUBSET Nat
      BY <1>t DEF PInv, PTypeOK, Page, Fresh, Chunks
    <3> QED
      BY <1>t, <1>2, <3>1, <3>2, <3>3 DEF GetsPage, ReaderStates, ReadCheck
  <2>2. CASE ~ (entry = "running" /\ (HasNews(reader.after_seq) \/ reader.at = "expired"))
    <3>1. \E label \in {"done", "unlocked"} : reader' = [reader EXCEPT !.at = label]
      BY <1>2, <2>2 DEF ReadCheck
    <3> QED
      BY <1>t, <1>2, <3>1, ReaderStays DEF ReadCheck
  <2> QED
    BY <2>1, <2>2
<1>3. CASE Backend
  BY <1>t, <1>3, ReaderStays DEF Backend, ProcessStep
<1>4. ASSUME NEW t \in Tasks, Tasking(t) PROVE ProcessStep /\ Stays
  <2>1. UNCHANGED reader \/ Woken
    BY <1>4 DEF Tasking
  <2>2. ProcessStep
    BY <1>4 DEF Tasking, ProcessStep
  <2> QED
    BY <1>t, <2>1, <2>2, ReaderStays
<1>5. CASE UNCHANGED rvars
  BY <1>t, <1>5, ReaderStays DEF rvars
<1> QED
  BY <1>1, <1>2, <1>3, <1>4, <1>5 DEF RNext

LEMMA NextKeepsRInv == RInv /\ [RNext]_rvars => RInv'
<1> SUFFICES ASSUME RInv, [RNext]_rvars PROVE RInv'
  OBVIOUS
<1>t. PInv /\ reader.after_seq \in Nat /\ reader.after_seq < process.next_seq
      /\ process.next_seq \in Nat
  BY DEF RInv, RTypeOK, PInv, PTypeOK
<1>1. GetsPage \/ ((ProcessStep \/ UNCHANGED pvars) /\ Stays)
  BY ReadShape
<1>2. PInv'
  BY <1>t, <1>1, ProcessKeeps DEF GetsPage
<1>3. RTypeOK'
  BY <1>1, <1>2 DEF RTypeOK, PInv, GetsPage, Stays, ReaderStates
<1>4. reader'.after_seq < process'.next_seq
  <2>1. CASE GetsPage
    <3>1. NextSeq(reader.after_seq) \in Nat /\ NextSeq(reader.after_seq) <= process.next_seq
      BY <1>t, PageIsWhole
    <3> QED
      BY <1>t, <2>1, <3>1 DEF GetsPage, pvars
  <2>2. CASE (ProcessStep \/ UNCHANGED pvars) /\ Stays
    <3>1. process'.next_seq >= process.next_seq /\ process'.next_seq \in Nat
      BY <1>t, <1>2, <2>2, ProcessGrows DEF PInv, PTypeOK
    <3> QED
      BY <1>t, <2>2, <3>1 DEF Stays
  <2> QED
    BY <1>1, <2>1, <2>2
<1> QED
  BY <1>2, <1>3, <1>4 DEF RInv

LEMMA NextSkipsNothing == RInv /\ NothingSkipped /\ [RNext]_rvars => NothingSkipped'
<1> SUFFICES ASSUME RInv, NothingSkipped, [RNext]_rvars, NEW c \in process'.output,
                    c.seq <= reader'.after_seq
             PROVE  c.seq \in reader'.got
  BY DEF NothingSkipped
<1>t. /\ PInv /\ reader.after_seq \in Nat /\ reader.after_seq < process.next_seq
      /\ process.next_seq \in Nat /\ \A d \in process.output : d.seq \in Nat
  BY DEF RInv, RTypeOK, PInv, PTypeOK, Chunks
<1>1. CASE GetsPage
  <2>1. c \in process.output /\ c.seq \in Nat /\ c.seq <= NextSeq(reader.after_seq) - 1
    BY <1>t, <1>1 DEF GetsPage, pvars
  <2>2. CASE c.seq <= reader.after_seq
    BY <1>1, <2>1, <2>2 DEF NothingSkipped, GetsPage
  <2>3. CASE c.seq > reader.after_seq
    <3>1. /\ NextSeq(reader.after_seq) \in Nat
          /\ reader.after_seq < c.seq /\ c.seq < NextSeq(reader.after_seq)
                => c \in Page(reader.after_seq)
      BY <1>t, <2>1, PageIsWhole
    <3>2. c \in Page(reader.after_seq)
      BY <1>t, <2>1, <2>3, <3>1
    <3> QED
      BY <1>1, <3>2 DEF GetsPage
  <2> QED
    BY <1>t, <2>1, <2>2, <2>3
<1>2. CASE (ProcessStep \/ UNCHANGED pvars) /\ Stays
  <2>1. c \in process.output \/ c.seq = process.next_seq
    BY <1>t, <1>2, ProcessGrows
  <2>2. c \in process.output
    BY <1>t, <1>2, <2>1 DEF Stays
  <2> QED
    BY <1>2, <2>2 DEF NothingSkipped, Stays
<1> QED
  BY <1>1, <1>2, ReadShape

LEMMA ReadingStarts == RInit => RInv /\ NothingSkipped
<1> SUFFICES ASSUME RInit PROVE RInv /\ NothingSkipped
  OBVIOUS
<1>1. PInv
  BY ProcessStarts DEF RInit
<1>2. reader \in ReaderStates /\ reader.after_seq = 0
  BY DEF RInit, ReaderStates
<1>3. process.next_seq = 1 /\ process.output = {}
  BY DEF RInit, PInit, RunningProcess
<1> QED
  BY <1>1, <1>2, <1>3 DEF RInv, RTypeOK, PInv, ReaderStates, NothingSkipped

\* Events are numbered without a gap, the streams are counted down to the close,
\* the close is the last event and what is retained is the tail of the output,
\* whatever the three tasks and the process map do in between (local_process.rs).
THEOREM ProcessSafe == RSpec => []RInv
<1>1. RInit => RInv
  BY ReadingStarts
<1>2. RInv /\ [RNext]_rvars => RInv'
  BY NextKeepsRInv
<1> QED
  BY <1>1, <1>2, PTL DEF RSpec

\* Paging loses nothing: what is retained and lies before the reader's position
\* was returned to it (exec_read).
THEOREM PagingSkipsNothing == RSpec => []NothingSkipped
<1>1. RInit => NothingSkipped
  BY ReadingStarts
<1>2. RInv /\ NothingSkipped /\ [RNext]_rvars => NothingSkipped'
  BY NextSkipsNothing
<1> QED
  BY <1>1, <1>2, ProcessSafe, PTL DEF RSpec


-----------------------------------------------------------------------------
(* The session of a remote client.                                          *)

\* A step of the process numbers at most one event, and only one that may come.
LEMMA ProcessHappens ==
    ASSUME PInv, ProcessStep \/ UNCHANGED pvars
    PROVE  \/ UNCHANGED events
           \/ \E e \in Events : /\ events' = Append(events, e)
                                /\ ~ process.closed
                                /\ e.kind = "exited" => ~ process.exited
                                /\ e.kind = "closed" => process.exited
<1>0. process.next_seq \in Nat
  BY DEF PInv, PTypeOK
<1>1. ASSUME NEW t \in Tasks, NEW kind \in {"output", "exited", "closed"}, NEW changed,
             Emit(t, kind, changed)
      PROVE  \E e \in Events : events' = Append(events, e) /\ e.kind = kind
  <2>1. PICK e : e = [seq |-> process.next_seq, kind |-> kind]
    OBVIOUS
  <2> QED
    BY <1>0, <1>1, <2>1 DEF Emit, Events
<1>2. ASSUME NEW t \in Tasks, NEW len \in ChunkLens, ReceiveChunk(t, len), ~ UNCHANGED events
      PROVE  \E e \in Events : events' = Append(events, e) /\ e.kind = "output" /\ ~ process.closed
  <2>1. PICK changed : Emit(t, "output", changed)
    BY <1>2 DEF ReceiveChunk
  <2>2. ~ process.closed
    BY <1>2 DEF ReceiveChunk, At, PInv, ClosedIsLast, Streams
  <2> QED
    BY <1>1, <2>1, <2>2
<1>3. ASSUME WatchExit, ~ UNCHANGED events
      PROVE  \E e \in Events : /\ events' = Append(events, e) /\ e.kind = "exited"
                               /\ ~ process.exited /\ ~ process.closed
  <2>1. PICK changed : Emit("exit", "exited", changed)
    BY <1>3 DEF WatchExit
  <2>2. ~ process.exited
    BY <1>3 DEF WatchExit, At, PInv, NotesAreEvents
  <2>3. ~ process.closed
    BY <2>2 DEF PInv, ClosedIsLast
  <2>4. "exit" \in Tasks
    BY DEF Tasks
  <2> QED
    BY <1>1, <2>1, <2>2, <2>3, <2>4
<1>4. ASSUME NEW t \in Tasks, MaybeEmitClosed(t), ~ UNCHANGED events
      PROVE  \E e \in Events : /\ events' = Append(events, e) /\ e.kind = "closed"
                               /\ process.exited /\ ~ process.closed
  <2>1. PICK changed : Emit(t, "closed", changed)
    BY <1>4 DEF MaybeEmitClosed
  <2>2. process.exited /\ ~ process.closed
    BY <1>4 DEF MaybeEmitClosed, MayClose
  <2> QED
    BY <1>1, <2>1, <2>2
<1>5. CASE \/ StartProcess \/ SpawnFailed \/ StartDropped \/ Cleanup \/ UNCHANGED pvars
           \/ Spawned \/ TerminateProcess \/ Shutdown
           \/ \E t \in Tasks : EndOfStream(t) \/ Notify(t) \/ FinishOutputStream(t)
  BY <1>5 DEF StartProcess, SpawnFailed, StartDropped, Cleanup, pvars, Spawned,
              TerminateProcess, Shutdown, EndOfStream, Notify, FinishOutputStream
<1> QED
  BY <1>2, <1>3, <1>4, <1>5 DEF ProcessStep

\* Events stay events.
LEMMA EventsStay ==
    ASSUME PInv, ProcessStep \/ UNCHANGED pvars
    PROVE  /\ Len(events) <= Len(events')
           /\ \A i \in DOMAIN events : i \in DOMAIN events' /\ events'[i] = events[i]
<1>1. events \in Seq(Events)
  BY DEF PInv, PTypeOK
<1>2. UNCHANGED events \/ \E e \in Events : events' = Append(events, e)
  BY ProcessHappens
<1> QED
  BY <1>1, <1>2

\* What the client does not do to the process.
LEMMA ClientShape ==
    ASSUME [CNext]_vars
    PROVE  ProcessStep \/ UNCHANGED pvars
<1>1. ASSUME NEW t \in Tasks, TaskStep(t) PROVE ProcessStep
  BY <1>1 DEF TaskStep, SendNotification, ProcessStep
<1>2. CASE Exec \/ ExecFailed \/ ServerSide
  BY <1>2 DEF Exec, ExecFailed, ServerSide, ProcessStep
<1>3. CASE \/ RegisterSession \/ Unregister \/ Disconnect \/ HandleNotification
           \/ ReaderEnds \/ Read \/ ReadAnswered \/ ReadFails \/ ReadRejected
  BY <1>3 DEF RegisterSession, Unregister, Disconnect, HandleNotification,
              ReaderEnds, Read, ReadAnswered, ReadFails, ReadRejected
<1>4. CASE UNCHANGED vars
  BY <1>4 DEF vars
<1> QED
  BY <1>1, <1>2, <1>3, <1>4 DEF CNext, HandleDisconnected, NotificationFails

\* What is on its way are events of the process and the disconnect.
CarriesEvents(q) ==
    /\ q \in Seq(Events \cup {Disconnected})
    /\ \A i \in DOMAIN q : q[i] # Disconnected => IsEvent(q[i])

\* Nothing is published: the process may move, and notifications of its events travel.
LEMMA SessionStays ==
    ASSUME CInv, ProcessStep \/ UNCHANGED pvars,
           UNCHANGED <<last_published_seq, pending, published, failure>>,
           link' \in {"up", "down"}, session' \in {"none", "registered", "removed"},
           disconnected' \in BOOLEAN, reading' \in BOOLEAN, listening' \in BOOLEAN,
           CarriesEvents(queue')
    PROVE  CInv'
<1>1. PInv'
  BY ProcessKeeps DEF CInv
<1>2. CTypeOK'
  BY <1>1 DEF CInv, CTypeOK, PInv, CarriesEvents
<1>3. /\ Len(events) <= Len(events')
      /\ \A i \in DOMAIN events : i \in DOMAIN events' /\ events'[i] = events[i]
  BY EventsStay DEF CInv
<1>4. \A e : IsEvent(e) => WillBeEvent(e)
  BY <1>3 DEF IsEvent, WillBeEvent
<1>5. SessionInStep'
  <2>1. \A i \in DOMAIN queue' : queue'[i] # Disconnected => WillBeEvent(queue'[i])
    BY <1>4 DEF CarriesEvents
  <2>2. \A e \in pending' : WillBeEvent(e)
    BY <1>4 DEF CInv, SessionInStep
  <2>3. Len(events) \in Nat /\ Len(events') \in Nat /\ last_published_seq \in Nat
    BY <1>1 DEF CInv, CTypeOK, PInv, PTypeOK
  <2>4. last_published_seq' <= Len(events')
    BY <1>3, <2>3 DEF CInv, SessionInStep
  <2>5. Delivered(Len(published))' = Delivered(Len(published)) /\ FailedAt' = FailedAt
    BY DEF Delivered, FailedAt
  <2>6. last_published_seq' = Delivered(Len(published))' /\ (failure' <=> FailedAt' # {})
    BY <2>5 DEF CInv, SessionInStep
  <2> QED
    BY <2>1, <2>2, <2>4, <2>6 DEF SessionInStep, WillBeEvent, IsEvent
<1>6. InOrder'
  BY <1>3 DEF CInv, InOrder, FailedAt, Delivered
<1> QED
  BY <1>1, <1>2, <1>5, <1>6 DEF CInv

LEMMA NothingPublished ==
    ASSUME CInv, [CNext]_vars, UNCHANGED <<last_published_seq, pending, published, failure>>,
           ~ HandleNotification, ~ ReaderEnds
    PROVE  CInv'
<1>t. /\ CarriesEvents(queue)
      /\ link \in {"up", "down"} /\ session \in {"none", "registered", "removed"}
      /\ disconnected \in BOOLEAN /\ reading \in BOOLEAN /\ listening \in BOOLEAN
  BY DEF CInv, CTypeOK, SessionInStep, CarriesEvents
<1>s. ProcessStep \/ UNCHANGED pvars
  BY ClientShape
<1>1. CarriesEvents(queue')
  <2>1. CASE UNCHANGED queue
    BY <1>t, <2>1
  <2>2. ASSUME NEW t \in Tasks, SendNotification(t), ~ UNCHANGED queue
        PROVE  CarriesEvents(queue')
    <3>1. queue' = Append(queue, task[t].note) /\ task[t].at = "send"
      BY <2>2 DEF SendNotification, Notify, At
    <3>2. task[t].note \in Events /\ IsEvent(task[t].note)
      BY <3>1 DEF CInv, PInv, PTypeOK, NotesAreEvents
    <3> QED
      BY <1>t, <3>1, <3>2 DEF CarriesEvents
  <2>3. CASE Disconnect
    <3>0. CASE UNCHANGED queue
      BY <2>1, <3>0
    <3>1. CASE \E k \in 0 .. Len(queue) : queue' = Append(SubSeq(queue, 1, k), Disconnected)
      <4>1. PICK k \in 0 .. Len(queue) : queue' = Append(SubSeq(queue, 1, k), Disconnected)
        BY <3>1
      <4>2. PICK part : part = SubSeq(queue, 1, k)
        OBVIOUS
      <4>3. /\ part \in Seq(Events \cup {Disconnected}) /\ Len(part) = k
            /\ \A i \in 1 .. k : part[i] = queue[i]
        BY <1>t, <4>2 DEF CarriesEvents
      <4>4. queue' = Append(part, Disconnected)
        BY <4>1, <4>2
      <4> QED
        BY <1>t, <4>3, <4>4 DEF CarriesEvents
    <3> QED
      BY <2>3, <3>0, <3>1 DEF Disconnect
  <2>4. UNCHANGED queue \/ Disconnect \/ \E t \in Tasks : SendNotification(t)
    <3>1. ASSUME NEW t \in Tasks, TaskStep(t) PROVE UNCHANGED queue \/ SendNotification(t)
      BY <3>1 DEF TaskStep, cvars
    <3>2. CASE \/ RegisterSession \/ Exec \/ ExecFailed \/ Unregister \/ ServerSide
               \/ Read \/ ReadAnswered \/ ReadFails \/ ReadRejected \/ UNCHANGED vars
      BY <3>2 DEF RegisterSession, Exec, ExecFailed, Unregister, ServerSide,
                  Read, ReadAnswered, ReadFails, ReadRejected, vars, cvars
    <3> QED
      BY <3>1, <3>2 DEF CNext, HandleDisconnected, NotificationFails
  <2> QED
    BY <2>1, <2>2, <2>3, <2>4
<1>2. /\ link' \in {"up", "down"} /\ session' \in {"none", "registered", "removed"}
      /\ disconnected' \in BOOLEAN /\ reading' \in BOOLEAN /\ listening' \in BOOLEAN
  <2>1. ASSUME NEW t \in Tasks, TaskStep(t) PROVE UNCHANGED <<link, listening, session, disconnected, reading>>
    BY <2>1 DEF TaskStep, cvars, SendNotification
  <2>2. CASE \/ RegisterSession \/ Exec \/ ExecFailed \/ Unregister \/ ServerSide
             \/ Read \/ ReadAnswered \/ ReadFails \/ ReadRejected \/ UNCHANGED vars \/ Disconnect
    BY <1>t, <2>2 DEF RegisterSession, Exec, ExecFailed, Unregister, ServerSide,
                Read, ReadAnswered, ReadFails, ReadRejected, vars, cvars, Disconnect
  <2> QED
    BY <1>t, <2>1, <2>2 DEF CNext, HandleDisconnected, NotificationFails
<1> QED
  BY <1>s, <1>1, <1>2, SessionStays

LEMMA TailCarries ==
    ASSUME NEW q, CarriesEvents(q), q # <<>>
    PROVE  CarriesEvents(Tail(q))
<1>1. /\ Tail(q) \in Seq(Events \cup {Disconnected})
      /\ \A i \in DOMAIN Tail(q) : i + 1 \in DOMAIN q /\ Tail(q)[i] = q[i + 1]
  BY DEF CarriesEvents
<1> QED
  BY <1>1 DEF CarriesEvents

\* The next events of the process, up to last, are published after what was before.
PublishesUpTo(last) ==
    /\ last \in Nat /\ last_published_seq <= last /\ last <= Len(events)
    /\ last_published_seq' = last
    /\ pending' \in SUBSET Events
    /\ \A f \in pending' : IsEvent(f) /\ f.seq > last
    /\ published' \in Seq(Events \cup {Failed})
    /\ Len(published') = Len(published) + (last - last_published_seq)
    /\ \A i \in DOMAIN published : published'[i] = published[i]
    /\ \A i \in 1 .. last - last_published_seq :
           published'[Len(published) + i] = events[last_published_seq + i]

LEMMA PublishesEvents ==
    ASSUME CInv, NEW e \in Events, IsEvent(e), PublishOrderedEvent(e)
    PROVE  \E last : PublishesUpTo(last)
<1>t. /\ last_published_seq \in Nat /\ last_published_seq <= Len(events)
      /\ events \in Seq(Events) /\ Len(events) \in Nat
      /\ published \in Seq(Events \cup {Failed}) /\ Len(published) \in Nat
  BY DEF CInv, CTypeOK, SessionInStep, PInv, PTypeOK
<1>1. PICK known : known = Arrived(e)
  OBVIOUS
<1>2. known \in SUBSET Events /\ \A f \in known : IsEvent(f)
  BY <1>1 DEF Arrived, CInv, CTypeOK, SessionInStep
<1>3. PICK last \in {last_published_seq} \cup {f.seq : f \in known} :
          UpTo(known, last) /\ Publish(known, last)
  BY <1>1 DEF PublishOrderedEvent
<1>4. \A f \in known : f.seq \in 1 .. Len(events) /\ f = events[f.seq]
  BY <1>t, <1>2 DEF IsEvent
<1>5. last \in Nat /\ last <= Len(events) /\ last_published_seq <= last
  <2>1. last \in Nat /\ last <= Len(events)
    BY <1>t, <1>3, <1>4
  <2>2. ASSUME last < last_published_seq PROVE FALSE
    \* an event that arrived is either new or was pending, above what is published
    <3>1. PICK f \in known : last = f.seq
      BY <1>3, <1>t, <2>2
    <3>2. f \in pending \/ f = e
      BY <1>1, <3>1 DEF Arrived
    <3>3. f.seq > last_published_seq
      BY <3>2 DEF CInv, CTypeOK, PublishOrderedEvent
    <3> QED
      BY <1>t, <2>1, <2>2, <3>1, <3>3
  <2> QED
    BY <1>t, <2>1, <2>2
<1>6. ASSUME NEW i \in 1 .. last - last_published_seq
      PROVE  (CHOOSE f \in known : f.seq = last_published_seq + i) = events[last_published_seq + i]
  <2>1. last_published_seq + i \in last_published_seq + 1 .. last
    BY <1>t, <1>5
  <2>2. \E f \in known : f.seq = last_published_seq + i
    BY <1>3, <2>1 DEF UpTo
  <2>3. PICK g : g = CHOOSE f \in known : f.seq = last_published_seq + i
    OBVIOUS
  <2>4. g \in known /\ g.seq = last_published_seq + i
    BY <2>2, <2>3
  <2> QED
    BY <1>4, <2>3, <2>4
<1>7. PICK run : run = [i \in 1 .. last - last_published_seq |->
                          CHOOSE f \in known : f.seq = last_published_seq + i]
  OBVIOUS
<1>8. /\ run \in Seq(Events) /\ Len(run) = last - last_published_seq
      /\ \A i \in 1 .. last - last_published_seq : run[i] = events[last_published_seq + i]
  <2>1. run = [i \in 1 .. last - last_published_seq |-> events[last_published_seq + i]]
    BY <1>6, <1>7
  <2>2. \A i \in 1 .. last - last_published_seq : events[last_published_seq + i] \in Events
    BY <1>t, <1>5
  <2>3. last - last_published_seq \in Nat
    BY <1>t, <1>5
  <2> QED
    BY <2>1, <2>2, <2>3
<1>9. published' = published \o run
  BY <1>3, <1>7 DEF Publish
<1>10. /\ published' \in Seq(Events \cup {Failed})
       /\ Len(published') = Len(published) + (last - last_published_seq)
       /\ \A i \in DOMAIN published : published'[i] = published[i]
       /\ \A i \in 1 .. last - last_published_seq :
              published'[Len(published) + i] = run[i]
  <2>1. run \in Seq(Events \cup {Failed})
    BY <1>8
  <2>2. last - last_published_seq \in Nat
    BY <1>t, <1>5
  <2>3. /\ published' \in Seq(Events \cup {Failed})
        /\ Len(published') = Len(published) + Len(run)
        /\ \A i \in 1 .. Len(published) + Len(run) :
               published'[i] = IF i <= Len(published) THEN published[i]
                               ELSE run[i - Len(published)]
    BY <1>t, <1>9, <2>1, ConcatProperties
  <2>4. \A i \in DOMAIN published : published'[i] = published[i]
    BY <1>t, <1>8, <2>2, <2>3
  <2>5. ASSUME NEW i \in 1 .. last - last_published_seq
        PROVE  published'[Len(published) + i] = run[i]
    <3>1. /\ Len(published) + i \in 1 .. Len(published) + Len(run)
          /\ ~ (Len(published) + i <= Len(published))
          /\ Len(published) + i - Len(published) = i
      BY <1>t, <1>8, <2>2
    <3> QED
      BY <2>3, <3>1
  <2> QED
    BY <1>8, <2>3, <2>4, <2>5
<1>11. pending' = {f \in known : f.seq > last} /\ last_published_seq' = last
  BY <1>3 DEF Publish
<1> QED
  BY <1>2, <1>5, <1>8, <1>10, <1>11 DEF PublishesUpTo

\* No event of a process is a failure.
LEMMA EventsDoNotFail == Failed \notin Events
BY DEF Failed, Events

\* Delivered after the step.
WillDeliver(n) == IF \E i \in FailedAt' : i <= n THEN n - 1 ELSE n

LEMMA PublishingKeeps ==
    ASSUME CInv, NEW last, PublishesUpTo(last),
           UNCHANGED <<pvars, link, listening, failure, disconnected, reading>>,
           session' \in {"none", "registered", "removed"}, CarriesEvents(queue')
    PROVE  CInv'
<1>t. /\ last_published_seq \in Nat /\ events \in Seq(Events) /\ Len(events) \in Nat
      /\ published \in Seq(Events \cup {Failed}) /\ Len(published) \in Nat
      /\ last \in Nat /\ last_published_seq <= last /\ last <= Len(events)
      /\ DOMAIN published = 1 .. Len(published) /\ DOMAIN published' = 1 .. Len(published')
  BY DEF CInv, CTypeOK, PInv, PTypeOK, PublishesUpTo
<1>1. PInv'
  BY ProcessKeeps DEF CInv
<1>2. CTypeOK'
  BY <1>1 DEF CInv, CTypeOK, PInv, CarriesEvents, PublishesUpTo
<1>k. PICK k \in Nat : k = last - last_published_seq
  BY <1>t
<1>3. Len(published') = Len(published) + k /\ last = last_published_seq + k
  BY <1>t, <1>k DEF PublishesUpTo
<1>4. ASSUME NEW i \in DOMAIN published', i > Len(published)
      PROVE  /\ i - Len(published) \in 1 .. k
             /\ last_published_seq + (i - Len(published)) \in DOMAIN events
             /\ published'[i] = events[last_published_seq + (i - Len(published))]
             /\ published'[i] # Failed
  <2>1. PICK j \in 1 .. k : i = Len(published) + j
    <3>1. i - Len(published) \in 1 .. k /\ i \in Nat
      BY <1>t, <1>3, <1>4
    <3>2. i = Len(published) + (i - Len(published))
      BY <1>t, <3>1
    <3> QED
      BY <3>1, <3>2
  <2>2. published'[Len(published) + j] = events[last_published_seq + j]
    BY <1>k DEF PublishesUpTo
  <2>3. last_published_seq + j \in DOMAIN events /\ i - Len(published) = j
    BY <1>t, <1>3, <2>1
  <2>4. events[last_published_seq + j] \in Events
    BY <1>t, <2>3
  <2> QED
    BY <2>1, <2>2, <2>3, <2>4, EventsDoNotFail
<1>5. \A i \in DOMAIN published : i \in DOMAIN published' /\ published'[i] = published[i]
  BY <1>t, <1>3 DEF PublishesUpTo
<1>6. FailedAt' = FailedAt /\ FailedAt \subseteq 1 .. Len(published)
  <2>1. ASSUME NEW i \in DOMAIN published', published'[i] = Failed
        PROVE  i \in DOMAIN published /\ published[i] = Failed
    <3>1. i <= Len(published)
      BY <1>t, <1>4, <2>1
    <3>2. i \in DOMAIN published
      BY <1>t, <3>1
    <3> QED
      BY <1>5, <2>1, <3>2
  <2>2. FailedAt' = FailedAt
    BY <1>5, <2>1 DEF FailedAt
  <2> QED
    BY <1>t, <2>2 DEF FailedAt
<1>7. ASSUME NEW i \in Nat, i >= Len(published)
      PROVE  WillDeliver(i) = last_published_seq + (i - Len(published))
  <2>1. last_published_seq = Delivered(Len(published))
    BY DEF CInv, SessionInStep
  <2>2. CASE FailedAt = {}
    BY <1>t, <1>6, <2>1, <2>2 DEF Delivered, WillDeliver
  <2>3. CASE FailedAt # {}
    <3>0. PICK f \in FailedAt : TRUE
      BY <2>3
    <3>1. f <= Len(published) /\ f <= i
      BY <1>t, <1>6, <1>7
    <3>2. last_published_seq = Len(published) - 1 /\ WillDeliver(i) = i - 1
      BY <1>6, <2>1, <3>0, <3>1 DEF Delivered, WillDeliver
    <3> QED
      BY <1>t, <3>2
  <2> QED
    BY <2>2, <2>3
<1>8. SessionInStep'
  <2>1. WillDeliver(Len(published')) = last
    <3>1. Len(published') \in Nat /\ Len(published') >= Len(published)
      BY <1>t, <1>3
    <3>2. last_published_seq + (Len(published') - Len(published)) = last
      BY <1>t, <1>3
    <3> QED
      BY <1>7, <3>1, <3>2
  <2>2. last_published_seq' = last /\ \A f \in pending' : IsEvent(f)'
    BY DEF PublishesUpTo, IsEvent, pvars
  <2>3. \A i \in DOMAIN queue' : queue'[i] # Disconnected => WillBeEvent(queue'[i])
    BY DEF CarriesEvents, IsEvent, WillBeEvent, pvars
  <2>4. failure' <=> FailedAt' # {}
    BY <1>6 DEF CInv, SessionInStep
  <2>5. last_published_seq' <= Len(events')
    BY <1>t, <2>2 DEF pvars
  <2> QED
    BY <2>1, <2>2, <2>3, <2>4, <2>5 DEF SessionInStep, WillBeEvent, IsEvent, Delivered, WillDeliver
<1>9. InOrder'
  <2>1. \A i, j \in FailedAt' : i = j
    BY <1>6 DEF CInv, InOrder
  <2>2. ASSUME NEW i \in DOMAIN published' \ FailedAt'
        PROVE  WillDeliver(i) \in DOMAIN events' /\ published'[i] = events'[WillDeliver(i)]
    <3>1. CASE i > Len(published)
      BY <1>t, <1>4, <1>7, <2>2, <3>1 DEF pvars
    <3>2. CASE i <= Len(published)
      <4>1. i \in DOMAIN published \ FailedAt
        BY <1>t, <1>6, <2>2, <3>2
      <4>2. WillDeliver(i) = Delivered(i)
        BY <1>6 DEF Delivered, WillDeliver
      <4> QED
        BY <1>5, <4>1, <4>2 DEF CInv, InOrder, pvars
    <3> QED
      BY <1>t, <2>2, <3>1, <3>2
  <2> QED
    BY <2>1, <2>2 DEF InOrder, Delivered, WillDeliver
<1> QED
  BY <1>1, <1>2, <1>8, <1>9 DEF CInv

\* The failure comes once, after what was delivered before.
LEMMA FailureKeeps ==
    ASSUME CInv, ~ failure, failure', failure' \in BOOLEAN, published' = Append(published, Failed),
           UNCHANGED <<pvars, link, last_published_seq, pending>>,
           session' \in {"none", "registered", "removed"},
           disconnected' \in BOOLEAN, reading' \in BOOLEAN, listening' \in BOOLEAN, CarriesEvents(queue')
    PROVE  CInv'
<1>t. /\ published \in Seq(Events \cup {Failed}) /\ Len(published) \in Nat
      /\ DOMAIN published = 1 .. Len(published)
  BY DEF CInv, CTypeOK
<1>p. /\ published' \in Seq(Events \cup {Failed}) /\ Len(published') = Len(published) + 1
      /\ DOMAIN published' = DOMAIN published \cup {Len(published) + 1}
      /\ published'[Len(published) + 1] = Failed
      /\ \A i \in DOMAIN published : published'[i] = published[i]
  BY <1>t
<1>1. PInv'
  BY ProcessKeeps DEF CInv
<1>2. CTypeOK'
  BY <1>1, <1>p DEF CInv, CTypeOK, PInv, CarriesEvents
<1>3. FailedAt = {}
  BY DEF CInv, SessionInStep
<1>4. FailedAt' = {Len(published) + 1}
  BY <1>3, <1>p DEF FailedAt
<1>5. WillDeliver(Len(published')) = Len(published) /\ Delivered(Len(published)) = Len(published)
  BY <1>t, <1>p, <1>3, <1>4 DEF WillDeliver, Delivered
<1>6. \A i \in DOMAIN published : WillDeliver(i) = Delivered(i)
  BY <1>t, <1>3, <1>4 DEF WillDeliver, Delivered
<1>7. SessionInStep'
  <2>1. \A i \in DOMAIN queue' : queue'[i] # Disconnected => WillBeEvent(queue'[i])
    BY DEF CarriesEvents, IsEvent, WillBeEvent, pvars
  <2>2. \A e \in pending' : WillBeEvent(e)
    BY DEF CInv, SessionInStep, IsEvent, WillBeEvent, pvars
  <2>3. last_published_seq' = WillDeliver(Len(published')) /\ last_published_seq' <= Len(events')
    BY <1>5 DEF CInv, SessionInStep, pvars
  <2>4. failure' <=> FailedAt' # {}
    BY <1>4
  <2> QED
    BY <2>1, <2>2, <2>3, <2>4 DEF SessionInStep, WillBeEvent, IsEvent, Delivered, WillDeliver
<1>8. InOrder'
  <2>1. \A i, j \in FailedAt' : i = j
    BY <1>4
  <2>2. ASSUME NEW i \in DOMAIN published' \ FailedAt'
        PROVE  WillDeliver(i) \in DOMAIN events' /\ published'[i] = events'[WillDeliver(i)]
    <3>1. i \in DOMAIN published \ FailedAt
      BY <1>3, <1>4, <1>p, <2>2
    <3> QED
      BY <1>6, <1>p, <3>1 DEF CInv, InOrder, pvars
  <2> QED
    BY <2>1, <2>2 DEF InOrder, Delivered, WillDeliver
<1> QED
  BY <1>1, <1>2, <1>7, <1>8 DEF CInv

LEMMA SetFailureKeeps ==
    ASSUME CInv, SetFailure, UNCHANGED <<pvars, link, last_published_seq, pending>>,
           session' \in {"none", "registered", "removed"},
           disconnected' \in BOOLEAN, reading' \in BOOLEAN, listening' \in BOOLEAN, CarriesEvents(queue')
    PROVE  CInv'
<1>1. failure \in BOOLEAN /\ link \in {"up", "down"}
  BY DEF CInv, CTypeOK
<1>2. CASE failure
  <2>1. UNCHANGED <<failure, published>>
    BY <1>1, <1>2, Zenon DEF SetFailure
  <2> QED
    BY <1>1, <2>1, SessionStays
<1>3. CASE ~ failure
  <2>1. failure' /\ failure' \in BOOLEAN /\ published' = Append(published, Failed)
    BY <1>3, Zenon DEF SetFailure
  <2> QED
    BY <1>3, <2>1, FailureKeeps
<1> QED
  BY <1>2, <1>3

LEMMA HandlingKeeps ==
    ASSUME CInv, HandleNotification \/ ReaderEnds
    PROVE  CInv'
<1>t. /\ CarriesEvents(queue)
      /\ link \in {"up", "down"} /\ session \in {"none", "registered", "removed"}
      /\ disconnected \in BOOLEAN /\ reading \in BOOLEAN /\ listening \in BOOLEAN
  BY DEF CInv, CTypeOK, SessionInStep, CarriesEvents
<1>1. CarriesEvents(queue')
  <2>1. CASE queue # <<>> /\ queue' = Tail(queue)
    BY <1>t, <2>1, TailCarries
  <2>2. CASE queue' = <<>>
    BY <2>2 DEF CarriesEvents
  <2> QED
    BY <2>1, <2>2 DEF HandleNotification, ReaderEnds
<1>2. CASE HandleNotification
  <2>1. UNCHANGED <<pvars, link, listening, failure, disconnected, reading>> /\ queue # <<>>
    BY <1>2 DEF HandleNotification
  <2>2. session' \in {"none", "registered", "removed"}
    BY <1>t, <1>2 DEF HandleNotification
  <2>3. CASE PublishOrderedEvent(Head(queue))
    <3>1. Head(queue) # Disconnected /\ Head(queue) = queue[1] /\ 1 \in DOMAIN queue
      BY <1>t, <1>2, <2>1 DEF HandleNotification, CarriesEvents
    <3>2. Head(queue) \in Events /\ IsEvent(Head(queue))
      BY <1>t, <3>1 DEF CarriesEvents
    <3>3. PICK last : PublishesUpTo(last)
      BY <2>3, <3>2, PublishesEvents
    <3> QED
      BY <1>1, <2>1, <2>2, <3>3, PublishingKeeps
  <2>4. CASE UNCHANGED <<last_published_seq, pending, published>>
    BY <1>t, <1>1, <2>1, <2>2, <2>4, SessionStays
  <2> QED
    BY <1>2, <2>3, <2>4 DEF HandleNotification
<1>3. CASE ReaderEnds
  <2>1. /\ UNCHANGED <<pvars, link, last_published_seq, pending, reading>>
        /\ disconnected' \in BOOLEAN /\ listening' \in BOOLEAN
        /\ session' \in {"none", "registered", "removed"}
    BY <1>t, <1>3 DEF ReaderEnds
  <2>2. SetFailure \/ UNCHANGED <<failure, published>>
    BY <1>3 DEF ReaderEnds
  <2>3. CASE SetFailure
    BY <1>t, <1>1, <2>1, <2>3, SetFailureKeeps
  <2>4. CASE UNCHANGED <<failure, published>>
    BY <1>t, <1>1, <2>1, <2>4, SessionStays
  <2> QED
    BY <2>2, <2>3, <2>4
<1> QED
  BY <1>2, <1>3

LEMMA NextKeepsCInv == CInv /\ [CNext]_vars => CInv'
<1> SUFFICES ASSUME CInv, [CNext]_vars PROVE CInv'
  OBVIOUS
<1>1. CASE HandleNotification \/ ReaderEnds
  BY <1>1, HandlingKeeps
<1>2. CASE ReadFails \/ ReadRejected
  <2>1. /\ UNCHANGED <<pvars, link, queue, session, last_published_seq, pending>> /\ SetFailure
        /\ disconnected' \in BOOLEAN /\ reading' \in BOOLEAN /\ listening' \in BOOLEAN
    BY <1>2 DEF ReadFails, ReadRejected, CInv, CTypeOK
  <2>2. session' \in {"none", "registered", "removed"} /\ CarriesEvents(queue')
    BY <2>1 DEF CInv, CTypeOK, SessionInStep, CarriesEvents
  <2> QED
    BY <2>1, <2>2, SetFailureKeeps
<1>3. CASE ~ (HandleNotification \/ ReaderEnds \/ ReadFails \/ ReadRejected)
  <2>1. ASSUME NEW t \in Tasks, TaskStep(t)
        PROVE  UNCHANGED <<last_published_seq, pending, published, failure>>
    BY <2>1 DEF TaskStep, cvars, SendNotification
  <2>2. ASSUME \/ RegisterSession \/ Exec \/ ExecFailed \/ Unregister \/ ServerSide
               \/ Read \/ ReadAnswered \/ UNCHANGED vars \/ Disconnect
        PROVE  UNCHANGED <<last_published_seq, pending, published, failure>>
    BY <2>2 DEF RegisterSession, Exec, ExecFailed, Unregister, ServerSide,
                Read, ReadAnswered, vars, cvars, Disconnect
  <2>3. UNCHANGED <<last_published_seq, pending, published, failure>>
    BY <1>3, <2>1, <2>2 DEF CNext, HandleDisconnected, NotificationFails
  <2> QED
    BY <1>3, <2>3, NothingPublished
<1> QED
  BY <1>1, <1>2, <1>3

LEMMA ClientStarts == CInit => CInv
<1> SUFFICES ASSUME CInit PROVE CInv
  OBVIOUS
<1>1. PInv
  BY ProcessStarts DEF CInit
<1>2. CTypeOK
  <2>1. PTypeOK
    BY <1>1 DEF PInv
  <2>2. failure \in BOOLEAN /\ disconnected \in BOOLEAN /\ reading \in BOOLEAN /\ listening \in BOOLEAN
    BY Zenon DEF CInit
  <2>3. queue \in Seq(Events \cup {Disconnected}) /\ published \in Seq(Events \cup {Failed})
    BY DEF CInit
  <2>4. last_published_seq \in Nat /\ pending \in SUBSET Events
        /\ \A e \in pending : e.seq > last_published_seq
    BY DEF CInit
  <2>5. link \in {"up", "down"} /\ session \in {"none", "registered", "removed"}
    BY DEF CInit
  <2> QED
    BY <2>1, <2>2, <2>3, <2>4, <2>5 DEF CTypeOK
<1>3. FailedAt = {} /\ Len(published) = 0 /\ DOMAIN published = {} /\ DOMAIN queue = {}
  BY DEF CInit, FailedAt
<1>4. SessionInStep
  BY <1>3 DEF CInit, PInit, SessionInStep, Delivered
<1>5. InOrder
  BY <1>3 DEF InOrder
<1> QED
  BY <1>1, <1>2, <1>4, <1>5 DEF CInv

\* A subscriber of a remote process gets the very events of the process, in the
\* order of their numbers, without a gap and without a repeat, and the failure of
\* the transport once, in whatever order the tasks send and the client's two
\* tasks learn of a disconnect (client.rs, publish_ordered_event, set_failure).
THEOREM SessionInOrder == CSpec => []CInv
<1>1. CInit => CInv
  BY ClientStarts
<1>2. CInv /\ [CNext]_vars => CInv'
  BY NextKeepsCInv
<1> QED
  BY <1>1, <1>2, PTL DEF CSpec

-----------------------------------------------------------------------------
(* The stream of events that ExecProcessEvent promises.                     *)

Kinds == [i \in DOMAIN events |-> events[i].kind]

\* A step of the process lets an event happen, or none.
LEMMA StepHappens ==
    ASSUME CInv, CInv', [CNext]_vars, UNCHANGED last_published_seq
    PROVE  \/ UNCHANGED <<Kinds, Delivered(Len(published))>>
           \/ \E kind \in {"output", "exited", "closed"} : Stream!Happen(kind)
<1>t. events \in Seq(Events) /\ Len(events) \in Nat /\ DOMAIN events = 1 .. Len(events)
  BY DEF CInv, PInv, PTypeOK
<1>1. UNCHANGED Delivered(Len(published))
  <2>1. last_published_seq = Delivered(Len(published))
    BY DEF CInv, SessionInStep
  <2>2. last_published_seq' = Delivered(Len(published))'
    BY DEF CInv, SessionInStep
  <2> QED
    BY <2>1, <2>2
<1>2. CASE UNCHANGED events
  BY <1>1, <1>2 DEF Kinds
<1>3. CASE ~ UNCHANGED events
  <2>1. PICK e \in Events : /\ events' = Append(events, e)
                            /\ ~ process.closed
                            /\ e.kind = "exited" => ~ process.exited
                            /\ e.kind = "closed" => process.exited
    BY <1>3, ClientShape, ProcessHappens DEF CInv
  <2>2. /\ process.exited <=> \E i \in DOMAIN events : events[i].kind = "exited"
        /\ process.closed <=> \E i \in DOMAIN events : events[i].kind = "closed"
    BY DEF CInv, PInv, KindsRecorded
  <2>3. PICK kind \in {"output", "exited", "closed"} : kind = e.kind
    BY DEF Events
  <2>4. \A k : (\E i \in DOMAIN Kinds : Kinds[i] = k) <=> \E i \in DOMAIN events : events[i].kind = k
    BY DEF Kinds
  <2>5. Kinds' = Append(Kinds, kind)
    <3>1. /\ events' = Append(events, e) /\ DOMAIN events' = 1 .. Len(events) + 1
          /\ \A i \in 1 .. Len(events) : events'[i] = events[i]
          /\ events'[Len(events) + 1] = e
      BY <1>t, <2>1
    <3>2. /\ Kinds' = [i \in 1 .. Len(events) + 1 |-> events'[i].kind]
          /\ Kinds = [i \in 1 .. Len(events) |-> events[i].kind]
      BY <1>t, <3>1 DEF Kinds
    <3>3. /\ \A i \in 1 .. Len(events) : events[i].kind \in {"output", "exited", "closed"}
          /\ \A i \in 1 .. Len(events) + 1 : events'[i].kind \in {"output", "exited", "closed"}
      <4>1. \A x \in Events : x.kind \in {"output", "exited", "closed"}
        BY DEF Events
      <4>2. \A i \in 1 .. Len(events) : events[i] \in Events
        BY <1>t
      <4>3. \A i \in 1 .. Len(events) + 1 : events'[i] \in Events
        BY <1>t, <2>1, <3>1, <4>2
      <4> QED
        BY <4>1, <4>2, <4>3
    <3>4. /\ Kinds \in Seq({"output", "exited", "closed"}) /\ Len(Kinds) = Len(events)
          /\ Kinds' \in Seq({"output", "exited", "closed"}) /\ Len(Kinds') = Len(events) + 1
      <4>1. Len(events) + 1 \in Nat
        BY <1>t
      <4>2. Kinds \in Seq({"output", "exited", "closed"}) /\ Len(Kinds) = Len(events)
        BY <1>t, <3>2, <3>3
      <4>3. PICK later : later = [i \in 1 .. Len(events) + 1 |-> events'[i].kind]
        OBVIOUS
      <4>4. later \in Seq({"output", "exited", "closed"}) /\ Len(later) = Len(events) + 1
        BY <3>3, <4>1, <4>3
      <4> QED
        BY <3>2, <4>2, <4>3, <4>4
    <3>5. /\ Append(Kinds, kind) \in Seq({"output", "exited", "closed"})
          /\ Len(Append(Kinds, kind)) = Len(events) + 1
          /\ \A i \in 1 .. Len(events) : Append(Kinds, kind)[i] = Kinds[i]
          /\ Append(Kinds, kind)[Len(events) + 1] = kind
      BY <1>t, <3>4, AppendProperties
    <3>6. \A i \in 1 .. Len(events) + 1 : Kinds'[i] = Append(Kinds, kind)[i]
      BY <1>t, <2>3, <3>1, <3>2, <3>5
    <3> QED
      BY <3>4, <3>5, <3>6, SeqEqual
  <2>6. Stream!Happen(kind)
    BY <1>1, <2>1, <2>2, <2>3, <2>4, <2>5 DEF Stream!Happen, Stream!Happened, Kinds
  <2> QED
    BY <2>6
<1> QED
  BY <1>2, <1>3

\* Publishing lets the subscriber see the next events.
LEMMA StepSees ==
    ASSUME CInv, CInv', [CNext]_vars, ~ UNCHANGED last_published_seq
    PROVE  Stream!See
<1>1. HandleNotification /\ ~ UNCHANGED <<last_published_seq, pending, published>>
  <2>1. ASSUME NEW t \in Tasks, TaskStep(t) PROVE UNCHANGED last_published_seq
    BY <2>1 DEF TaskStep, cvars, SendNotification
  <2>2. ASSUME \/ RegisterSession \/ Exec \/ ExecFailed \/ Unregister \/ ServerSide
               \/ Read \/ ReadAnswered \/ ReadFails \/ ReadRejected \/ ReaderEnds
               \/ UNCHANGED vars \/ Disconnect
        PROVE  UNCHANGED last_published_seq
    BY <2>2 DEF RegisterSession, Exec, ExecFailed, Unregister, ServerSide, ReaderEnds,
                Read, ReadAnswered, ReadFails, ReadRejected, vars, cvars, Disconnect
  <2> QED
    BY <2>1, <2>2 DEF CNext, HandleDisconnected, NotificationFails
<1>2. PublishOrderedEvent(Head(queue)) /\ UNCHANGED pvars
  BY <1>1 DEF HandleNotification
<1>3. Head(queue) \in Events /\ IsEvent(Head(queue))
  <2>1. CarriesEvents(queue)
    BY DEF CInv, CTypeOK, SessionInStep, CarriesEvents
  <2>2. Head(queue) # Disconnected /\ Head(queue) = queue[1] /\ 1 \in DOMAIN queue
    BY <1>1, <2>1 DEF HandleNotification, CarriesEvents
  <2> QED
    BY <2>1, <2>2 DEF CarriesEvents
<1>4. PICK last : PublishesUpTo(last)
  BY <1>2, <1>3, PublishesEvents
<1>5. /\ last_published_seq \in Nat /\ last_published_seq' = last /\ last \in Nat
      /\ last_published_seq < last /\ last <= Len(events)
  BY <1>4 DEF PublishesUpTo, CInv, CTypeOK
<1>6. last_published_seq = Delivered(Len(published)) /\ last_published_seq' = Delivered(Len(published))'
  BY DEF CInv, SessionInStep
<1>7. Len(Kinds) = Len(events) /\ UNCHANGED Kinds
  <2>1. events \in Seq(Events) /\ UNCHANGED events
    BY <1>2 DEF CInv, PInv, PTypeOK, pvars
  <2> QED
    BY <2>1 DEF Kinds
<1> QED
  BY <1>5, <1>6, <1>7 DEF Stream!See, Kinds

\* A remote process is the stream of events that process.rs promises, seen in its
\* order: the step that numbers an event lets it happen, the step that publishes
\* lets it be seen, and no other step touches either.
THEOREM ClientImplementsStream == CSpec => ImplementsStream
<1>1. CInit => Stream!StreamInit
  <2> SUFFICES ASSUME CInit PROVE Stream!StreamInit
    OBVIOUS
  <2>1. events = <<>> /\ published = <<>>
    BY DEF CInit, PInit
  <2>2. Kinds = <<>>
    BY <2>1 DEF Kinds
  <2>3. Delivered(Len(published)) = 0
    BY <2>1 DEF Delivered, FailedAt
  <2> QED
    BY <2>2, <2>3 DEF Stream!StreamInit, Kinds
<1>2. CInv /\ CInv' /\ [CNext]_vars => [Stream!StreamNext]_(<<Kinds, Delivered(Len(published))>>)
  BY StepHappens, StepSees DEF Stream!StreamNext
<1> QED
  BY <1>1, <1>2, SessionInOrder, PTL DEF CSpec, ImplementsStream, Stream!StreamSpec, Kinds
=============================================================================
