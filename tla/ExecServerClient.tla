--------------------------- MODULE ExecServerClient ---------------------------
(***************************************************************************)
(* A process of a remote exec server as its client sees it                 *)
(* (exec-server/src/client.rs, rpc.rs, remote_process.rs).  Notifications  *)
(* arrive in the order they were sent, which is not the order of their     *)
(* numbers; publish_ordered_event puts them back in order.  Two tasks learn *)
(* of a disconnect: the reader task, after the notifications queued before *)
(* it, and a call in flight, as soon as drain_pending fails it.  A          *)
(* notification that does not decode ends the reader task too.              *)
(***************************************************************************)
EXTENDS ExecProcess

VARIABLES
    link,                 \* is the transport up
    queue,                \* events_rx: notifications, then the disconnect
    listening,            \*   until the reader task returns
    session,              \* the route of the process in Inner.sessions
    last_published_seq,   \* OrderedSessionEvents
    pending,              \*   and its events that arrived early
    published,            \* what subscribers have received
    failure,              \* SessionState.failure is set
    disconnected,         \* Inner.disconnected is set
    reading               \* a read call is in flight

cvars == <<link, queue, listening, session, last_published_seq, pending, published,
           failure, disconnected, reading>>

vars == <<pvars, cvars>>

Failed == [seq |-> 0, kind |-> "failed"]

Disconnected == [seq |-> 0, kind |-> "disconnected"]

CTypeOK ==
    /\ PTypeOK
    /\ link \in {"up", "down"}
    /\ queue \in Seq(Events \cup {Disconnected})
    /\ session \in {"none", "registered", "removed"}
    /\ last_published_seq \in Nat
    /\ pending \in SUBSET Events
    /\ \A e \in pending : e.seq > last_published_seq
    /\ published \in Seq(Events \cup {Failed})
    /\ failure \in BOOLEAN /\ disconnected \in BOOLEAN
    /\ reading \in BOOLEAN /\ listening \in BOOLEAN

CInit ==
    /\ PInit
    /\ link = "up" /\ queue = <<>> /\ listening = TRUE /\ session = "none"
    /\ last_published_seq = 0 /\ pending = {} /\ published = <<>>
    /\ failure = FALSE /\ disconnected = FALSE /\ reading = FALSE

-----------------------------------------------------------------------------
\* RemoteProcess::start: the route is registered before the request is sent.

RegisterSession ==
    /\ session = "none" /\ ~ disconnected
    /\ session' = "registered"
    /\ UNCHANGED <<pvars, link, queue, listening, last_published_seq, pending, published,
                   failure, disconnected, reading>>

Exec ==
    /\ session = "registered" /\ link = "up" /\ ~ disconnected
    /\ StartProcess
    /\ UNCHANGED cvars

ExecFailed ==
    /\ SpawnFailed
    /\ session' = "removed"
    /\ UNCHANGED <<link, queue, listening, last_published_seq, pending, published,
                   failure, disconnected, reading>>

\* The handle is dropped, or the start failed with the transport.
Unregister ==
    /\ session = "registered"
    /\ session' = "removed"
    /\ UNCHANGED <<pvars, link, queue, listening, last_published_seq, pending, published,
                   failure, disconnected, reading>>

-----------------------------------------------------------------------------
\* The server's tasks, and the transport.

SendNotification(t) ==
    /\ Notify(t)
    /\ queue' = IF link = "up" /\ listening THEN Append(queue, task[t].note) ELSE queue
    /\ UNCHANGED <<link, listening, session, last_published_seq, pending, published,
                   failure, disconnected, reading>>

TaskStep(t) ==
    \/ (\E len \in ChunkLens : ReceiveChunk(t, len)) /\ UNCHANGED cvars
    \/ EndOfStream(t) /\ UNCHANGED cvars
    \/ t = "exit" /\ WatchExit /\ UNCHANGED cvars
    \/ FinishOutputStream(t) /\ UNCHANGED cvars
    \/ MaybeEmitClosed(t) /\ UNCHANGED cvars
    \/ SendNotification(t)

\* What is on its way is lost from some point on.
Disconnect ==
    /\ link = "up"
    /\ link' = "down"
    /\ \/ listening /\ \E k \in 0 .. Len(queue) :
                           queue' = Append(SubSeq(queue, 1, k), Disconnected)
       \/ ~ listening /\ UNCHANGED queue
    /\ UNCHANGED <<pvars, listening, session, last_published_seq, pending, published,
                   failure, disconnected, reading>>

\* The connection's handler ends; its session expires and is shut down later.
ServerSide ==
    /\ \/ Spawned
       \/ link = "down" /\ (StartDropped \/ Shutdown)
       \/ Cleanup
       \/ link = "up" /\ ~ disconnected /\ TerminateProcess
    /\ UNCHANGED cvars

-----------------------------------------------------------------------------
\* handle_server_notification.

Arrived(e) == IF \E f \in pending : f.seq = e.seq THEN pending ELSE pending \cup {e}

\* The events known now go on without a gap up to last.
UpTo(known, last) ==
    /\ \A n \in last_published_seq + 1 .. last : \E f \in known : f.seq = n
    /\ \A f \in known : f.seq # last + 1

Publish(known, last) ==
    /\ last_published_seq' = last
    /\ pending' = {f \in known : f.seq > last}
    /\ published' = published \o [i \in 1 .. last - last_published_seq |->
                                    CHOOSE f \in known : f.seq = last_published_seq + i]

\* Mutant: only the event that arrived is published, not those it makes ready.
Mutant_PublishOne(e) ==
    /\ e.seq > last_published_seq
    /\ Publish(Arrived(e), IF \E f \in Arrived(e) : f.seq = last_published_seq + 1
                           THEN last_published_seq + 1 ELSE last_published_seq)

PublishOrderedEvent(e) ==
    /\ e.seq > last_published_seq
    /\ \E last \in {last_published_seq} \cup {f.seq : f \in Arrived(e)} :
           UpTo(Arrived(e), last) /\ Publish(Arrived(e), last)

HandleNotification ==
    /\ queue # <<>> /\ Head(queue) # Disconnected
    /\ queue' = Tail(queue)
    /\ \/ /\ session = "registered"
          /\ PublishOrderedEvent(Head(queue))
          /\ session' = IF \E i \in DOMAIN published' : published'[i].kind = "closed"
                        THEN "removed" ELSE session
       \/ /\ session # "registered" \/ Head(queue).seq <= last_published_seq
          /\ UNCHANGED <<session, last_published_seq, pending, published>>
    /\ UNCHANGED <<pvars, link, listening, failure, disconnected, reading>>

\* Mutant: the failure is published by everyone who sees it.
Mutant_SetFailure ==
    /\ failure' = TRUE
    /\ published' = Append(published, Failed)

\* Failed is published once, by whoever sets the failure first.
SetFailure ==
    /\ failure' = TRUE
    /\ published' = IF failure THEN published ELSE Append(published, Failed)

\* record_disconnected and fail_all_in_flight_work, by the reader task, which
\* returns: nothing more is taken from the queue.
ReaderEnds ==
    /\ queue' = <<>> /\ listening' = FALSE
    /\ disconnected' = TRUE
    /\ \/ session = "registered" /\ SetFailure /\ session' = "removed"
       \/ session # "registered" /\ UNCHANGED <<session, failure, published>>
    /\ UNCHANGED <<pvars, link, last_published_seq, pending, reading>>

HandleDisconnected ==
    /\ queue # <<>> /\ Head(queue) = Disconnected
    /\ ReaderEnds

\* handle_server_notification fails: a notification, of this process or of another
\* user of the connection, does not decode. Sessions fail, the transport stays up.
NotificationFails ==
    /\ listening
    /\ ReaderEnds

\* Session::read.  A failed session answers by itself; otherwise the call is
\* in flight until the server answers (ExecRead says what) ...
Read ==
    /\ ~ reading /\ ~ failure /\ ~ disconnected
    /\ entry # "none"
    /\ reading' = TRUE
    /\ UNCHANGED <<pvars, link, queue, listening, session, last_published_seq, pending,
                   published, failure, disconnected>>

ReadAnswered ==
    /\ reading /\ link = "up"
    /\ reading' = FALSE
    /\ UNCHANGED <<pvars, link, queue, listening, session, last_published_seq, pending,
                   published, failure, disconnected>>

\* ... or until it fails with the transport: before it is sent, or by
\* drain_pending.  Then the session fails, whatever is still queued.
ReadFails ==
    /\ reading /\ link = "down"
    /\ reading' = FALSE
    /\ disconnected' = TRUE
    /\ SetFailure
    /\ UNCHANGED <<pvars, link, queue, listening, session, last_published_seq, pending>>

\* A call made after somebody recorded the disconnect is not sent.
ReadRejected ==
    /\ ~ reading /\ ~ failure /\ disconnected
    /\ entry # "none"
    /\ SetFailure
    /\ UNCHANGED <<pvars, link, queue, listening, session, last_published_seq, pending,
                   disconnected, reading>>

CNext ==
    \/ RegisterSession \/ Exec \/ ExecFailed \/ Unregister
    \/ \E t \in Tasks : TaskStep(t)
    \/ Disconnect \/ ServerSide
    \/ HandleNotification \/ HandleDisconnected \/ NotificationFails
    \/ Read \/ ReadAnswered \/ ReadFails \/ ReadRejected

(***************************************************************************)
(* Tokio runs every task that can run; a killed child's streams and exit   *)
(* end; timers fire.  Nothing is assumed of a child that is not killed, of *)
(* the transport, or of callers.                                           *)
(***************************************************************************)
CFairness ==
    /\ \A t \in Tasks :
        /\ WF_vars(SendNotification(t))
        /\ WF_vars((FinishOutputStream(t) \/ MaybeEmitClosed(t)) /\ UNCHANGED cvars)
        /\ WF_vars(process.killed /\ TaskStep(t))
    /\ WF_vars(HandleNotification) /\ WF_vars(HandleDisconnected)

CSpec == CInit /\ [][CNext]_vars /\ CFairness

-----------------------------------------------------------------------------
FailedAt == {i \in DOMAIN published : published[i] = Failed}

\* How many of the first n published are events of the process.
Delivered(n) == IF \E i \in FailedAt : i <= n THEN n - 1 ELSE n

\* The session presents the promised stream: PublishOrderedEvent hides that
\* the three tasks send in another order than they number, and nothing of a
\* process is numbered after its close.
Stream == INSTANCE EventStream
    WITH log <- [i \in DOMAIN events |-> events[i].kind], seen <- Delivered(Len(published))

ImplementsStream == Stream!StreamSpec

\* Subscribers get the very events of the process, in the order of their
\* numbers, without a gap and without a repeat; the failure comes once.
InOrder ==
    /\ \A i, j \in FailedAt : i = j
    /\ \A i \in DOMAIN published \ FailedAt :
           Delivered(i) \in DOMAIN events /\ published[i] = events[Delivered(i)]

\* What is on its way, and what has arrived early, are events of the process; the
\* session counts what it has delivered and knows whether it has failed.
SessionInStep ==
    /\ \A i \in DOMAIN queue : queue[i] # Disconnected => IsEvent(queue[i])
    /\ \A e \in pending : IsEvent(e)
    /\ last_published_seq = Delivered(Len(published))
    /\ last_published_seq <= Len(events)
    /\ failure <=> FailedAt # {}

\* The invariant of the client's session: well typed, in step with the process,
\* and publishing in order.
CInv == CTypeOK /\ PInv /\ SessionInStep /\ InOrder

\* The child has exited and its streams have ended: the subscriber is told, of
\* the close or of a failure, unless it gave up its handle.
Over ==
    process.exited /\ \A t \in Streams : task[t].at \in {"finish", "close", "done"}

Told ==
    \/ \E i \in DOMAIN published : published[i].kind \in {"closed", "failed"}
    \/ session = "removed"

SubscriberTold == Over ~> Told
=============================================================================
