----------------------------- MODULE ExecSessions -----------------------------
(***************************************************************************)
(* The sessions of the exec server (exec-server/src/server: processor.rs,  *)
(* handler.rs, session_registry.rs).  A connection attaches to a new        *)
(* session or resumes one; when it ends it detaches, and the session with   *)
(* its processes is kept for DETACHED_SESSION_TTL.  attach holds the lock   *)
(* of the registry; detach clears the attachment under one lock and the     *)
(* notification sender under another.                                       *)
(***************************************************************************)
EXTENDS Naturals, FiniteSets

CONSTANTS
    Connections,   \* one ConnectionId each: a connection attaches once
    Sessions,
    None

ASSUME SessionAssumption == None \notin Connections \cup Sessions \cup {"ahead", "passed"}

VARIABLES
    registry,     \* the ids in SessionRegistry.sessions
    attachment,   \* AttachmentState of every entry created
    sender,       \* the notification sender of the entry's processes
    running,      \* sessions with a running process
    shut,         \* "shut" entries, or "lost" ones: removed and never shut down
    conn,         \* the connections, as run_connection sees them
    timers,       \* expire_if_detached tasks, asleep
    overtook      \* history: connections that resumed a session during a detach

svars == <<registry, attachment, sender, running, shut, conn, timers, overtook>>

NoAttachment == [current |-> None, detached |-> None, expires |-> None]

STypeOK ==
    /\ registry \in SUBSET Sessions
    /\ attachment \in [Sessions -> [current  : Connections \cup {None},
                                    detached : Connections \cup {None},
                                    expires  : {None, "ahead", "passed"}]]
    /\ sender \in [Sessions -> Connections \cup {None}]
    /\ running \in SUBSET Sessions
    /\ shut \in [Sessions -> {"no", "shut", "lost"}]
    /\ conn \in [Connections ->
                    [at : {"new", "expiring", "attached", "ready", "detaching", "closed"},
                     session : Sessions \cup {None}]]
    /\ \A c \in Connections : conn[c].session = None <=> conn[c].at \in {"new", "closed"}
    /\ timers \in SUBSET (Sessions \X Connections)
    /\ overtook \in SUBSET Connections

SInit ==
    /\ registry = {}
    /\ attachment = [s \in Sessions |-> NoAttachment]
    /\ sender = [s \in Sessions |-> None]
    /\ running = {}
    /\ shut = [s \in Sessions |-> "no"]
    /\ conn = [c \in Connections |-> [at |-> "new", session |-> None]]
    /\ timers = {}
    /\ overtook = {}

-----------------------------------------------------------------------------
\* initialize: attach under the lock of the registry.

Created(s) == attachment[s] # NoAttachment

SetConn(c, at, s) == conn' = [conn EXCEPT ![c] = [at |-> at, session |-> s]]

Attach(s, c) ==
    attachment' = [attachment EXCEPT
                      ![s] = [current |-> c, detached |-> None, expires |-> None]]

InitializeNew(c, s) ==
    /\ conn[c].at = "new"
    /\ ~ Created(s)
    /\ registry' = registry \cup {s}
    /\ Attach(s, c)
    /\ sender' = [sender EXCEPT ![s] = c]
    /\ SetConn(c, "attached", s)
    /\ UNCHANGED <<running, shut, timers, overtook>>

IsExpired(s) == attachment[s].expires = "passed"

\* Mutant: a session can be resumed while a connection is attached to it.
Mutant_ResumeAttached(s) == FALSE

HasActiveConnection(s) == attachment[s].current # None

\* A resume of an expired session removes it; the connection may retry.
ResumeExpired(c, s) ==
    /\ conn[c].at = "new"
    /\ s \in registry /\ IsExpired(s)
    /\ registry' = registry \ {s}
    /\ SetConn(c, "expiring", s)
    /\ UNCHANGED <<attachment, sender, running, shut, timers, overtook>>

\* A connection of s has cleared its attachment and is about to clear the sender.
DetachUnderWay(s) ==
    \E d \in Connections : conn[d].at = "detaching" /\ conn[d].session = s

\* Mutant: a resumed session keeps the sender it has.
Mutant_SenderNotSet(c, s) ==
    /\ conn[c].at = "new"
    /\ s \in registry /\ ~ IsExpired(s) /\ ~ HasActiveConnection(s)
    /\ overtook' = IF DetachUnderWay(s) THEN overtook \cup {c} ELSE overtook
    /\ Attach(s, c)
    /\ SetConn(c, "attached", s)
    /\ UNCHANGED <<registry, sender, running, shut, timers>>

Resume(c, s) ==
    /\ conn[c].at = "new"
    /\ s \in registry /\ ~ IsExpired(s) /\ ~ HasActiveConnection(s)
    /\ sender' = [sender EXCEPT ![s] = c]
    /\ overtook' = IF DetachUnderWay(s) THEN overtook \cup {c} ELSE overtook
    /\ Attach(s, c)
    /\ SetConn(c, "attached", s)
    /\ UNCHANGED <<registry, running, shut, timers>>

\* LocalProcess::shutdown kills what runs.
ShutDown(s) ==
    /\ running' = running \ {s}
    /\ shut' = [shut EXCEPT ![s] = "shut"]

\* The shutdown of the expired session, outside the lock; the request fails.
FinishExpire(c) ==
    /\ conn[c].at = "expiring"
    /\ ShutDown(conn[c].session)
    /\ SetConn(c, "new", None)
    /\ UNCHANGED <<registry, attachment, sender, timers, overtook>>

Initialized(c) ==
    /\ conn[c].at = "attached"
    /\ attachment[conn[c].session].current = c
    /\ SetConn(c, "ready", conn[c].session)
    /\ UNCHANGED <<registry, attachment, sender, running, shut, timers, overtook>>

\* require_initialized_for, then a process of the session.
Exec(c) ==
    /\ conn[c].at = "ready"
    /\ attachment[conn[c].session].current = c
    /\ running' = running \cup {conn[c].session}
    /\ UNCHANGED <<registry, attachment, sender, shut, conn, timers, overtook>>

-----------------------------------------------------------------------------
\* The end of a connection: ExecServerHandler::shutdown.

\* The transport ends while the request that shuts an expired session down is
\* handled: the request is dropped, and with it the rest of the shutdown.
DisconnectNew(c) ==
    /\ conn[c].at \in {"new", "expiring"}
    /\ shut' = IF conn[c].at = "expiring"
               THEN [shut EXCEPT ![conn[c].session] = "lost"] ELSE shut
    /\ SetConn(c, "closed", None)
    /\ UNCHANGED <<registry, attachment, sender, running, timers, overtook>>

\* SessionEntry::detach.  Its early return, for a connection that is not attached
\* any more, is never taken: see NeverEvicted.
Disconnect(c) ==
    /\ conn[c].at \in {"attached", "ready"}
    /\ attachment[conn[c].session].current = c
    /\ attachment' = [attachment EXCEPT ![conn[c].session] =
                         [current |-> None, detached |-> c, expires |-> "ahead"]]
    /\ SetConn(c, "detaching", conn[c].session)
    /\ UNCHANGED <<registry, sender, running, shut, timers, overtook>>

\* Mutant: no timer is started.
Mutant_NoTimer(c) ==
    /\ conn[c].at = "detaching"
    /\ sender' = [sender EXCEPT ![conn[c].session] = None]
    /\ SetConn(c, "closed", None)
    /\ UNCHANGED <<registry, attachment, running, shut, timers, overtook>>

DetachFinish(c) ==
    /\ conn[c].at = "detaching"
    /\ sender' = [sender EXCEPT ![conn[c].session] = None]
    /\ timers' = timers \cup {<<conn[c].session, c>>}
    /\ SetConn(c, "closed", None)
    /\ UNCHANGED <<registry, attachment, running, shut, overtook>>

\* DETACHED_SESSION_TTL after the detach.
DeadlinePasses(s) ==
    /\ attachment[s].expires = "ahead"
    /\ attachment' = [attachment EXCEPT ![s].expires = "passed"]
    /\ UNCHANGED <<registry, sender, running, shut, conn, timers, overtook>>

IsDetachedConnectionExpired(s, c) ==
    /\ attachment[s].current = None
    /\ attachment[s].detached = c
    /\ IsExpired(s)

\* The timer sleeps at least until the deadline of its own detach.  The removal
\* and the shutdown are one step: nothing finds the entry in between.
ExpireIfDetached(s, c) ==
    /\ <<s, c>> \in timers
    /\ attachment[s].detached = c => IsExpired(s)
    /\ timers' = timers \ {<<s, c>>}
    /\ \/ /\ s \in registry /\ IsDetachedConnectionExpired(s, c)
          /\ registry' = registry \ {s}
          /\ ShutDown(s)
       \/ /\ ~ (s \in registry /\ IsDetachedConnectionExpired(s, c))
          /\ UNCHANGED <<registry, running, shut>>
    /\ UNCHANGED <<attachment, sender, conn, overtook>>

SNext ==
    \/ \E c \in Connections, s \in Sessions :
        InitializeNew(c, s) \/ ResumeExpired(c, s) \/ Resume(c, s) \/ ExpireIfDetached(s, c)
    \/ \E c \in Connections :
        \/ FinishExpire(c) \/ Initialized(c) \/ Exec(c)
        \/ DisconnectNew(c) \/ Disconnect(c) \/ DetachFinish(c)
    \/ \E s \in Sessions : DeadlinePasses(s)

\* Time passes and tasks run; connections are free to do nothing.
SFairness ==
    /\ \A c \in Connections :
        /\ WF_svars(FinishExpire(c)) /\ WF_svars(DetachFinish(c))
        /\ \A s \in Sessions : WF_svars(ExpireIfDetached(s, c))
    /\ \A s \in Sessions : WF_svars(DeadlinePasses(s))

SSpec == SInit /\ [][SNext]_svars /\ SFairness

-----------------------------------------------------------------------------
\* A connection that attached keeps its session, in the registry and not shut
\* down, until it ends itself: no resume takes it away and no timer of an
\* earlier connection expires it.
NeverEvicted ==
    \A c \in Connections :
        conn[c].at \in {"attached", "ready"} =>
            /\ attachment[conn[c].session].current = c
            /\ conn[c].session \in registry
            /\ shut[conn[c].session] = "no"

\* The notifications of a session's processes reach the connection attached to
\* it for as long as it is attached, whatever detaches of earlier connections
\* finish late.  Only a connection that resumed the session between the two locks
\* of a detach may be left without a sender, and even its notifications go to no
\* other connection.
SenderKept ==
    \A c \in Connections :
        conn[c].at \in {"attached", "ready"} =>
            \/ sender[conn[c].session] = c
            \/ c \in overtook /\ sender[conn[c].session] = None

\* What was shut down has no process and nobody starts one in it again.
ShutStaysEmpty ==
    \A s \in Sessions : shut[s] = "shut" => s \notin running /\ s \notin registry

\* The two records of an attachment agree: the connection a session names is
\* attached to it, and no deadline runs meanwhile; the connection a session's
\* notifications go to is or was its own.
AttachmentAgrees ==
    \A s \in Sessions :
        /\ attachment[s].current # None =>
               /\ attachment[s].expires = None
               /\ conn[attachment[s].current] \in
                      [at : {"attached", "ready"}, session : {s}]
        /\ sender[s] # None =>
               /\ conn[sender[s]].session = s
               /\ attachment[s].current = sender[s] \/ conn[sender[s]].at = "detaching"

\* Only what was created is found, and only what nobody finds any more is shut
\* down: a session leaves the registry before, and never comes back.
RemovedBeforeShut ==
    /\ \A s \in registry : Created(s) /\ shut[s] = "no"
    /\ \A s \in Sessions : shut[s] # "no" => Created(s)
    /\ \A c \in Connections :
           conn[c].at = "expiring" => Created(conn[c].session) /\ conn[c].session \notin registry

\* The invariant of the registry: well typed, an attached connection keeps its
\* session, a session that was shut down stays empty, and what that rests on.
SInv == STypeOK /\ NeverEvicted /\ ShutStaysEmpty /\ AttachmentAgrees /\ RemovedBeforeShut

\* What SenderKept rests on: whoever is attached during a detach overtook it.
SenderInv ==
    /\ SenderKept
    /\ \A c, d \in Connections :
           (/\ conn[c].at \in {"attached", "ready"} /\ conn[d].at = "detaching"
            /\ conn[c].session = conn[d].session) => c \in overtook
    /\ \A d \in Connections : conn[d].at = "detaching" => Created(conn[d].session)

\* A session whose connection ended is resumed or removed, and its processes
\* killed: none outlives its clients (the dropped shutdown of DisconnectNew is
\* the exception, "lost").
AbandonedIsShutDown ==
    \A s \in Sessions :
        Created(s) /\ attachment[s].current = None
            ~> attachment[s].current # None \/ shut[s] # "no"
=============================================================================
