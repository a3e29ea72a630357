-------------------------- MODULE ExecSessionsProofs --------------------------
(***************************************************************************)
(* SInv is an invariant of ExecSessions for every number of connections    *)
(* and sessions.                                                           *)
(***************************************************************************)
EXTENDS ExecSessions, TLAPS

\* Nothing exists before the first connection.
LEMMA SInitInv == SInit => SInv
  BY SessionAssumption
     DEF SInit, SInv, STypeOK, NeverEvicted, ShutStaysEmpty, AttachmentAgrees,
         RemovedBeforeShut, NoAttachment, Created

\* A connection attaches to a session that no connection is attached to.
LEMMA AttachStep ==
    ASSUME SInv, NEW c \in Connections, NEW s \in Sessions, conn[c].at = "new",
           attachment[s].current = None, shut[s] = "no",
           \A d \in Connections : conn[d].at = "expiring" => conn[d].session # s,
           registry' = registry \cup {s}, Attach(s, c),
           sender' = [sender EXCEPT ![s] = c],
           SetConn(c, "attached", s), UNCHANGED <<running, shut, timers>>,
           overtook' \in SUBSET Connections
    PROVE  SInv'
<1> USE SessionAssumption DEF SInv, Attach, SetConn
<1>1. /\ conn' \in [Connections -> [at : {"new", "expiring", "attached", "ready", "detaching", "closed"},
                     session : Sessions \cup {None}]]
      /\ conn'[c] = [at |-> "attached", session |-> s]
      /\ \A d \in Connections : d # c => conn'[d] = conn[d]
  BY DEF STypeOK
<1>2. /\ attachment'[s] = [current |-> c, detached |-> None, expires |-> None]
      /\ \A q \in Sessions : q # s => attachment'[q] = attachment[q]
  BY DEF STypeOK
<1>3. /\ sender'[s] = c
      /\ \A q \in Sessions : q # s => sender'[q] = sender[q]
  BY DEF STypeOK
<1>4. STypeOK'
  BY <1>1 DEF STypeOK
<1>5. NeverEvicted'
  BY <1>1, <1>2 DEF STypeOK, NeverEvicted
<1>6. ShutStaysEmpty'
  BY DEF ShutStaysEmpty
<1>7. AttachmentAgrees'
  BY <1>1, <1>2, <1>3 DEF STypeOK, AttachmentAgrees
<1>8. RemovedBeforeShut'
  BY <1>1, <1>2 DEF STypeOK, RemovedBeforeShut, Created, NoAttachment
<1> QED
  BY <1>4, <1>5, <1>6, <1>7, <1>8

\* Every step of a connection, a timer or the clock keeps the registry sound.
LEMMA SNextKeepsInv ==
    ASSUME SInv, [SNext]_svars
    PROVE  SInv'
<1> USE SessionAssumption
<1>1. ASSUME NEW c \in Connections, NEW s \in Sessions, InitializeNew(c, s)
      PROVE  SInv'
  <2>1. /\ attachment[s].current = None /\ shut[s] = "no"
        /\ \A d \in Connections : conn[d].at = "expiring" => conn[d].session # s
    BY <1>1 DEF InitializeNew, SInv, RemovedBeforeShut, Created, NoAttachment
  <2>2. overtook' \in SUBSET Connections
    BY <1>1 DEF InitializeNew, SInv, STypeOK
  <2> QED
    BY <1>1, <2>1, <2>2, AttachStep DEF InitializeNew
<1>2. ASSUME NEW c \in Connections, NEW s \in Sessions, ResumeExpired(c, s)
      PROVE  SInv'
  BY <1>2 DEF ResumeExpired, SInv, STypeOK, NeverEvicted, ShutStaysEmpty, AttachmentAgrees,
              RemovedBeforeShut, Created, SetConn, IsExpired
<1>3. ASSUME NEW c \in Connections, NEW s \in Sessions, Resume(c, s)
      PROVE  SInv'
  <2>1. /\ attachment[s].current = None /\ shut[s] = "no" /\ registry = registry \cup {s}
        /\ \A d \in Connections : conn[d].at = "expiring" => conn[d].session # s
    BY <1>3 DEF Resume, HasActiveConnection, SInv, RemovedBeforeShut
  <2>2. overtook' \in SUBSET Connections
    BY <1>3 DEF Resume, SInv, STypeOK
  <2> QED
    BY <1>3, <2>1, <2>2, AttachStep DEF Resume
<1>4. ASSUME NEW c \in Connections, NEW s \in Sessions, ExpireIfDetached(s, c)
      PROVE  SInv'
  BY <1>4 DEF ExpireIfDetached, SInv, STypeOK, NeverEvicted, ShutStaysEmpty, AttachmentAgrees,
              RemovedBeforeShut, Created, ShutDown, IsExpired, IsDetachedConnectionExpired
<1>5. ASSUME NEW c \in Connections, FinishExpire(c)
      PROVE  SInv'
  BY <1>5 DEF FinishExpire, SInv, STypeOK, NeverEvicted, ShutStaysEmpty, AttachmentAgrees,
              RemovedBeforeShut, Created, SetConn, ShutDown
<1>6. ASSUME NEW c \in Connections, Initialized(c)
      PROVE  SInv'
  BY <1>6 DEF Initialized, SInv, STypeOK, NeverEvicted, ShutStaysEmpty, AttachmentAgrees,
              RemovedBeforeShut, Created, SetConn
<1>7. ASSUME NEW c \in Connections, Exec(c)
      PROVE  SInv'
  BY <1>7 DEF Exec, SInv, STypeOK, NeverEvicted, ShutStaysEmpty, AttachmentAgrees,
              RemovedBeforeShut, Created
<1>8. ASSUME NEW c \in Connections, DisconnectNew(c)
      PROVE  SInv'
  BY <1>8 DEF DisconnectNew, SInv, STypeOK, NeverEvicted, ShutStaysEmpty, AttachmentAgrees,
              RemovedBeforeShut, Created, SetConn
<1>9. ASSUME NEW c \in Connections, Disconnect(c)
      PROVE  SInv'
  BY <1>9 DEF Disconnect, SInv, STypeOK, NeverEvicted, ShutStaysEmpty, AttachmentAgrees,
              RemovedBeforeShut, Created, NoAttachment, SetConn
<1>10. ASSUME NEW c \in Connections, DetachFinish(c)
       PROVE  SInv'
  BY <1>10 DEF DetachFinish, SInv, STypeOK, NeverEvicted, ShutStaysEmpty, AttachmentAgrees,
               RemovedBeforeShut, Created, SetConn
<1>11. ASSUME NEW s \in Sessions, DeadlinePasses(s)
       PROVE  SInv'
  <2> DEFINE a == [attachment[s] EXCEPT !.expires = "passed"]
  <2>1. /\ attachment' = [attachment EXCEPT ![s] = a]
        /\ UNCHANGED <<registry, sender, running, shut, conn, timers, overtook>>
    BY <1>11 DEF DeadlinePasses
  <2>2. /\ a \in [current : Connections \cup {None}, detached : Connections \cup {None},
                  expires : {None, "ahead", "passed"}]
        /\ a.current = attachment[s].current /\ a.expires = "passed"
        /\ attachment[s].current = None
    BY <1>11 DEF DeadlinePasses, SInv, STypeOK, AttachmentAgrees
  <2> HIDE DEF a
  <2>3. /\ attachment'[s] = a
        /\ \A q \in Sessions : q # s => attachment'[q] = attachment[q]
        /\ \A q \in Sessions : attachment'[q].current = attachment[q].current
    BY <2>1, <2>2 DEF SInv, STypeOK
  <2> QED
    BY <2>1, <2>2, <2>3
       DEF SInv, STypeOK, NeverEvicted, ShutStaysEmpty, AttachmentAgrees, RemovedBeforeShut,
           Created, NoAttachment
<1>12. CASE UNCHANGED svars
  BY <1>12 DEF svars, SInv, STypeOK, NeverEvicted, ShutStaysEmpty, AttachmentAgrees,
               RemovedBeforeShut, Created
<1> QED
  BY <1>1, <1>2, <1>3, <1>4, <1>5, <1>6, <1>7, <1>8, <1>9, <1>10, <1>11, <1>12 DEF SNext

\* However connections come, go and resume, and whichever timers fire late: an
\* attached connection keeps its session, and what was shut down stays empty.
THEOREM SessionsSafe == SSpec => []SInv
<1> QED
  BY SInitInv, SNextKeepsInv, PTL DEF SSpec

-----------------------------------------------------------------------------
\* The sender.  A connection attaches and becomes the sender of its session.
LEMMA AttachKeepsSender ==
    ASSUME SInv, SenderInv, NEW c \in Connections, NEW s \in Sessions, conn[c].at = "new",
           attachment[s].current = None,
           overtook \subseteq overtook', DetachUnderWay(s) => c \in overtook',
           Attach(s, c), sender' = [sender EXCEPT ![s] = c], SetConn(c, "attached", s)
    PROVE  SenderInv'
<1> USE SessionAssumption
<1>1. /\ conn'[c] = [at |-> "attached", session |-> s]
      /\ \A d \in Connections : d # c => conn'[d] = conn[d]
  BY DEF SInv, STypeOK, SetConn
<1>2. /\ attachment'[s] = [current |-> c, detached |-> None, expires |-> None]
      /\ \A q \in Sessions : q # s => attachment'[q] = attachment[q]
  BY DEF SInv, STypeOK, Attach
<1>3. /\ sender'[s] = c
      /\ \A q \in Sessions : q # s => sender'[q] = sender[q]
  BY DEF SInv, STypeOK
<1>4. \A d \in Connections : conn[d].at \in {"attached", "ready"} =>
          conn[d].session \in Sessions /\ conn[d].session # s
  BY DEF SInv, STypeOK, NeverEvicted
<1>5. SenderKept'
  BY <1>1, <1>3, <1>4 DEF SenderInv, SenderKept
<1>6. ASSUME NEW e \in Connections, NEW d \in Connections,
             conn'[e].at \in {"attached", "ready"}, conn'[d].at = "detaching",
             conn'[e].session = conn'[d].session
      PROVE  e \in overtook'
  <2>1. d # c /\ conn'[d] = conn[d]
    BY <1>1, <1>6
  <2>2. CASE e = c
    BY <1>1, <1>6, <2>1, <2>2 DEF DetachUnderWay
  <2>3. CASE e # c
    BY <1>1, <1>6, <2>1, <2>3 DEF SenderInv
  <2> QED
    BY <2>2, <2>3
<1>7. ASSUME NEW d \in Connections, conn'[d].at = "detaching"
      PROVE  Created(conn[d].session)'
  <2>1. conn'[d] = conn[d] /\ Created(conn[d].session) /\ conn[d].session \in Sessions
    BY <1>1, <1>7 DEF SenderInv, SInv, STypeOK
  <2> QED
    BY <1>2, <2>1 DEF Created, NoAttachment
<1> QED
  BY <1>5, <1>6, <1>7 DEF SenderInv

\* Every step leaves the sender of an attached connection alone, but for the end of
\* a detach that it overtook.
LEMMA SNextKeepsSender ==
    ASSUME SInv, SenderInv, [SNext]_svars
    PROVE  SenderInv'
<1> USE SessionAssumption
<1>1. ASSUME NEW c \in Connections, NEW s \in Sessions, InitializeNew(c, s)
      PROVE  SenderInv'
  <2>1. attachment[s].current = None /\ ~ DetachUnderWay(s)
    BY <1>1 DEF InitializeNew, Created, NoAttachment, SenderInv, DetachUnderWay
  <2> QED
    BY <1>1, <2>1, AttachKeepsSender DEF InitializeNew
<1>2. ASSUME NEW c \in Connections, NEW s \in Sessions, ResumeExpired(c, s)
      PROVE  SenderInv'
  BY <1>2 DEF ResumeExpired, SInv, STypeOK, SenderInv, SenderKept, Created, SetConn
<1>3. ASSUME NEW c \in Connections, NEW s \in Sessions, Resume(c, s)
      PROVE  SenderInv'
  BY <1>3, AttachKeepsSender DEF Resume, HasActiveConnection
<1>4. ASSUME NEW c \in Connections, NEW s \in Sessions, ExpireIfDetached(s, c)
      PROVE  SenderInv'
  BY <1>4 DEF ExpireIfDetached, SenderInv, SenderKept, Created
<1>5. ASSUME NEW c \in Connections, FinishExpire(c)
      PROVE  SenderInv'
  BY <1>5 DEF FinishExpire, SInv, STypeOK, SenderInv, SenderKept, Created, SetConn
<1>6. ASSUME NEW c \in Connections, Initialized(c)
      PROVE  SenderInv'
  BY <1>6 DEF Initialized, SInv, STypeOK, SenderInv, SenderKept, Created, SetConn
<1>7. ASSUME NEW c \in Connections, Exec(c)
      PROVE  SenderInv'
  BY <1>7 DEF Exec, SenderInv, SenderKept, Created
<1>8. ASSUME NEW c \in Connections, DisconnectNew(c)
      PROVE  SenderInv'
  BY <1>8 DEF DisconnectNew, SInv, STypeOK, SenderInv, SenderKept, Created, SetConn
<1>9. ASSUME NEW c \in Connections, Disconnect(c)
      PROVE  SenderInv'
  <2>1. PICK s \in Sessions : s = conn[c].session
    BY <1>9 DEF Disconnect, SInv, STypeOK
  <2>2. /\ conn'[c] = [at |-> "detaching", session |-> s]
        /\ \A d \in Connections : d # c => conn'[d] = conn[d]
        /\ UNCHANGED <<sender, overtook>>
    BY <1>9, <2>1 DEF Disconnect, SetConn, SInv, STypeOK
  <2>3. /\ attachment'[s] = [current |-> None, detached |-> c, expires |-> "ahead"]
        /\ \A q \in Sessions : q # s => attachment'[q] = attachment[q]
    BY <1>9, <2>1 DEF Disconnect, SInv, STypeOK
  <2>4. \A d \in Connections : (d # c /\ conn[d].at \in {"attached", "ready"}) =>
            conn[d].session # s
    BY <1>9, <2>1 DEF Disconnect, SInv, NeverEvicted
  <2>5. SenderKept'
    BY <2>2 DEF SenderInv, SenderKept
  <2>6. ASSUME NEW e \in Connections, NEW d \in Connections,
               conn'[e].at \in {"attached", "ready"}, conn'[d].at = "detaching",
               conn'[e].session = conn'[d].session
        PROVE  e \in overtook'
    BY <2>2, <2>4, <2>6 DEF SenderInv
  <2>7. ASSUME NEW d \in Connections, conn'[d].at = "detaching"
        PROVE  Created(conn[d].session)'
    <3>1. CASE conn'[d].session = s
      BY <2>3, <3>1 DEF Created, NoAttachment
    <3>2. CASE conn'[d].session # s
      BY <2>2, <2>3, <2>7, <3>2 DEF Created, SenderInv, SInv, STypeOK
    <3> QED
      BY <3>1, <3>2
  <2> QED
    BY <2>5, <2>6, <2>7 DEF SenderInv
<1>10. ASSUME NEW c \in Connections, DetachFinish(c)
       PROVE  SenderInv'
  BY <1>10 DEF DetachFinish, SInv, STypeOK, SenderInv, SenderKept, Created, SetConn
<1>11. ASSUME NEW s \in Sessions, DeadlinePasses(s)
       PROVE  SenderInv'
  <2>1. UNCHANGED <<sender, conn, overtook>>
    BY <1>11 DEF DeadlinePasses
  <2>2. \A q \in Sessions : Created(q) => Created(q)'
    BY <1>11 DEF DeadlinePasses, Created, NoAttachment, SInv, STypeOK
  <2>3. \A d \in Connections : conn[d].at = "detaching" => conn[d].session \in Sessions
    BY DEF SInv, STypeOK
  <2>4. SenderKept'
    BY <2>1 DEF SenderInv, SenderKept
  <2>5. ASSUME NEW d \in Connections, conn'[d].at = "detaching"
        PROVE  Created(conn[d].session)'
    <3>1. PICK q \in Sessions : q = conn[d].session
      BY <2>1, <2>3, <2>5
    <3>2. Created(q)'
      BY <2>1, <2>2, <2>5, <3>1 DEF SenderInv
    <3> QED
      BY <2>1, <3>1, <3>2 DEF Created
  <2> QED
    BY <2>1, <2>4, <2>5 DEF SenderInv
<1>12. CASE UNCHANGED svars
  BY <1>12 DEF svars, SenderInv, SenderKept, Created
<1> QED
  BY <1>1, <1>2, <1>3, <1>4, <1>5, <1>6, <1>7, <1>8, <1>9, <1>10, <1>11, <1>12 DEF SNext

\* A connection that is attached keeps its notifications, although detach clears
\* the attachment and the sender under two locks, unless it resumed in between.
THEOREM SendersKept == SSpec => []SenderKept
<1>1. SInit => SInv /\ SenderInv
  BY SInitInv DEF SInit, SenderInv, SenderKept
<1>2. SInv /\ SenderInv /\ [SNext]_svars => (SInv /\ SenderInv)'
  BY SNextKeepsInv, SNextKeepsSender
<1>3. SenderInv => SenderKept
  BY DEF SenderInv
<1> QED
  BY <1>1, <1>2, <1>3, PTL DEF SSpec
=============================================================================
