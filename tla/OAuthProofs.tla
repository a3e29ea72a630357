------------------------------ MODULE OAuthProofs ------------------------------
(***************************************************************************)
(* Proofs about the OAuth server: OInv is inductive, so it holds for any    *)
(* number of clients, requests, codes, tokens and faults.                   *)
(***************************************************************************)
EXTENDS OAuth, FiniteSetTheorems, TLAPS

-----------------------------------------------------------------------------
(* Types.                                                                   *)

\* Setting one column of one row of a table, and of a request.
LEMMA RowSet ==
    ASSUME NEW S, NEW s \in Seq(S), NEW i \in DOMAIN s, NEW v \in S,
           NEW s2, s2 = [s EXCEPT ![i] = v]
    PROVE  /\ s2 \in Seq(S) /\ DOMAIN s2 = DOMAIN s
           /\ s2[i] = v /\ \A j \in DOMAIN s : j = i \/ s2[j] = s[j]
OBVIOUS

LEMMA RowAdded ==
    ASSUME NEW S, NEW s \in Seq(S), NEW v \in S
    PROVE  /\ Append(s, v) \in Seq(S)
           /\ DOMAIN Append(s, v) = DOMAIN s \cup {Len(s) + 1}
           /\ Len(s) + 1 \notin DOMAIN s
           /\ \A j \in DOMAIN s : Append(s, v)[j] = s[j]
           /\ Append(s, v)[Len(s) + 1] = v
OBVIOUS

\* s2 is s with one token revoked.
Revokes(s, s2, i) ==
    /\ s2 \in Seq(TokenRows)
    /\ DOMAIN s2 = DOMAIN s
    /\ s2[i].revoked
    /\ \A j \in DOMAIN s : /\ s2[j].client = s[j].client
                           /\ s2[j].grant = s[j].grant
                           /\ s[j].revoked => s2[j].revoked

LEMMA TokenRevokedRow ==
    ASSUME NEW s \in Seq(TokenRows), NEW i \in DOMAIN s,
           NEW v \in TokenRows, v.revoked, v.client = s[i].client /\ v.grant = s[i].grant,
           NEW s2, s2 = [s EXCEPT ![i] = v]
    PROVE  Revokes(s, s2, i)
<1>1. /\ s2 \in Seq(TokenRows) /\ DOMAIN s2 = DOMAIN s
      /\ s2[i] = v /\ \A j \in DOMAIN s : j = i \/ s2[j] = s[j]
  BY RowSet
<1> QED
  BY <1>1, Zenon DEF Revokes

LEMMA TokenRevoked ==
    ASSUME NEW s \in Seq(TokenRows), NEW i \in DOMAIN s,
           NEW s2, s2 = [s EXCEPT ![i].revoked = TRUE]
    PROVE  Revokes(s, s2, i)
<1>1. PICK v : v = [s[i] EXCEPT !.revoked = TRUE]
  OBVIOUS
<1>2. s[i] \in TokenRows
  OBVIOUS
<1>3. v.revoked /\ v.client = s[i].client /\ v.grant = s[i].grant
  BY <1>1, <1>2 DEF TokenRows
<1>4. v \in TokenRows
  BY <1>1, <1>2 DEF TokenRows
<1>5. s2 = [s EXCEPT ![i] = v]
  BY <1>1
<1> QED
  BY <1>3, <1>4, <1>5, TokenRevokedRow, Zenon

\* s2 is s with one code consumed.
Consumes(s, s2, i) ==
    /\ s2 \in Seq(CodeRows)
    /\ DOMAIN s2 = DOMAIN s
    /\ s2[i].consumed
    /\ \A j \in DOMAIN s : /\ s2[j].client = s[j].client
                           /\ s[j].consumed => s2[j].consumed

LEMMA CodeConsumedRow ==
    ASSUME NEW s \in Seq(CodeRows), NEW i \in DOMAIN s,
           NEW v \in CodeRows, v.consumed, v.client = s[i].client,
           NEW s2, s2 = [s EXCEPT ![i] = v]
    PROVE  Consumes(s, s2, i)
<1>1. /\ s2 \in Seq(CodeRows) /\ DOMAIN s2 = DOMAIN s
      /\ s2[i] = v /\ \A j \in DOMAIN s : j = i \/ s2[j] = s[j]
  BY RowSet
<1> QED
  BY <1>1, Zenon DEF Consumes

LEMMA CodeConsumed ==
    ASSUME NEW s \in Seq(CodeRows), NEW i \in DOMAIN s,
           NEW s2, s2 = [s EXCEPT ![i].consumed = TRUE]
    PROVE  Consumes(s, s2, i)
<1>1. PICK v : v = [s[i] EXCEPT !.consumed = TRUE]
  OBVIOUS
<1>2. s[i] \in CodeRows
  OBVIOUS
<1>3. v.consumed /\ v.client = s[i].client
  BY <1>1, <1>2 DEF CodeRows
<1>4. v \in CodeRows
  BY <1>1, <1>2 DEF CodeRows
<1>5. s2 = [s EXCEPT ![i] = v]
  BY <1>1
<1> QED
  BY <1>3, <1>4, <1>5, CodeConsumedRow, Zenon

\* A request goes on to its next store call.
Moves(f, f2, w, at) ==
    /\ f2 \in [Workers -> TokenRequests \cup {None}]
    /\ f2[w] # None /\ f2[w].at = at
    /\ f2[w].client = f[w].client /\ f2[w].grant = f[w].grant
    /\ \A v \in Workers : v # w => f2[v] = f[v]

LEMMA RequestMoves ==
    ASSUME NEW f \in [Workers -> TokenRequests \cup {None}], NEW w \in Workers,
           f[w] # None, NEW at \in {"revoke", "insert_access", "insert_refresh"},
           NEW f2, f2 = [f EXCEPT ![w].at = at]
    PROVE  Moves(f, f2, w, at)
<1>1. PICK v : v = [f[w] EXCEPT !.at = at]
  OBVIOUS
<1>2. f[w] \in TokenRequests
  OBVIOUS
<1>3. /\ v \in TokenRequests /\ v.at = at
      /\ v.client = f[w].client /\ v.grant = f[w].grant
  BY <1>1, <1>2 DEF TokenRequests
<1>4. f2 = [f EXCEPT ![w] = v]
  BY <1>1
<1>5. v # None
  BY <1>3, OAuthAssumption
<1> QED
  BY <1>3, <1>4, <1>5 DEF Moves

\* A request that passes the limiter leaves a window within the limit.
LEMMA CheckTyped ==
    ASSUME LimitTypeOK, NEW c \in Clients, Check(c), now' = now
    PROVE  LimitTypeOK'
<1>1. /\ now \in 0 .. MaxTime /\ now \in Nat
      /\ Entry(c) \in [start : 0 .. now, count : 0 .. max_per_window]
  BY RateAssumption DEF LimitTypeOK, Entry
<1>2. AllowedWindow(c) \in [start : 0 .. now, count : 1 .. max_per_window]
  <2>1. CASE now - Entry(c).start > window_secs
    BY <1>1, <2>1, RateAssumption DEF AllowedWindow
  <2>2. CASE ~ (now - Entry(c).start > window_secs)
    <3>1. Entry(c).count < max_per_window /\ Entry(c).count \in 0 .. max_per_window
      BY <1>1, <2>2 DEF Check
    <3>2. Entry(c).count + 1 \in 1 .. max_per_window
      BY <3>1, RateAssumption
    <3> QED
      BY <1>1, <2>2, <3>2 DEF AllowedWindow
  <2> QED
    BY <2>1, <2>2
<1>3. windows' \in [Clients -> [start : 0 .. now, count : 1 .. max_per_window] \cup {None}]
  BY <1>2 DEF Check, LimitTypeOK
<1>4. allowed' \in [Clients -> Seq(0 .. MaxTime)]
  <2>1. PICK times : times = Append(allowed[c], now)
    OBVIOUS
  <2>2. times \in Seq(0 .. MaxTime)
    BY <1>1, <2>1 DEF LimitTypeOK
  <2>3. allowed' = [allowed EXCEPT ![c] = times]
    BY <2>1 DEF Check
  <2> QED
    BY <2>2, <2>3 DEF LimitTypeOK
<1> QED
  BY <1>1, <1>3, <1>4 DEF LimitTypeOK, Check

LEMMA TokenRequestTyped ==
    ASSUME LimitTypeOK, NEW c \in Clients, RateLimitToken(c), now' = now
    PROVE  LimitTypeOK'
<1>1. CASE Check(c)
  BY <1>1, CheckTyped
<1>2. CASE Uncounted
  BY <1>2, RateAssumption DEF LimitTypeOK, Uncounted
<1> QED
  BY <1>1, <1>2 DEF RateLimitToken

LEMMA ClockTyped ==
    ASSUME LimitTypeOK, Tick
    PROVE  LimitTypeOK'
BY RateAssumption DEF LimitTypeOK, Tick

-----------------------------------------------------------------------------
(* The limiter.                                                             *)

\* A request that passes is the last of the history, and the window either
\* starts with it or counts it.
LetThrough(c) ==
    /\ now' = now
    /\ \A d \in Clients : d # c => windows'[d] = windows[d] /\ allowed'[d] = allowed[d]
    /\ allowed'[c] \in Seq(0 .. MaxTime) /\ Len(allowed'[c]) = Len(allowed[c]) + 1
    /\ allowed'[c][Len(allowed[c]) + 1] = now
    /\ \A i \in 1 .. Len(allowed[c]) : allowed'[c][i] = allowed[c][i]
    /\ windows'[c] # None
    /\ \/ /\ windows[c] = None \/ now - windows[c].start > window_secs
          /\ windows'[c].start = now /\ windows'[c].count = 1
       \/ /\ windows[c] # None /\ windows[c].count < max_per_window
          /\ windows'[c].start = windows[c].start
          /\ windows'[c].count = windows[c].count + 1

LEMMA CheckLetsThrough ==
    ASSUME LimitTypeOK, NEW c \in Clients, Check(c), now' = now
    PROVE  LetThrough(c)
<1>t. /\ now \in Nat /\ window_secs \in Nat /\ max_per_window \in Nat
      /\ allowed \in [Clients -> Seq(0 .. MaxTime)]
      /\ windows \in [Clients -> [start : 0 .. now, count : 1 .. max_per_window] \cup {None}]
  BY RateAssumption DEF LimitTypeOK
<1>1. windows' = [windows EXCEPT ![c] = AllowedWindow(c)]
  BY DEF Check
<1>2. windows'[c] = AllowedWindow(c) /\ \A d \in Clients : d # c => windows'[d] = windows[d]
  BY <1>t, <1>1
<1>3. /\ \A d \in Clients : d # c => allowed'[d] = allowed[d]
      /\ allowed'[c] = Append(allowed[c], now)
  BY <1>t DEF Check
<1>4. /\ allowed'[c] \in Seq(0 .. MaxTime) /\ Len(allowed'[c]) = Len(allowed[c]) + 1
      /\ allowed'[c][Len(allowed[c]) + 1] = now
      /\ \A i \in 1 .. Len(allowed[c]) : allowed'[c][i] = allowed[c][i]
  <2>1. allowed[c] \in Seq(0 .. MaxTime) /\ now \in 0 .. MaxTime
    BY <1>t DEF LimitTypeOK
  <2> QED
    BY <1>3, <2>1
<1>5. ASSUME NEW w, w \in [start : Nat, count : Nat] PROVE w # None
  BY <1>5, RateAssumption
<1>6. CASE windows[c] = None
  <2>1. PICK e : e = [start |-> now, count |-> 0]
    OBVIOUS
  <2>2. Entry(c) = e /\ e.start = now /\ e.count = 0
    BY <1>6, <2>1 DEF Entry
  <2>3. ~ (now - e.start > window_secs)
    BY <1>t, <2>2
  <2>4. AllowedWindow(c) = [e EXCEPT !.count = e.count + 1]
    BY <2>2, <2>3 DEF AllowedWindow
  <2>5. /\ AllowedWindow(c) \in [start : Nat, count : Nat]
        /\ AllowedWindow(c).start = now /\ AllowedWindow(c).count = 1
    BY <1>t, <2>1, <2>4
  <2> QED
    BY <1>2, <1>3, <1>4, <1>5, <1>6, <2>5 DEF LetThrough
<1>7. CASE windows[c] # None /\ now - windows[c].start > window_secs
  <2>1. AllowedWindow(c) = [start |-> now, count |-> 1]
    BY <1>7 DEF AllowedWindow, Entry
  <2>2. /\ AllowedWindow(c) \in [start : Nat, count : Nat]
        /\ AllowedWindow(c).start = now /\ AllowedWindow(c).count = 1
    BY <1>t, <2>1
  <2> QED
    BY <1>2, <1>3, <1>4, <1>5, <1>7, <2>2 DEF LetThrough
<1>8. CASE windows[c] # None /\ ~ (now - windows[c].start > window_secs)
  <2>1. PICK e : e = windows[c]
    OBVIOUS
  <2>2. Entry(c) = e /\ e \in [start : 0 .. now, count : 1 .. max_per_window]
    BY <1>t, <1>8, <2>1 DEF Entry
  <2>3. AllowedWindow(c) = [e EXCEPT !.count = e.count + 1] /\ e.count < max_per_window
    BY <1>8, <2>1, <2>2 DEF AllowedWindow, Check
  <2>4. e.count + 1 \in Nat /\ e \in [start : Nat, count : Nat]
    BY <1>t, <2>2
  <2>5. /\ AllowedWindow(c) \in [start : Nat, count : Nat]
        /\ AllowedWindow(c).start = e.start /\ AllowedWindow(c).count = e.count + 1
    BY <2>3, <2>4
  <2> QED
    BY <1>2, <1>3, <1>4, <1>5, <1>8, <2>1, <2>3, <2>5 DEF LetThrough
<1> QED
  BY <1>6, <1>7, <1>8

\* The invariant of one client's window and history.
WindowMatches(c) ==
    /\ \A i, j \in DOMAIN allowed[c] : i <= j => allowed[c][i] <= allowed[c][j]
    /\ \A i \in DOMAIN allowed[c] : allowed[c][i] <= now
    /\ windows[c] = None => allowed[c] = <<>>
    /\ windows[c] # None =>
        /\ First(c) \in DOMAIN allowed[c]
        /\ allowed[c][First(c)] = windows[c].start
        /\ \A i \in DOMAIN allowed[c] :
               i + max_per_window <= First(c) => windows[c].start - allowed[c][i] > window_secs

UnderTwice(c) ==
    \A i, j \in DOMAIN allowed[c] :
        j = i + 2 * max_per_window - 1 => allowed[c][j] - allowed[c][i] > window_secs

LEMMA LetThroughMatches ==
    ASSUME LimitTypeOK, NEW c \in Clients, WindowMatches(c), LetThrough(c)
    PROVE  WindowMatches(c)' /\ (UnderTwice(c) => UnderTwice(c)')
<1> DEFINE times == allowed[c]
           later == allowed'[c]
           n == Len(times)
           w == windows[c]
<1>t. /\ now \in Nat /\ window_secs \in Nat /\ max_per_window \in Nat \ {0}
      /\ n \in Nat /\ DOMAIN times = 1 .. n
      /\ \A i \in 1 .. n : times[i] \in Nat
      /\ w # None => w.start \in Nat /\ w.count \in 1 .. max_per_window
  <2>1. allowed[c] \in Seq(0 .. MaxTime)
    BY DEF LimitTypeOK
  <2>2. w # None => w \in [start : 0 .. now, count : 1 .. max_per_window]
    BY DEF LimitTypeOK
  <2>3. now \in Nat /\ window_secs \in Nat /\ max_per_window \in Nat \ {0} /\ MaxTime \in Nat
    BY RateAssumption DEF LimitTypeOK
  <2> QED
    BY <2>1, <2>2, <2>3
<1>l. /\ DOMAIN later = 1 .. n + 1 /\ Len(later) = n + 1 /\ later # <<>>
      /\ later[n + 1] = now /\ \A i \in 1 .. n : later[i] = times[i]
  BY <1>t DEF LetThrough
<1>p. /\ \A i, j \in 1 .. n : i <= j => times[i] <= times[j]
      /\ \A i \in 1 .. n : times[i] <= now
      /\ w = None => n = 0
      /\ w # None => /\ First(c) \in 1 .. n /\ times[First(c)] = w.start
                     /\ \A i \in 1 .. n : i + max_per_window <= First(c)
                                           => w.start - times[i] > window_secs
  BY <1>t DEF WindowMatches
<1>f. /\ First(c) = n + 1 - w.count
      /\ First(c)' = (n + 1) + 1 - windows'[c].count
  BY <1>t, <1>l DEF First
<1> HIDE DEF times, later, n, w
<1>1. \A i, j \in 1 .. n + 1 : i <= j => later[i] <= later[j]
  <2> SUFFICES ASSUME NEW i \in 1 .. n + 1, NEW j \in 1 .. n + 1, i <= j
               PROVE  later[i] <= later[j]
    OBVIOUS
  <2>1. CASE j = n + 1
    BY <1>t, <1>l, <1>p, <2>1
  <2>2. CASE j \in 1 .. n
    <3>1. i \in 1 .. n
      BY <1>t, <2>2
    <3> QED
      BY <1>l, <1>p, <2>2, <3>1
  <2> QED
    BY <1>t, <2>1, <2>2
<1>2. \A i \in 1 .. n + 1 : later[i] <= now
  BY <1>t, <1>l, <1>p
<1>3. PICK first \in 1 .. n + 1 :
          /\ first = First(c)' /\ later[first] = windows'[c].start
          /\ \A i \in 1 .. n : i + max_per_window <= first
                 => windows'[c].start - later[i] > window_secs
          /\ n + 1 - max_per_window < first
  <2>1. CASE /\ w = None \/ now - w.start > window_secs
             /\ windows'[c].start = now /\ windows'[c].count = 1
    <3>1. First(c)' = n + 1 /\ later[n + 1] = windows'[c].start
      BY <1>t, <1>f, <1>l, <2>1
    <3>2. ASSUME NEW i \in 1 .. n, i + max_per_window <= n + 1
          PROVE  windows'[c].start - later[i] > window_secs
      <4>1. w # None
        BY <1>t, <1>p
      <4>2. i <= First(c) /\ First(c) \in 1 .. n
        BY <1>t, <1>p, <1>f, <3>2, <4>1
      <4>3. times[i] <= w.start
        BY <1>p, <4>1, <4>2
      <4> QED
        BY <1>t, <1>l, <2>1, <4>1, <4>3
    <3>3. PICK first : first = n + 1
      OBVIOUS
    <3>4. first \in 1 .. n + 1 /\ n + 1 - max_per_window < first
      BY <1>t, <3>3
    <3>5. first = First(c)' /\ later[first] = windows'[c].start
      BY <3>1, <3>3
    <3>6. \A i \in 1 .. n : i + max_per_window <= first
              => windows'[c].start - later[i] > window_secs
      BY <3>2, <3>3
    <3> QED
      BY <3>4, <3>5, <3>6, Zenon
  <2>2. CASE /\ w # None /\ w.count < max_per_window
             /\ windows'[c].start = w.start /\ windows'[c].count = w.count + 1
    <3>1. First(c)' = First(c) /\ First(c) \in 1 .. n
      <4>1. PICK k \in Nat : k = w.count
        BY <1>t, <2>2
      <4>2. First(c)' = (n + 1) + 1 - (k + 1)
        BY <1>f, <2>2, <4>1
      <4>3. First(c)' = n + 1 - k
        BY <1>t, <4>2
      <4> QED
        BY <1>f, <1>p, <2>2, <4>1, <4>3
    <3>2. later[First(c)] = windows'[c].start
      BY <1>l, <1>p, <2>2, <3>1
    <3>3. \A i \in 1 .. n : i + max_per_window <= First(c)
              => windows'[c].start - later[i] > window_secs
      BY <1>l, <1>p, <2>2
    <3>4. n + 1 - max_per_window < First(c) /\ First(c) \in 1 .. n + 1
      BY <1>t, <1>f, <2>2, <3>1
    <3> QED
      BY <3>1, <3>2, <3>3, <3>4
  <2> QED
    BY <2>1, <2>2 DEF LetThrough, w
<1>4. WindowMatches(c)'
  <2>1. \A i \in 1 .. n + 1 : i + max_per_window <= first
            => windows'[c].start - later[i] > window_secs
    BY <1>t, <1>3
  <2>2. windows'[c] # None /\ now' = now
    BY DEF LetThrough
  <2> QED
    BY <1>l, <1>1, <1>2, <1>3, <2>1, <2>2 DEF WindowMatches, later
<1>5. ASSUME UnderTwice(c), NEW i \in 1 .. n + 1, NEW j \in 1 .. n + 1, j = i + 2 * max_per_window - 1
      PROVE  later[j] - later[i] > window_secs
  <2>1. i \in 1 .. n
    BY <1>t, <1>5
  <2>2. CASE j \in 1 .. n
    BY <1>t, <1>l, <1>5, <2>1, <2>2 DEF UnderTwice, times
  <2>3. CASE j = n + 1
    <3>1. i + max_per_window <= first
      BY <1>t, <1>3, <1>5, <2>3
    <3>2. later[first] - later[i] > window_secs /\ later[first] <= later[j]
      BY <1>1, <1>3, <2>1, <2>3, <3>1
    <3>3. later[first] \in Nat /\ later[i] \in Nat /\ later[j] \in Nat
      BY <1>t, <1>l, <2>1, <2>3
    <3> QED
      BY <1>t, <3>2, <3>3
  <2> QED
    BY <1>t, <2>2, <2>3
<1>6. UnderTwice(c) => UnderTwice(c)'
  BY <1>l, <1>5 DEF UnderTwice, later
<1> QED
  BY <1>4, <1>6

-----------------------------------------------------------------------------
(* What a step does to the tables and to the requests.                      *)

\* Rows stay with their client and grant; what is consumed or revoked stays so.
Grown ==
    /\ DOMAIN codes \subseteq DOMAIN codes'
    /\ \A k \in DOMAIN codes : /\ codes'[k].client = codes[k].client
                               /\ codes[k].consumed => codes'[k].consumed
    /\ DOMAIN access \subseteq DOMAIN access'
    /\ \A j \in DOMAIN access : /\ access'[j].client = access[j].client
                                /\ access'[j].grant = access[j].grant
                                /\ access[j].revoked => access'[j].revoked
    /\ DOMAIN refresh \subseteq DOMAIN refresh'
    /\ \A t \in DOMAIN refresh : /\ refresh'[t].client = refresh[t].client
                                 /\ refresh'[t].grant = refresh[t].grant
                                 /\ refresh[t].revoked => refresh'[t].revoked
    /\ unrevoked \subseteq unrevoked'

\* A new access token comes from a request that was about to store it.
AccessFrom ==
    \A j \in DOMAIN access' \ DOMAIN access :
        /\ DOMAIN access' = DOMAIN access \cup {j}
        /\ \E w \in Workers :
            /\ At(w, "insert_access") /\ At(w, "insert_refresh")'
            /\ access'[j].client = job[w].client /\ access'[j].grant = job[w].grant

\* So does a new refresh token.
RefreshFrom ==
    \A t \in DOMAIN refresh' \ DOMAIN refresh :
        \E w \in Workers :
            /\ job[w] # None
            /\ refresh'[t].client = job[w].client /\ refresh'[t].grant = job[w].grant

SameGrant(w) ==
    /\ job[w] # None
    /\ job'[w].client = job[w].client /\ job'[w].grant = job[w].grant

\* A request goes on with its grant: waiting, past the revocation of the token it
\* was given, or past the first insert.
Waits(w) == SameGrant(w) /\ job'[w].at = job[w].at

Rotates(w) ==
    /\ SameGrant(w) /\ job[w].at = "revoke" /\ job'[w].at = "insert_access"
    /\ Spent(job[w].grant)'

Stores(w) == SameGrant(w) /\ job[w].at = "insert_access" /\ job'[w].at = "insert_refresh"

\* Or it takes a code that nobody had, or reads a refresh token.
TakesCode(w, k) ==
    /\ ~ codes[k].consumed /\ codes'[k].consumed
    /\ job'[w].at = "insert_access" /\ job'[w].grant = CodeGrant(k)
    /\ job'[w].client = codes[k].client
    /\ access' = access
    /\ \A v \in Workers : v # w => job'[v] = job[v]

ReadsToken(w, t) ==
    /\ job'[w].at = "revoke" /\ job'[w].grant = RefreshGrant(t)
    /\ job'[w].client = refresh[t].client
    /\ ~ refresh[t].revoked

JobFrom ==
    \A w \in Workers : job'[w] # None =>
        \/ Waits(w) \/ Rotates(w) \/ Stores(w)
        \/ \E k \in DOMAIN codes : TakesCode(w, k)
        \/ \E t \in DOMAIN refresh : ReadsToken(w, t)

StepShape == Grown /\ AccessFrom /\ RefreshFrom /\ JobFrom

\* Tables and requests that a step leaves alone.
LEMMA Untouched ==
    ASSUME OTypeOK
    PROVE  /\ codes' = codes => /\ DOMAIN codes' = DOMAIN codes
                                /\ \A k \in DOMAIN codes : codes'[k] = codes[k]
           /\ access' = access => AccessFrom
           /\ refresh' = refresh => RefreshFrom
           /\ job' = job => JobFrom
BY DEF AccessFrom, RefreshFrom, JobFrom, SameGrant, Waits

\* A request and its tokens keep to their grant: what the shape of a step gives.
LEMMA ShapeKeeps ==
    ASSUME OInv, OTypeOK', StepShape
    PROVE  ClientKept' /\ CodeHeld' /\ RotatedIsRevoked' /\ RotatesRevoked'
<1>s. Grown /\ AccessFrom /\ RefreshFrom /\ JobFrom
  BY DEF StepShape
<1>o. OTypeOK /\ ClientKept /\ CodeHeld /\ RotatedIsRevoked /\ RotatesRevoked
  BY DEF OInv
<1> DEFINE Owns(g, c) == \/ \E k \in DOMAIN codes : g = CodeGrant(k) /\ codes[k].client = c
                         \/ \E t \in DOMAIN refresh : g = RefreshGrant(t) /\ refresh[t].client = c
           OwnsNext(g, c) == \/ \E k \in DOMAIN codes' : g = CodeGrant(k) /\ codes'[k].client = c
                             \/ \E t \in DOMAIN refresh' : g = RefreshGrant(t) /\ refresh'[t].client = c
<1>1. \A g, c : Owns(g, c) => OwnsNext(g, c)
  BY <1>s DEF Grown
<1>2. /\ \A j \in DOMAIN access : Owns(access[j].grant, access[j].client)
      /\ \A t \in DOMAIN refresh : Owns(refresh[t].grant, refresh[t].client)
      /\ \A w \in Workers : job[w] # None => Owns(job[w].grant, job[w].client)
  BY <1>o DEF ClientKept, GrantClient, Issued, CodeGrant, RefreshGrant
<1>m. /\ \A k \in DOMAIN codes : OwnsNext(CodeGrant(k), codes[k].client)
      /\ \A t \in DOMAIN refresh : OwnsNext(RefreshGrant(t), refresh[t].client)
  BY <1>s DEF Grown
<1>k. \A g, c : OwnsNext(g, c) =>
        /\ g \in Issued'
        /\ c = IF g.kind = "code" THEN codes'[g.nr].client ELSE refresh'[g.nr].client
  BY DEF Issued, CodeGrant, RefreshGrant
<1> HIDE DEF Owns, OwnsNext
<1>3. ClientKept'
  <2>1. ASSUME NEW j \in DOMAIN access' PROVE OwnsNext(access'[j].grant, access'[j].client)
    <3>1. CASE j \in DOMAIN access
      BY <3>1, <1>1, <1>2, <1>s DEF Grown
    <3>2. CASE j \notin DOMAIN access
      BY <3>2, <1>1, <1>2, <1>s DEF AccessFrom, At
    <3> QED
      BY <3>1, <3>2
  <2>2. ASSUME NEW t \in DOMAIN refresh' PROVE OwnsNext(refresh'[t].grant, refresh'[t].client)
    <3>1. CASE t \in DOMAIN refresh
      BY <3>1, <1>1, <1>2, <1>s DEF Grown
    <3>2. CASE t \notin DOMAIN refresh
      BY <3>2, <1>1, <1>2, <1>s DEF RefreshFrom
    <3> QED
      BY <3>1, <3>2
  <2>3. ASSUME NEW w \in Workers, job'[w] # None
        PROVE  OwnsNext(job'[w].grant, job'[w].client)
    <3>1. CASE SameGrant(w)
      BY <3>1, <1>1, <1>2 DEF SameGrant
    <3>2. CASE \E k \in DOMAIN codes : TakesCode(w, k)
      BY <3>2, <1>m DEF TakesCode
    <3>3. CASE \E t \in DOMAIN refresh : ReadsToken(w, t)
      BY <3>3, <1>m DEF ReadsToken
    <3> QED
      BY <2>3, <3>1, <3>2, <3>3, <1>s DEF JobFrom, Waits, Rotates, Stores
  <2> QED
    BY <2>1, <2>2, <2>3, <1>k DEF ClientKept, GrantClient
<1>4. CodeHeld'
  <2>1. /\ \A j \in DOMAIN access : access[j].grant.kind = "code" =>
                access[j].grant.nr \in DOMAIN codes
        /\ \A w \in Workers : job[w] # None /\ job[w].grant.kind = "code" =>
                job[w].grant.nr \in DOMAIN codes
    BY <1>o DEF ClientKept, Issued, CodeGrant, RefreshGrant
  <2>2. ASSUME NEW j \in DOMAIN access', access'[j].grant.kind = "code"
        PROVE  codes'[access'[j].grant.nr].consumed
    <3>1. CASE j \in DOMAIN access
      BY <2>1, <2>2, <3>1, <1>o, <1>s DEF Grown, CodeHeld
    <3>2. CASE j \notin DOMAIN access
      <4>1. PICK v \in Workers : job[v] # None /\ access'[j].grant = job[v].grant
        BY <3>2, <1>s DEF AccessFrom, At
      <4>2. job[v].grant.nr \in DOMAIN codes /\ codes[job[v].grant.nr].consumed
        BY <2>1, <2>2, <4>1, <1>o DEF CodeHeld
      <4> QED
        BY <4>1, <4>2, <1>s DEF Grown
    <3> QED
      BY <3>1, <3>2
  <2>3. ASSUME NEW i \in DOMAIN access, NEW j \in DOMAIN access' \ DOMAIN access,
               access'[j].grant.kind = "code"
        PROVE  access'[i].grant # access'[j].grant
    <3>1. PICK v \in Workers : At(v, "insert_access") /\ access'[j].grant = job[v].grant
      BY <1>s DEF AccessFrom
    <3>2. access'[i].grant = access[i].grant
      BY <1>s DEF Grown
    <3> QED
      BY <2>3, <3>1, <3>2, <1>o DEF CodeHeld
  <2>u. ASSUME NEW i \in DOMAIN access', NEW j \in DOMAIN access',
               access'[j].grant.kind = "code", access'[i].grant = access'[j].grant
        PROVE  i = j
    <3>1. CASE i \in DOMAIN access /\ j \in DOMAIN access
      <4>1. access[i].grant = access'[i].grant /\ access[j].grant = access'[j].grant
        BY <3>1, <1>s DEF Grown
      <4> QED
        BY <2>u, <3>1, <4>1, <1>o DEF CodeHeld
    <3>2. CASE i \in DOMAIN access /\ j \notin DOMAIN access
      BY <2>u, <2>3, <3>2
    <3>3. CASE i \notin DOMAIN access /\ j \in DOMAIN access
      BY <2>u, <2>3, <3>3
    <3>4. CASE i \notin DOMAIN access /\ j \notin DOMAIN access
      BY <3>4, <1>s DEF AccessFrom
    <3> QED
      BY <3>1, <3>2, <3>3, <3>4
  <2>4. ASSUME NEW j \in DOMAIN access', access'[j].grant.kind = "code",
               NEW w \in Workers, At(w, "insert_access")'
        PROVE  job'[w].grant # access'[j].grant
    <3>1. CASE \E k \in DOMAIN codes : TakesCode(w, k)
      BY <2>4, <3>1, <1>o DEF CodeHeld, CodeGrant, TakesCode
    <3>2. CASE Waits(w) /\ j \in DOMAIN access
      <4>1. access[j].grant = access'[j].grant
        BY <3>2, <1>s DEF Grown
      <4> QED
        BY <2>4, <3>2, <4>1, <1>o DEF CodeHeld, Waits, SameGrant, At
    <3>3. CASE Waits(w) /\ j \notin DOMAIN access
      <4>1. PICK v \in Workers : /\ At(v, "insert_access") /\ At(v, "insert_refresh")'
                                 /\ access'[j].grant = job[v].grant
        BY <3>3, <1>s DEF AccessFrom
      <4>2. v # w
        BY <4>1, <2>4 DEF At
      <4> QED
        BY <2>4, <3>3, <4>1, <4>2, <1>o DEF CodeHeld, Waits, SameGrant, At
    <3>4. CASE Rotates(w)
      BY <2>4, <3>4, <1>o DEF CodeHeld, Rotates, SameGrant
    <3>5. CASE \E t \in DOMAIN refresh : ReadsToken(w, t)
      BY <2>4, <3>5 DEF ReadsToken, At
    <3>6. CASE Stores(w)
      BY <2>4, <3>6 DEF Stores, At
    <3> QED
      BY <2>4, <3>1, <3>2, <3>3, <3>4, <3>5, <3>6, <1>s DEF JobFrom, At
  <2>5. ASSUME NEW w \in Workers, job'[w] # None, job'[w].grant.kind = "code"
        PROVE  codes'[job'[w].grant.nr].consumed /\ job'[w].at # "revoke"
    <3>1. CASE SameGrant(w)
      <4>1. /\ job[w].grant.nr \in DOMAIN codes /\ codes[job[w].grant.nr].consumed
            /\ job[w].at # "revoke"
        BY <2>1, <2>5, <3>1, <1>o DEF SameGrant, CodeHeld
      <4>2. codes'[job[w].grant.nr].consumed
        BY <4>1, <1>s DEF Grown
      <4>3. job'[w].at # "revoke"
        <5>1. CASE Waits(w) \/ Rotates(w) \/ Stores(w)
          BY <4>1, <5>1 DEF Waits, Rotates, Stores
        <5>2. CASE \E k \in DOMAIN codes : TakesCode(w, k)
          BY <5>2 DEF TakesCode
        <5>3. CASE \E t \in DOMAIN refresh : ReadsToken(w, t)
          BY <2>5, <5>3 DEF ReadsToken, RefreshGrant
        <5> QED
          BY <2>5, <5>1, <5>2, <5>3, <1>s DEF JobFrom
      <4> QED
        BY <4>2, <4>3, <3>1 DEF SameGrant
    <3>2. CASE \E k \in DOMAIN codes : TakesCode(w, k)
      BY <3>2 DEF TakesCode, CodeGrant
    <3>3. CASE \E t \in DOMAIN refresh : ReadsToken(w, t)
      BY <2>5, <3>3 DEF ReadsToken, RefreshGrant
    <3> QED
      BY <2>5, <3>1, <3>2, <3>3, <1>s DEF JobFrom, Waits, Rotates, Stores
  <2>6. ASSUME NEW x \in Workers, NEW y \in Workers, NEW k \in DOMAIN codes,
               TakesCode(x, k), job'[y] # None, job'[y].grant = job'[x].grant
        PROVE  x = y
    BY <2>6, <1>o DEF TakesCode, CodeHeld, CodeGrant
  <2>7. ASSUME NEW w \in Workers, job'[w] # None, job'[w].grant.kind = "code",
               NEW v \in Workers, job'[v] # None, job'[v].grant = job'[w].grant
        PROVE  v = w
    <3>1. CASE SameGrant(w) /\ SameGrant(v)
      BY <2>7, <3>1, <1>o DEF SameGrant, CodeHeld
    <3>2. \A x \in {v, w} : SameGrant(x) \/ \E k \in DOMAIN codes : TakesCode(x, k)
      <4>1. ASSUME NEW x \in {v, w} PROVE ~ \E t \in DOMAIN refresh : ReadsToken(x, t)
        <5>1. job'[x].grant.kind = "code"
          BY <2>7
        <5>2. ASSUME NEW t, ReadsToken(x, t) PROVE job'[x].grant.kind = "refresh"
          BY <5>2 DEF ReadsToken, RefreshGrant
        <5> QED
          BY <5>1, <5>2
      <4> QED
        BY <2>7, <4>1, <1>s DEF JobFrom, Waits, Rotates, Stores
    <3> QED
      BY <2>6, <2>7, <3>1, <3>2
  <2> QED
    BY <2>2, <2>u, <2>4, <2>5, <2>7 DEF CodeHeld
<1>d. /\ \A j \in DOMAIN access : access[j].grant.kind = "refresh" =>
              access[j].grant.nr \in DOMAIN refresh
      /\ \A w \in Workers : job[w] # None /\ job[w].grant.kind = "refresh" =>
              job[w].grant.nr \in DOMAIN refresh
  BY <1>o DEF ClientKept, Issued, CodeGrant, RefreshGrant
<1>5. RotatedIsRevoked'
  <2>1. ASSUME NEW j \in DOMAIN access', access'[j].grant.kind = "refresh"
        PROVE  Spent(access[j].grant)'
    <3>1. CASE j \in DOMAIN access
      BY <1>d, <2>1, <3>1, <1>o, <1>s DEF Grown, RotatedIsRevoked, Spent
    <3>2. CASE j \notin DOMAIN access
      <4>1. PICK v \in Workers : At(v, "insert_access") /\ access'[j].grant = job[v].grant
        BY <3>2, <1>s DEF AccessFrom
      <4>2. Spent(job[v].grant) /\ job[v].grant.nr \in DOMAIN refresh
        BY <1>d, <2>1, <4>1, <1>o DEF RotatesRevoked, At
      <4> QED
        BY <4>1, <4>2, <1>s DEF Grown, Spent
    <3> QED
      BY <3>1, <3>2
  <2> QED
    BY <2>1 DEF RotatedIsRevoked
<1>6. RotatesRevoked'
  <2>1. ASSUME NEW w \in Workers, job'[w] # None, job'[w].grant.kind = "refresh",
               job'[w].at # "revoke"
        PROVE  Spent(job[w].grant)'
    <3>1. CASE Rotates(w)
      BY <3>1 DEF Rotates
    <3>2. CASE Waits(w) \/ Stores(w)
      <4>1. Spent(job[w].grant) /\ job[w].grant.nr \in DOMAIN refresh
        BY <1>d, <2>1, <3>2, <1>o DEF RotatesRevoked, Waits, Stores, SameGrant
      <4>2. job'[w].grant = job[w].grant
        BY <3>2 DEF Waits, Stores, SameGrant
      <4> QED
        BY <4>1, <4>2, <1>s DEF Grown, Spent
    <3>3. CASE \E k \in DOMAIN codes : TakesCode(w, k)
      BY <2>1, <3>3 DEF TakesCode, CodeGrant
    <3>4. CASE \E t \in DOMAIN refresh : ReadsToken(w, t)
      BY <2>1, <3>4 DEF ReadsToken
    <3> QED
      BY <2>1, <3>1, <3>2, <3>3, <3>4, <1>s, Zenon DEF JobFrom
  <2> QED
    BY <2>1 DEF RotatesRevoked
<1> QED
  BY <1>3, <1>4, <1>5, <1>6


-----------------------------------------------------------------------------
(* Every step has that shape.                                               *)

\* The tables a step leaves alone do not change in any row.
LEMMA KeptRows ==
    ASSUME OTypeOK
    PROVE  /\ UNCHANGED <<codes, access, refresh, unrevoked>> => Grown
           /\ UNCHANGED limitvars => LimitTypeOK'
           /\ now \in Nat
BY RateAssumption DEF OTypeOK, Grown, limitvars, LimitTypeOK

\* A request ends: the others go on.
LEMMA RequestEnds ==
    ASSUME OTypeOK, NEW w \in Workers, job' = [job EXCEPT ![w] = None]
    PROVE  JobFrom /\ job' \in [Workers -> TokenRequests \cup {None}]
<1>1. job' \in [Workers -> TokenRequests \cup {None}] /\ job'[w] = None
      /\ \A v \in Workers : v # w => job'[v] = job[v]
  BY DEF OTypeOK
<1> QED
  BY <1>1 DEF JobFrom, Waits, SameGrant

LEMMA StutterShape ==
    ASSUME OTypeOK, UNCHANGED ovars
    PROVE  OTypeOK' /\ StepShape
<1>1. OTypeOK'
  BY KeptRows DEF OTypeOK, ovars
<1> QED
  BY <1>1, KeptRows, Untouched DEF ovars, StepShape

LEMMA RegisterShape ==
    ASSUME OTypeOK, NEW c \in Clients, Register(c)
    PROVE  OTypeOK' /\ StepShape
<1>1. OTypeOK'
  BY KeptRows DEF OTypeOK, Register
<1> QED
  BY <1>1, KeptRows, Untouched DEF Register, StepShape

LEMMA DecideShape ==
    ASSUME OTypeOK, NEW c \in Clients, Decide(c)
    PROVE  OTypeOK' /\ StepShape
<1>1. PICK v : v = [client |-> c, expires_at |-> now + CodeTtl, consumed |-> FALSE]
  OBVIOUS
<1>2. v \in CodeRows
  BY <1>1, KeptRows, OAuthAssumption DEF CodeRows
<1>3. codes' = Append(codes, v)
  BY <1>1 DEF Decide
<1>4. codes \in Seq(CodeRows)
  BY DEF OTypeOK
<1>5. /\ codes' \in Seq(CodeRows) /\ DOMAIN codes \subseteq DOMAIN codes'
      /\ \A k \in DOMAIN codes : codes'[k] = codes[k]
  BY <1>2, <1>3, <1>4, RowAdded
<1>6. OTypeOK'
  BY <1>5, KeptRows DEF OTypeOK, Decide
<1>7. Grown
  BY <1>5, Zenon DEF Decide, Grown
<1> QED
  BY <1>6, <1>7, Untouched DEF Decide, StepShape

LEMMA InvalidGrantShape ==
    ASSUME OTypeOK, NEW c \in Clients, InvalidGrant(c)
    PROVE  OTypeOK' /\ StepShape
<1>1. OTypeOK'
  BY CheckTyped DEF OTypeOK, InvalidGrant
<1> QED
  BY <1>1, KeptRows, Untouched DEF InvalidGrant, StepShape

LEMMA ClockShape ==
    ASSUME OTypeOK, Clock
    PROVE  OTypeOK' /\ StepShape
<1>1. OTypeOK'
  BY ClockTyped DEF OTypeOK, Clock
<1> QED
  BY <1>1, KeptRows, Untouched DEF Clock, StepShape

LEMMA RestartShape ==
    ASSUME OTypeOK, Restart
    PROVE  OTypeOK' /\ StepShape
<1>1. LimitTypeOK'
  BY RateAssumption DEF OTypeOK, Restart, LimitTypeOK
<1>2. OTypeOK'
  BY <1>1, OAuthAssumption DEF OTypeOK, Restart
<1>3. JobFrom
  BY DEF Restart, JobFrom
<1> QED
  BY <1>2, <1>3, KeptRows, Untouched DEF Restart, StepShape

LEMMA InsertFailsShape ==
    ASSUME OTypeOK, NEW w \in Workers, InsertFails(w)
    PROVE  OTypeOK' /\ StepShape
<1>1. OTypeOK'
  BY KeptRows, RequestEnds, OAuthAssumption DEF OTypeOK, InsertFails
<1>2. JobFrom
  BY RequestEnds DEF InsertFails
<1> QED
  BY <1>1, <1>2, KeptRows, Untouched DEF InsertFails, StepShape

LEMMA RevokeRefreshShape ==
    ASSUME OTypeOK, NEW t \in DOMAIN refresh, RevokeRefresh(t)
    PROVE  OTypeOK' /\ StepShape
<1>1. Revokes(refresh, refresh', t)
  BY TokenRevoked DEF OTypeOK, RevokeRefresh
<1>2. OTypeOK'
  BY <1>1, KeptRows DEF OTypeOK, RevokeRefresh, Revokes
<1>3. Grown /\ RefreshFrom
  BY <1>1, Zenon DEF RevokeRefresh, Revokes, Grown, RefreshFrom
<1> QED
  BY <1>2, <1>3, Untouched DEF RevokeRefresh, StepShape

LEMMA RevokeAccessShape ==
    ASSUME OTypeOK, NEW j \in DOMAIN access, RevokeAccess(j)
    PROVE  OTypeOK' /\ StepShape
<1>1. Revokes(access, access', j)
  BY TokenRevoked DEF OTypeOK, RevokeAccess
<1>2. OTypeOK'
  BY <1>1, KeptRows DEF OTypeOK, RevokeAccess, Revokes
<1>3. Grown /\ AccessFrom
  BY <1>1, Zenon DEF RevokeAccess, Revokes, Grown, AccessFrom
<1> QED
  BY <1>2, <1>3, Untouched DEF RevokeAccess, StepShape


\* A code is taken by the request that marks it, under the store's lock.
LEMMA ExchangeCodeShape ==
    ASSUME OTypeOK, NEW w \in Workers, NEW c \in Clients, NEW k \in DOMAIN codes,
           NEW rest \in BOOLEAN, ExchangeCode(w, c, k, rest)
    PROVE  OTypeOK' /\ StepShape
<1>1. Consumes(codes, codes', k) /\ ~ codes[k].consumed
  BY CodeConsumed DEF OTypeOK, ExchangeCode, ConsumeAuthCode
<1>2. LimitTypeOK'
  BY TokenRequestTyped DEF OTypeOK, ExchangeCode
<1>3. Grown
  BY <1>1, Zenon DEF ExchangeCode, Consumes, Grown
<1>4. JobFrom /\ job' \in [Workers -> TokenRequests \cup {None}]
  <2>1. CASE Matches(c, k, rest)
    <3>1. PICK v : v = [at |-> "insert_access", client |-> c, grant |-> CodeGrant(k)]
      OBVIOUS
    <3>2. k \in Nat
      BY DEF OTypeOK
    <3>3. v \in TokenRequests /\ codes[k].client = c
      BY <3>1, <3>2, <2>1 DEF TokenRequests, Grants, CodeGrant, Matches
    <3>4. job' = [job EXCEPT ![w] = v]
      BY <2>1, <3>1 DEF ExchangeCode, Begin
    <3>5. /\ job' \in [Workers -> TokenRequests \cup {None}] /\ job'[w] = v
          /\ \A u \in Workers : u # w => job'[u] = job[u]
      BY <3>3, <3>4 DEF OTypeOK
    <3>6. codes'[k].consumed /\ access' = access
      BY <1>1 DEF ExchangeCode, Consumes
    <3>7. TakesCode(w, k)
      BY <1>1, <3>1, <3>3, <3>5, <3>6 DEF TakesCode
    <3> QED
      BY <3>5, <3>7 DEF JobFrom, Waits, SameGrant
  <2>2. CASE ~ Matches(c, k, rest)
    BY <2>2, Untouched DEF ExchangeCode, OTypeOK
  <2> QED
    BY <2>1, <2>2
<1>5. OTypeOK'
  BY <1>1, <1>2, <1>4 DEF OTypeOK, ExchangeCode, Consumes
<1> QED
  BY <1>3, <1>4, <1>5, Untouched DEF ExchangeCode, StepShape

LEMMA GetRefreshTokenShape ==
    ASSUME OTypeOK, NEW w \in Workers, NEW c \in Clients, NEW t \in DOMAIN refresh,
           GetRefreshToken(w, c, t)
    PROVE  OTypeOK' /\ StepShape
<1>2. LimitTypeOK'
  BY TokenRequestTyped DEF OTypeOK, GetRefreshToken
<1>4. JobFrom /\ job' \in [Workers -> TokenRequests \cup {None}]
  <2>1. PICK v : v = [at |-> "revoke", client |-> c, grant |-> RefreshGrant(t)]
    OBVIOUS
  <2>2. t \in Nat
    BY DEF OTypeOK
  <2>3. v \in TokenRequests /\ refresh[t].client = c /\ ~ refresh[t].revoked
    BY <2>1, <2>2 DEF TokenRequests, Grants, RefreshGrant, GetRefreshToken, RefreshOK
  <2>4. job' = [job EXCEPT ![w] = v]
    BY <2>1 DEF GetRefreshToken, Begin
  <2>5. /\ job' \in [Workers -> TokenRequests \cup {None}] /\ job'[w] = v
        /\ \A u \in Workers : u # w => job'[u] = job[u]
    BY <2>3, <2>4 DEF OTypeOK
  <2>6. ReadsToken(w, t)
    BY <2>1, <2>3, <2>5 DEF ReadsToken
  <2> QED
    BY <2>5, <2>6 DEF JobFrom, Waits, SameGrant
<1>5. OTypeOK'
  BY <1>2, <1>4 DEF OTypeOK, GetRefreshToken
<1> QED
  BY <1>4, <1>5, KeptRows, Untouched DEF GetRefreshToken, StepShape

\* A request that is about to revoke has read the token from the table.
LEMMA RevokesRead ==
    ASSUME OInv, NEW w \in Workers, At(w, "revoke")
    PROVE  /\ job[w] # None /\ job[w] \in TokenRequests
           /\ job[w].grant.nr \in DOMAIN refresh /\ job[w].grant.nr \in Nat
<1>1. job[w] # None /\ job[w] \in TokenRequests
  BY DEF OInv, OTypeOK, At
<1>2. job[w].grant.kind # "code"
  BY <1>1 DEF OInv, CodeHeld, At
<1>3. job[w].grant.nr \in DOMAIN refresh
  BY <1>1, <1>2 DEF OInv, ClientKept, Issued, CodeGrant, RefreshGrant
<1> QED
  BY <1>1, <1>3 DEF OInv, OTypeOK

LEMMA RotateRevokeShape ==
    ASSUME OInv, NEW w \in Workers, RotateRevoke(w)
    PROVE  OTypeOK' /\ StepShape
<1>t. OTypeOK
  BY DEF OInv
<1>0. PICK n : n = job[w].grant.nr
  OBVIOUS
<1>1. n \in DOMAIN refresh /\ job[w] # None
  BY <1>0, RevokesRead DEF RotateRevoke
<1>2. Revokes(refresh, refresh', n)
  BY <1>t, <1>0, <1>1, TokenRevoked DEF OTypeOK, RotateRevoke
<1>3. Moves(job, job', w, "insert_access")
  BY <1>t, <1>1, RequestMoves DEF OTypeOK, RotateRevoke
<1>4. OTypeOK'
  BY <1>t, <1>2, <1>3, KeptRows DEF OTypeOK, RotateRevoke, Revokes, Moves
<1>5. Grown /\ RefreshFrom
  BY <1>2, Zenon DEF RotateRevoke, Revokes, Grown, RefreshFrom
<1>6. refresh'[n].revoked /\ job'[w].grant.nr = n
  BY <1>0, <1>2, <1>3 DEF Revokes, Moves
<1>7. Rotates(w)
  BY <1>1, <1>3, <1>6 DEF Rotates, SameGrant, Spent, Moves, RotateRevoke, At
<1>8. JobFrom
  BY <1>3, <1>7 DEF JobFrom, Moves, Waits, SameGrant
<1> QED
  BY <1>t, <1>4, <1>5, <1>8, Untouched DEF RotateRevoke, StepShape

LEMMA RotateRevokeFailsShape ==
    ASSUME OInv, NEW w \in Workers, RotateRevokeFails(w)
    PROVE  OTypeOK' /\ StepShape
<1>t. OTypeOK
  BY DEF OInv
<1>0. PICK n : n = job[w].grant.nr
  OBVIOUS
<1>1. n \in Nat /\ job[w] # None
  BY <1>0, RevokesRead DEF RotateRevokeFails
<1>2. unrevoked' = unrevoked \cup {n}
  BY <1>0 DEF RotateRevokeFails
<1>3. Moves(job, job', w, "insert_access")
  BY <1>t, <1>1, RequestMoves DEF OTypeOK, RotateRevokeFails
<1>4. OTypeOK'
  BY <1>t, <1>1, <1>2, <1>3, KeptRows, OAuthAssumption DEF OTypeOK, RotateRevokeFails, Moves
<1>5. Grown
  BY <1>2, Zenon DEF RotateRevokeFails, Grown
<1>6. job'[w].grant.nr \in unrevoked'
  BY <1>0, <1>2, <1>3 DEF Moves
<1>7. Rotates(w)
  BY <1>1, <1>3, <1>6 DEF Rotates, SameGrant, Spent, Moves, RotateRevokeFails, At
<1>8. JobFrom
  BY <1>3, <1>7 DEF JobFrom, Moves, Waits, SameGrant
<1> QED
  BY <1>t, <1>4, <1>5, <1>8, Untouched DEF RotateRevokeFails, StepShape

LEMMA InsertAccessShape ==
    ASSUME OTypeOK, NEW w \in Workers, InsertAccessJti(w)
    PROVE  OTypeOK' /\ StepShape
<1>1. PICK v : v = Token(w, AccessTtl)
  OBVIOUS
<1>2. job[w] # None /\ job[w].at = "insert_access" /\ job[w] \in TokenRequests
  BY DEF OTypeOK, InsertAccessJti, At
<1>3. /\ v \in TokenRows
      /\ v.client = job[w].client /\ v.grant = job[w].grant
  BY <1>1, <1>2, KeptRows, OAuthAssumption DEF TokenRows, Token, TokenRequests
<1>4. access' = Append(access, v) /\ access \in Seq(TokenRows)
  BY <1>1 DEF InsertAccessJti, OTypeOK
<1>5. PICK n : n = Len(access) + 1
  OBVIOUS
<1>6. /\ access' \in Seq(TokenRows) /\ DOMAIN access' = DOMAIN access \cup {n}
      /\ n \notin DOMAIN access /\ access'[n] = v
      /\ \A j \in DOMAIN access : access'[j] = access[j]
  BY <1>3, <1>4, <1>5, RowAdded
<1>7. Moves(job, job', w, "insert_refresh")
  BY <1>2, RequestMoves DEF OTypeOK, InsertAccessJti
<1>8. OTypeOK'
  BY <1>6, <1>7, KeptRows DEF OTypeOK, InsertAccessJti, Moves
<1>9. Grown
  BY <1>6, Zenon DEF InsertAccessJti, Grown
<1>10. At(w, "insert_access") /\ At(w, "insert_refresh")'
  BY <1>7 DEF InsertAccessJti, Moves, At
<1>11. AccessFrom
  BY <1>3, <1>6, <1>10 DEF AccessFrom
<1>12. JobFrom
  BY <1>2, <1>7 DEF JobFrom, Moves, Stores, Waits, SameGrant
<1> QED
  BY <1>8, <1>9, <1>11, <1>12, Untouched DEF InsertAccessJti, StepShape

LEMMA InsertRefreshShape ==
    ASSUME OTypeOK, NEW w \in Workers, InsertRefreshToken(w)
    PROVE  OTypeOK' /\ StepShape
<1>1. PICK v : v = Token(w, RefreshTtl)
  OBVIOUS
<1>2. job[w] # None /\ job[w] \in TokenRequests
  BY DEF OTypeOK, InsertRefreshToken, At
<1>3. /\ v \in TokenRows
      /\ v.client = job[w].client /\ v.grant = job[w].grant
  BY <1>1, <1>2, KeptRows, OAuthAssumption DEF TokenRows, Token, TokenRequests
<1>4. refresh' = Append(refresh, v) /\ refresh \in Seq(TokenRows)
  BY <1>1 DEF InsertRefreshToken, OTypeOK
<1>5. PICK n : n = Len(refresh) + 1
  OBVIOUS
<1>6. /\ refresh' \in Seq(TokenRows) /\ DOMAIN refresh' = DOMAIN refresh \cup {n}
      /\ n \notin DOMAIN refresh /\ refresh'[n] = v
      /\ \A j \in DOMAIN refresh : refresh'[j] = refresh[j]
  BY <1>3, <1>4, <1>5, RowAdded
<1>7. JobFrom /\ job' \in [Workers -> TokenRequests \cup {None}]
  BY RequestEnds DEF InsertRefreshToken
<1>8. OTypeOK'
  BY <1>6, <1>7, KeptRows DEF OTypeOK, InsertRefreshToken
<1>9. Grown
  BY <1>6, Zenon DEF InsertRefreshToken, Grown
<1>10. RefreshFrom
  BY <1>2, <1>3, <1>6 DEF RefreshFrom
<1> QED
  BY <1>7, <1>8, <1>9, <1>10, Untouched DEF InsertRefreshToken, StepShape

LEMMA NextShape ==
    ASSUME OInv, [ONext]_ovars
    PROVE  OTypeOK' /\ StepShape
<1>t. OTypeOK
  BY DEF OInv
<1>1. CASE UNCHANGED ovars
  BY <1>t, <1>1, StutterShape
<1>2. CASE \E c \in Clients : Register(c) \/ Decide(c) \/ InvalidGrant(c)
  BY <1>t, <1>2, RegisterShape, DecideShape, InvalidGrantShape
<1>3. CASE \E w \in Workers, c \in Clients :
              \/ \E k \in DOMAIN codes, rest \in BOOLEAN : ExchangeCode(w, c, k, rest)
              \/ \E t \in DOMAIN refresh : GetRefreshToken(w, c, t)
  BY <1>t, <1>3, ExchangeCodeShape, GetRefreshTokenShape
<1>4. CASE \E w \in Workers :
              \/ RotateRevoke(w) \/ RotateRevokeFails(w)
              \/ InsertAccessJti(w) \/ InsertRefreshToken(w) \/ InsertFails(w)
  BY <1>t, <1>4, RotateRevokeShape, RotateRevokeFailsShape, InsertAccessShape,
     InsertRefreshShape, InsertFailsShape
<1>5. CASE Restart \/ Clock
  BY <1>t, <1>5, RestartShape, ClockShape
<1>6. CASE \/ \E t \in DOMAIN refresh : RevokeRefresh(t)
           \/ \E j \in DOMAIN access : RevokeAccess(j)
  BY <1>t, <1>6, RevokeRefreshShape, RevokeAccessShape
<1> QED
  BY <1>1, <1>2, <1>3, <1>4, <1>5, <1>6 DEF ONext


-----------------------------------------------------------------------------
(* Counting the tokens of a grant.                                          *)

Counted(g) ==
    Cardinality(RefreshOf(g)) + Cardinality(HalfIssued(g)) <= Cardinality(AccessOf(g))

LEMMA FiniteTables ==
    ASSUME OTypeOK, NEW g
    PROVE  /\ IsFiniteSet(RefreshOf(g)) /\ Cardinality(RefreshOf(g)) \in Nat
           /\ IsFiniteSet(HalfIssued(g)) /\ Cardinality(HalfIssued(g)) \in Nat
           /\ IsFiniteSet(AccessOf(g)) /\ Cardinality(AccessOf(g)) \in Nat
<1>1. /\ DOMAIN refresh = 1 .. Len(refresh) /\ Len(refresh) \in Nat
      /\ DOMAIN access = 1 .. Len(access) /\ Len(access) \in Nat
  BY DEF OTypeOK
<1>2. IsFiniteSet(DOMAIN refresh) /\ IsFiniteSet(DOMAIN access)
  BY <1>1, FS_Interval
<1>3. /\ RefreshOf(g) \in SUBSET DOMAIN refresh
      /\ AccessOf(g) \in SUBSET DOMAIN access
      /\ HalfIssued(g) \in SUBSET Workers
  BY DEF RefreshOf, AccessOf, HalfIssued
<1>4. IsFiniteSet(RefreshOf(g)) /\ IsFiniteSet(AccessOf(g)) /\ IsFiniteSet(HalfIssued(g))
  BY <1>2, <1>3, FS_Subset, OAuthAssumption
<1> QED
  BY <1>4, FS_CardinalityType

\* A grant that is in no table has no token and no request.
LEMMA CountedForAll ==
    ASSUME OInv, NEW g
    PROVE  Counted(g)
<1>1. CASE g \in Issued
  BY <1>1 DEF OInv, NoRefreshWithoutAccess, Counted
<1>2. CASE g \notin Issued
  <2>1. RefreshOf(g) = {} /\ HalfIssued(g) = {}
    BY <1>2 DEF OInv, ClientKept, RefreshOf, HalfIssued, At
  <2>2. Cardinality(AccessOf(g)) \in Nat
    BY FiniteTables DEF OInv
  <2> QED
    BY <2>1, <2>2, FS_EmptySet DEF Counted
<1> QED
  BY <1>1, <1>2

\* Steps that store nothing count no more refresh tokens than before.
LEMMA QuietCounts ==
    ASSUME OInv, OTypeOK', StepShape, NEW g,
           DOMAIN access' = DOMAIN access, DOMAIN refresh' = DOMAIN refresh,
           \A w \in Workers : At(w, "insert_refresh")' =>
               At(w, "insert_refresh") /\ job'[w].grant = job[w].grant
    PROVE  Counted(g)'
<1>1. AccessOf(g)' = AccessOf(g) /\ RefreshOf(g)' = RefreshOf(g)
  BY DEF StepShape, Grown, AccessOf, RefreshOf
<1>2. HalfIssued(g)' \in SUBSET HalfIssued(g)
  BY DEF HalfIssued
<1>3. /\ IsFiniteSet(HalfIssued(g)) /\ Cardinality(HalfIssued(g)) \in Nat
      /\ Cardinality(AccessOf(g)) \in Nat /\ Cardinality(RefreshOf(g)) \in Nat
  BY FiniteTables DEF OInv
<1>4. /\ Cardinality(HalfIssued(g)') <= Cardinality(HalfIssued(g))
      /\ Cardinality(HalfIssued(g)') \in Nat
  BY <1>2, <1>3, FS_Subset, FS_CardinalityType
<1>5. Counted(g)
  BY CountedForAll
<1> QED
  BY <1>1, <1>3, <1>4, <1>5 DEF Counted


\* The access token is counted with the request that still owes the refresh token.
LEMMA InsertAccessCounts ==
    ASSUME OInv, NEW w \in Workers, InsertAccessJti(w), NEW g
    PROVE  Counted(g)'
<1>t. OTypeOK /\ OTypeOK' /\ StepShape
  BY InsertAccessShape DEF OInv
<1>1. PICK v : v = Token(w, AccessTtl)
  OBVIOUS
<1>2. job[w] # None /\ job[w].at = "insert_access" /\ job[w] \in TokenRequests
  BY <1>t DEF OTypeOK, InsertAccessJti, At
<1>3. v \in TokenRows /\ v.grant = job[w].grant
  BY <1>t, <1>1, <1>2, KeptRows, OAuthAssumption DEF TokenRows, Token, TokenRequests
<1>4. access' = Append(access, v) /\ access \in Seq(TokenRows)
  BY <1>t, <1>1 DEF InsertAccessJti, OTypeOK
<1>5. PICK n : n = Len(access) + 1
  OBVIOUS
<1>6. /\ DOMAIN access' = DOMAIN access \cup {n}
      /\ n \notin DOMAIN access /\ access'[n] = v
      /\ \A j \in DOMAIN access : access'[j] = access[j]
  BY <1>3, <1>4, <1>5, RowAdded
<1>7. Moves(job, job', w, "insert_refresh")
  BY <1>t, <1>2, RequestMoves DEF OTypeOK, InsertAccessJti
<1>8. RefreshOf(g)' = RefreshOf(g)
  BY DEF InsertAccessJti, RefreshOf
<1>9. /\ IsFiniteSet(HalfIssued(g)) /\ Cardinality(HalfIssued(g)) \in Nat
      /\ IsFiniteSet(AccessOf(g)) /\ Cardinality(AccessOf(g)) \in Nat
      /\ Cardinality(RefreshOf(g)) \in Nat
  BY <1>t, FiniteTables
<1>10. Counted(g)
  BY CountedForAll
<1>11. CASE g = job[w].grant
  <2>1. AccessOf(g)' = AccessOf(g) \cup {n} /\ n \notin AccessOf(g)
    BY <1>3, <1>6, <1>11 DEF AccessOf
  <2>2. HalfIssued(g)' = HalfIssued(g) \cup {w} /\ w \notin HalfIssued(g)
    BY <1>2, <1>7, <1>11 DEF HalfIssued, At, Moves
  <2>3. /\ Cardinality(AccessOf(g)') = Cardinality(AccessOf(g)) + 1
        /\ Cardinality(HalfIssued(g)') = Cardinality(HalfIssued(g)) + 1
    BY <1>9, <2>1, <2>2, FS_AddElement
  <2> QED
    BY <1>8, <1>9, <1>10, <2>3 DEF Counted
<1>12. CASE g # job[w].grant
  <2>1. AccessOf(g)' = AccessOf(g)
    BY <1>3, <1>6, <1>12 DEF AccessOf
  <2>2. HalfIssued(g)' = HalfIssued(g)
    BY <1>2, <1>7, <1>12 DEF HalfIssued, At, Moves
  <2> QED
    BY <1>8, <1>10, <2>1, <2>2 DEF Counted
<1> QED
  BY <1>11, <1>12

\* Storing the refresh token settles the debt.
LEMMA InsertRefreshCounts ==
    ASSUME OInv, NEW w \in Workers, InsertRefreshToken(w), NEW g
    PROVE  Counted(g)'
<1>t. OTypeOK /\ OTypeOK' /\ StepShape
  BY InsertRefreshShape DEF OInv
<1>1. PICK v : v = Token(w, RefreshTtl)
  OBVIOUS
<1>2. job[w] # None /\ job[w].at = "insert_refresh" /\ job[w] \in TokenRequests
  BY <1>t DEF OTypeOK, InsertRefreshToken, At
<1>3. v \in TokenRows /\ v.grant = job[w].grant
  BY <1>t, <1>1, <1>2, KeptRows, OAuthAssumption DEF TokenRows, Token, TokenRequests
<1>4. refresh' = Append(refresh, v) /\ refresh \in Seq(TokenRows)
  BY <1>t, <1>1 DEF InsertRefreshToken, OTypeOK
<1>5. PICK n : n = Len(refresh) + 1
  OBVIOUS
<1>6. /\ DOMAIN refresh' = DOMAIN refresh \cup {n}
      /\ n \notin DOMAIN refresh /\ refresh'[n] = v
      /\ \A j \in DOMAIN refresh : refresh'[j] = refresh[j]
  BY <1>3, <1>4, <1>5, RowAdded
<1>7. job'[w] = None /\ \A u \in Workers : u # w => job'[u] = job[u]
  BY <1>t DEF OTypeOK, InsertRefreshToken
<1>8. AccessOf(g)' = AccessOf(g)
  BY DEF InsertRefreshToken, AccessOf
<1>9. /\ IsFiniteSet(HalfIssued(g)) /\ Cardinality(HalfIssued(g)) \in Nat
      /\ IsFiniteSet(RefreshOf(g)) /\ Cardinality(RefreshOf(g)) \in Nat
      /\ Cardinality(AccessOf(g)) \in Nat
  BY <1>t, FiniteTables
<1>10. Counted(g)
  BY CountedForAll
<1>11. CASE g = job[w].grant
  <2>1. RefreshOf(g)' = RefreshOf(g) \cup {n} /\ n \notin RefreshOf(g)
    BY <1>3, <1>6, <1>11 DEF RefreshOf
  <2>2. HalfIssued(g)' = HalfIssued(g) \ {w} /\ w \in HalfIssued(g)
    BY <1>2, <1>7, <1>11 DEF HalfIssued, At
  <2>3. Cardinality(RefreshOf(g)') = Cardinality(RefreshOf(g)) + 1
    BY <1>9, <2>1, FS_AddElement
  <2>4. Cardinality(HalfIssued(g)') = Cardinality(HalfIssued(g)) - 1
    BY <1>9, <2>2, FS_RemoveElement
  <2> QED
    BY <1>8, <1>9, <1>10, <2>3, <2>4 DEF Counted
<1>12. CASE g # job[w].grant
  <2>1. RefreshOf(g)' = RefreshOf(g)
    BY <1>3, <1>6, <1>12 DEF RefreshOf
  <2>2. HalfIssued(g)' = HalfIssued(g)
    BY <1>2, <1>7, <1>12 DEF HalfIssued, At
  <2> QED
    BY <1>8, <1>10, <2>1, <2>2 DEF Counted
<1> QED
  BY <1>11, <1>12

LEMMA NextCounts ==
    ASSUME OInv, [ONext]_ovars
    PROVE  NoRefreshWithoutAccess'
<1> SUFFICES ASSUME NEW g PROVE Counted(g)'
  BY DEF NoRefreshWithoutAccess, Counted
<1>t. OTypeOK /\ OTypeOK' /\ StepShape
  BY NextShape DEF OInv
<1> DEFINE Quiet == \A w \in Workers : At(w, "insert_refresh")' =>
                       At(w, "insert_refresh") /\ job'[w].grant = job[w].grant
<1>q. ASSUME Quiet, DOMAIN access' = DOMAIN access, DOMAIN refresh' = DOMAIN refresh
      PROVE  Counted(g)'
  BY <1>q, <1>t, QuietCounts
<1>j. job' = job => Quiet
  BY DEF At
<1>1. CASE UNCHANGED ovars
  BY <1>1, <1>q, <1>j DEF ovars
<1>2. CASE \E c \in Clients : Register(c) \/ Decide(c) \/ InvalidGrant(c)
  BY <1>2, <1>q, <1>j DEF Register, Decide, InvalidGrant
<1>3. ASSUME NEW w \in Workers, NEW c \in Clients, NEW k \in DOMAIN codes,
             NEW rest \in BOOLEAN, ExchangeCode(w, c, k, rest)
      PROVE  Counted(g)'
  <2>1. Quiet
    <3>1. CASE Matches(c, k, rest)
      BY <1>t, <1>3, <3>1 DEF ExchangeCode, Begin, At, OTypeOK
    <3>2. CASE ~ Matches(c, k, rest)
      BY <1>j, <1>3, <3>2 DEF ExchangeCode
    <3> QED
      BY <3>1, <3>2
  <2> QED
    BY <1>3, <1>q, <2>1 DEF ExchangeCode
<1>4. ASSUME NEW w \in Workers, NEW c \in Clients, NEW t \in DOMAIN refresh,
             GetRefreshToken(w, c, t)
      PROVE  Counted(g)'
  <2>1. Quiet
    BY <1>t, <1>4 DEF GetRefreshToken, Begin, At, OTypeOK
  <2> QED
    BY <1>4, <1>q, <2>1 DEF GetRefreshToken
<1>m. ASSUME NEW w \in Workers, At(w, "revoke"), job' = [job EXCEPT ![w].at = "insert_access"]
      PROVE  Quiet
  <2>1. Moves(job, job', w, "insert_access")
    BY <1>t, <1>m, RequestMoves DEF OTypeOK, At
  <2> QED
    BY <2>1 DEF Moves, At
<1>5. ASSUME NEW w \in Workers, RotateRevoke(w) PROVE Counted(g)'
  <2>1. DOMAIN refresh' = DOMAIN refresh
    BY <1>t, <1>5 DEF RotateRevoke, OTypeOK
  <2> QED
    BY <1>5, <1>m, <1>q, <2>1 DEF RotateRevoke
<1>6. ASSUME NEW w \in Workers, RotateRevokeFails(w) PROVE Counted(g)'
  BY <1>6, <1>m, <1>q DEF RotateRevokeFails
<1>7. ASSUME NEW w \in Workers, InsertFails(w) PROVE Counted(g)'
  <2>1. Quiet
    BY <1>t, <1>7 DEF InsertFails, At, OTypeOK
  <2> QED
    BY <1>7, <1>q, <2>1 DEF InsertFails
<1>8. CASE \E w \in Workers : InsertAccessJti(w) \/ InsertRefreshToken(w)
  BY <1>8, InsertAccessCounts, InsertRefreshCounts
<1>9. CASE Restart
  <2>1. Quiet
    BY <1>9 DEF Restart, At
  <2> QED
    BY <1>9, <1>q, <2>1 DEF Restart
<1>10. CASE Clock
  BY <1>10, <1>q, <1>j DEF Clock
<1>11. ASSUME NEW t \in DOMAIN refresh, RevokeRefresh(t) PROVE Counted(g)'
  <2>1. DOMAIN refresh' = DOMAIN refresh
    BY <1>t, <1>11 DEF RevokeRefresh, OTypeOK
  <2> QED
    BY <1>11, <1>q, <1>j, <2>1 DEF RevokeRefresh
<1>12. ASSUME NEW j \in DOMAIN access, RevokeAccess(j) PROVE Counted(g)'
  <2>1. DOMAIN access' = DOMAIN access
    BY <1>t, <1>12 DEF RevokeAccess, OTypeOK
  <2> QED
    BY <1>12, <1>q, <1>j, <2>1 DEF RevokeAccess
<1> QED
  BY <1>1, <1>2, <1>3, <1>4, <1>5, <1>6, <1>7, <1>8, <1>9, <1>10, <1>11, <1>12 DEF ONext

-----------------------------------------------------------------------------
(* What a step does to the limiter.                                         *)

LEMMA LimitKeeps ==
    ASSUME OTypeOK, WindowsMatch, [ONext]_ovars
    PROVE  WindowsMatch' /\ (UnderTwiceTheLimit => UnderTwiceTheLimit')
<1>t. LimitTypeOK /\ now \in Nat
  BY RateAssumption DEF OTypeOK, LimitTypeOK
<1>1. CASE UNCHANGED limitvars
  BY <1>1 DEF limitvars, WindowsMatch, UnderTwiceTheLimit, First
<1>2. CASE Tick
  <2>1. \A c \in Clients : \A i \in DOMAIN allowed[c] : allowed[c][i] \in Nat
    BY RateAssumption, <1>t DEF LimitTypeOK
  <2>2. WindowsMatch'
    BY <1>t, <1>2, <2>1 DEF Tick, WindowsMatch, First
  <2> QED
    BY <1>2, <2>2 DEF Tick, UnderTwiceTheLimit
<1>3. CASE Restart
  <2>1. \A c \in Clients : windows'[c] = None /\ allowed'[c] = <<>> /\ DOMAIN allowed'[c] = {}
    BY <1>3 DEF Restart
  <2> QED
    BY <2>1 DEF WindowsMatch, UnderTwiceTheLimit
<1>4. ASSUME NEW c \in Clients, Check(c), now' = now
      PROVE  WindowsMatch' /\ (UnderTwiceTheLimit => UnderTwiceTheLimit')
  <2>1. LetThrough(c) /\ WindowMatches(c)
    BY <1>t, <1>4, CheckLetsThrough DEF WindowsMatch, WindowMatches
  <2>2. WindowMatches(c)' /\ (UnderTwice(c) => UnderTwice(c)')
    BY <1>t, <2>1, LetThroughMatches
  <2>3. ASSUME NEW d \in Clients, d # c
        PROVE  WindowMatches(d)' /\ (UnderTwice(d) => UnderTwice(d)')
    <3>1. windows'[d] = windows[d] /\ allowed'[d] = allowed[d] /\ now' = now
      BY <2>1, <2>3 DEF LetThrough
    <3>2. WindowMatches(d)
      BY DEF WindowsMatch, WindowMatches
    <3> QED
      BY <3>1, <3>2 DEF WindowMatches, UnderTwice, First
  <2>4. \A d \in Clients : WindowMatches(d)' /\ (UnderTwice(d) => UnderTwice(d)')
    BY <2>2, <2>3
  <2>5. WindowsMatch'
    BY <2>4 DEF WindowsMatch, WindowMatches
  <2>6. UnderTwiceTheLimit => UnderTwiceTheLimit'
    BY <2>4 DEF UnderTwiceTheLimit, UnderTwice
  <2> QED
    BY <2>5, <2>6
<1>6. CASE Uncounted /\ now' = now
  BY <1>6 DEF Uncounted, WindowsMatch, UnderTwiceTheLimit, First
<1>5. \/ UNCHANGED limitvars \/ Tick \/ Restart
      \/ \E c \in Clients : Check(c) /\ now' = now
      \/ Uncounted /\ now' = now
  <2>1. ASSUME NEW c \in Clients, RateLimitToken(c), now' = now
        PROVE  \/ \E d \in Clients : Check(d) /\ now' = now
               \/ Uncounted /\ now' = now
    BY <2>1 DEF RateLimitToken
  <2> QED
    BY <2>1
    DEF ONext, ovars, Register, Decide, InvalidGrant, ExchangeCode, GetRefreshToken, RotateRevoke,
        RotateRevokeFails, InsertAccessJti, InsertRefreshToken, InsertFails, RevokeRefresh,
        RevokeAccess, Clock
<1> QED
  BY <1>1, <1>2, <1>3, <1>4, <1>5, <1>6

-----------------------------------------------------------------------------
LEMMA InitHolds == OInit => OInv
<1> SUFFICES ASSUME OInit PROVE OInv
  OBVIOUS
<1>1. LimitTypeOK
  BY RateAssumption DEF OInit, LimitInit, LimitTypeOK
<1>2. OTypeOK
  BY <1>1, OAuthAssumption DEF OInit, OTypeOK
<1>3. DOMAIN codes = {} /\ DOMAIN access = {} /\ DOMAIN refresh = {}
      /\ \A w \in Workers : job[w] = None
  BY DEF OInit
<1>4. ClientKept /\ CodeHeld /\ RotatedIsRevoked /\ RotatesRevoked
  BY <1>3 DEF ClientKept, CodeHeld, RotatedIsRevoked, RotatesRevoked, At
<1>5. Issued = {}
  BY <1>3 DEF Issued
<1>6. WindowsMatch
  BY DEF OInit, LimitInit, WindowsMatch
<1> QED
  BY <1>2, <1>4, <1>5, <1>6 DEF OInv, NoRefreshWithoutAccess

\* The tables of the OAuth server stay consistent whatever requests, failed store
\* calls and restarts interleave: OInv is inductive.
THEOREM TokensSafe == OSpec => []OInv
<1>1. OInv /\ [ONext]_ovars => OInv'
  BY NextShape, ShapeKeeps, NextCounts, LimitKeeps DEF OInv
<1> QED
  BY InitHolds, <1>1, PTL DEF OSpec

\* handle_authorization_code: however many requests present a code at the same
\* time, it yields one pair at most.
THEOREM CodesUsedOnce == OSpec => []CodeUsedOnce
<1>1. ASSUME OInv PROVE CodeUsedOnce
  <2> SUFFICES ASSUME NEW k \in DOMAIN codes
               PROVE  Cardinality(AccessOf(CodeGrant(k)))
                      + Cardinality({w \in Workers : At(w, "insert_access")
                                                     /\ job[w].grant = CodeGrant(k)}) <= 1
    BY DEF CodeUsedOnce
  <2> DEFINE A == AccessOf(CodeGrant(k))
             H == {w \in Workers : At(w, "insert_access") /\ job[w].grant = CodeGrant(k)}
  <2>1. CodeGrant(k).kind = "code"
    BY DEF CodeGrant
  <2>2. /\ \A i, j \in A : i = j
        /\ \A v, w \in H : v = w
        /\ A = {} \/ H = {}
    BY <1>1, <2>1 DEF OInv, CodeHeld, AccessOf, At
  <2>3. A = {} \/ \E j : A = {j}
    BY <2>2
  <2>4. H = {} \/ \E w : H = {w}
    BY <2>2
  <2> HIDE DEF A, H
  <2>5. Cardinality(A) + Cardinality(H) <= 1
    BY <2>2, <2>3, <2>4, FS_EmptySet, FS_Singleton
  <2> QED
    BY <2>5 DEF A, H
<1> QED
  BY <1>1, TokensSafe, PTL

\* What one refresh token has yielded and may still yield.
Yields(t) ==
    Cardinality(AccessOf(RefreshGrant(t))) + Cardinality(Rotating(RefreshGrant(t)))

\* While a refresh token has not been revoked it has yielded nothing: its yield is
\* bounded by the requests there can be. Once it has, only the requests that had
\* read it before go on.
LEMMA RotationKept ==
    ASSUME OInv, OInv', StepShape, RotationBounded
    PROVE  RotationBounded'
<1> SUFFICES ASSUME NEW t \in DOMAIN refresh', t \notin unrevoked'
             PROVE  Yields(t)' <= Cardinality(Workers)
  BY DEF RotationBounded, Yields
<1> DEFINE g == RefreshGrant(t)
<1>g. g.kind = "refresh" /\ g.nr = t
  BY DEF RefreshGrant
<1>s. Grown /\ AccessFrom /\ JobFrom /\ t \notin unrevoked
  BY DEF StepShape, Grown
<1>f. /\ IsFiniteSet(AccessOf(g)) /\ IsFiniteSet(AccessOf(g)')
      /\ IsFiniteSet(Rotating(g)) /\ IsFiniteSet(Rotating(g)')
      /\ Cardinality(Workers) \in Nat
      /\ Cardinality(Rotating(g)') <= Cardinality(Workers)
      /\ \A S : IsFiniteSet(S) => Cardinality(S) \in Nat
  <2>1. OTypeOK /\ OTypeOK'
    BY DEF OInv
  <2>2. IsFiniteSet(AccessOf(g)) /\ IsFiniteSet(AccessOf(g)')
    <3>1. IsFiniteSet(DOMAIN access) /\ IsFiniteSet(DOMAIN access')
      BY <2>1, FS_Interval DEF OTypeOK
    <3>2. AccessOf(g) \subseteq DOMAIN access /\ AccessOf(g)' \subseteq DOMAIN access'
      BY DEF AccessOf
    <3> QED
      BY <3>1, <3>2, FS_Subset
  <2>3. Rotating(g) \subseteq Workers /\ Rotating(g)' \subseteq Workers
    BY DEF Rotating
  <2> QED
    BY <2>2, <2>3, OAuthAssumption, FS_Subset, FS_CardinalityType
<1>n. ASSUME AccessOf(g)' = {} PROVE Yields(t)' <= Cardinality(Workers)
  BY <1>n, <1>f, FS_EmptySet DEF Yields
<1>1. CASE ~ refresh'[t].revoked
  <2>1. AccessOf(g)' = {}
    BY <1>1, <1>g DEF OInv, RotatedIsRevoked, Spent, AccessOf
  <2> QED
    BY <1>n, <2>1
<1>2. CASE t \notin DOMAIN refresh \/ ~ refresh[t].revoked
  <2>1. \A j \in DOMAIN access : access[j].grant # g
    BY <1>2, <1>g, <1>s DEF OInv, RotatedIsRevoked, Spent, ClientKept, Issued, CodeGrant, RefreshGrant
  <2>2. \A w \in Workers : At(w, "insert_access") => job[w].grant # g
    <3> SUFFICES ASSUME NEW w \in Workers, At(w, "insert_access"), job[w].grant = g
                 PROVE  FALSE
      OBVIOUS
    <3>1. job[w] # None /\ job[w].at # "revoke"
      BY DEF At
    <3>2. Spent(g)
      BY <3>1, <1>g DEF OInv, RotatesRevoked
    <3>3. g \in Issued
      BY <3>1 DEF OInv, ClientKept
    <3>4. t \in DOMAIN refresh
      BY <3>3, <1>g DEF Issued, CodeGrant, RefreshGrant
    <3> QED
      BY <1>2, <1>g, <1>s, <3>2, <3>4 DEF Spent
  <2>3. AccessOf(g)' = {}
    <3> SUFFICES ASSUME NEW j \in DOMAIN access', access'[j].grant = g PROVE FALSE
      BY DEF AccessOf
    <3>1. CASE j \in DOMAIN access
      BY <2>1, <3>1, <1>s DEF Grown
    <3>2. CASE j \notin DOMAIN access
      <4>1. PICK w \in Workers : At(w, "insert_access") /\ access'[j].grant = job[w].grant
        BY <3>2, <1>s DEF AccessFrom
      <4> QED
        BY <2>2, <4>1
    <3> QED
      BY <3>1, <3>2
  <2> QED
    BY <1>n, <2>3
<1>3. CASE t \in DOMAIN refresh /\ refresh[t].revoked
  <2>1. Rotating(g)' \subseteq Rotating(g)
    <3> SUFFICES ASSUME NEW w \in Rotating(g)' PROVE w \in Rotating(g)
      OBVIOUS
    <3>1. w \in Workers /\ job'[w] # None /\ job'[w].grant = g /\ job'[w].at # "insert_refresh"
      BY DEF Rotating, At
    <3>2. CASE Waits(w) \/ Rotates(w)
      BY <3>1, <3>2 DEF Waits, Rotates, SameGrant, Rotating, At
    <3>3. CASE Stores(w)
      BY <3>1, <3>3 DEF Stores
    <3>4. CASE \E k \in DOMAIN codes : TakesCode(w, k)
      BY <3>1, <3>4, <1>g DEF TakesCode, CodeGrant
    <3>5. CASE \E u \in DOMAIN refresh : ReadsToken(w, u)
      BY <3>1, <3>5, <1>3 DEF ReadsToken, RefreshGrant
    <3> QED
      BY <3>1, <3>2, <3>3, <3>4, <3>5, <1>s DEF JobFrom
  <2>2. Cardinality(Rotating(g)') <= Cardinality(Rotating(g))
    BY <2>1, <1>f, FS_Subset
  <2>3. Yields(t) <= Cardinality(Workers)
    BY <1>3, <1>s DEF RotationBounded, Yields
  <2>4. CASE AccessOf(g)' = AccessOf(g)
    BY <2>2, <2>3, <2>4, <1>f DEF Yields
  <2>5. CASE AccessOf(g)' # AccessOf(g)
    <3>1. \A j \in AccessOf(g) : j \in AccessOf(g)'
      BY <1>s DEF Grown, AccessOf
    <3>2. PICK j : j \in AccessOf(g)' /\ j \notin AccessOf(g)
      BY <2>5, <3>1
    <3>3. j \in DOMAIN access' \ DOMAIN access /\ access'[j].grant = g
      BY <3>2, <1>s DEF AccessOf, Grown
    <3>4. DOMAIN access' = DOMAIN access \cup {j}
      BY <3>3, <1>s DEF AccessFrom
    <3>5. PICK w \in Workers : /\ At(w, "insert_access") /\ At(w, "insert_refresh")'
                               /\ job[w].grant = g
      BY <3>3, <1>s DEF AccessFrom
    <3>6. w \in Rotating(g) /\ w \notin Rotating(g)'
      BY <3>5 DEF Rotating, At
    <3>7. AccessOf(g)' = AccessOf(g) \cup {j}
      BY <3>2, <3>3, <3>4, <1>s DEF AccessOf, Grown
    <3>8. Cardinality(AccessOf(g)') = Cardinality(AccessOf(g)) + 1
      BY <3>2, <3>7, <1>f, FS_AddElement
    <3>9. Rotating(g)' \subseteq Rotating(g) \ {w}
      BY <2>1, <3>6
    <3>10. /\ IsFiniteSet(Rotating(g) \ {w})
           /\ Cardinality(Rotating(g) \ {w}) = Cardinality(Rotating(g)) - 1
      BY <3>6, <1>f, FS_RemoveElement
    <3>11. Cardinality(Rotating(g)') <= Cardinality(Rotating(g)) - 1
      BY <3>9, <3>10, FS_Subset
    <3> HIDE DEF g
    <3>12. /\ Cardinality(AccessOf(g)) \in Nat /\ Cardinality(Rotating(g)) \in Nat
           /\ Cardinality(Rotating(g)') \in Nat
      BY <1>f
    <3>13. /\ Yields(t) = Cardinality(AccessOf(g)) + Cardinality(Rotating(g))
           /\ Yields(t)' = Cardinality(AccessOf(g)') + Cardinality(Rotating(g)')
      BY DEF Yields, g
    <3> QED
      BY <2>3, <3>8, <3>11, <3>12, <3>13, <1>f
  <2> QED
    BY <2>4, <2>5
<1> QED
  BY <1>1, <1>2, <1>3

\* handle_refresh_token: however many requests present a refresh token at the same
\* time or later, and whatever fails or restarts in between, it yields no more pairs
\* than there are requests at a time, unless the store refused to revoke it.
THEOREM RotationsBounded == OSpec => []RotationBounded
<1>1. OInit => RotationBounded
  BY DEF OInit, RotationBounded
<1>2. ASSUME OInv, OInv', RotationBounded, [ONext]_ovars PROVE RotationBounded'
  BY <1>2, NextShape, RotationKept DEF OInv
<1> QED
  BY <1>1, <1>2, TokensSafe, PTL DEF OSpec

\* No step undoes a revocation or the consumption of a code: neither a rotation
\* that read the token before it was revoked, nor a failed insert, nor a restart.
THEOREM RevocationsStick == OSpec => RevocationSticks
<1>1. ASSUME OInv, [ONext]_ovars
      PROVE  [ /\ \A t \in DOMAIN refresh : refresh[t].revoked => refresh'[t].revoked
               /\ \A j \in DOMAIN access : access[j].revoked => access'[j].revoked
               /\ \A k \in DOMAIN codes : codes[k].consumed => codes'[k].consumed ]_ovars
  BY <1>1, NextShape DEF StepShape, Grown
<1> QED
  BY <1>1, TokensSafe, PTL DEF OSpec, RevocationSticks

\* RateLimiter::check: windows start with a request and do not slide, so more than
\* max_per_window requests may pass within window_secs, but fewer than twice as many,
\* for any limit, window and pattern of requests.
THEOREM LimitNeverDoubled == OSpec => []UnderTwiceTheLimit
<1>1. OInit => UnderTwiceTheLimit
  BY DEF OInit, LimitInit, UnderTwiceTheLimit
<1>2. OInv /\ UnderTwiceTheLimit /\ [ONext]_ovars => UnderTwiceTheLimit'
  BY LimitKeeps DEF OInv
<1> QED
  BY <1>1, <1>2, TokensSafe, PTL DEF OSpec
=============================================================================
