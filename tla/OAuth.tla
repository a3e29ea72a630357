--------------------------------- MODULE OAuth ---------------------------------
(***************************************************************************)
(* Grants and tokens of the MCP harness's OAuth server                     *)
(* (native-harness-mcp-auth: clients.rs, authorize.rs, token.rs,            *)
(* storage.rs).  A handler is a sequence of store calls, each atomic under  *)
(* the store's lock; requests interleave between calls, a call may fail,    *)
(* and the process may stop: what was stored stays.  Tokens are numbered    *)
(* in the order they are stored, and every row keeps (as history) the grant *)
(* it comes from.                                                           *)
(***************************************************************************)
EXTENDS RateLimiter

CONSTANTS
    Workers,      \* requests handled at the same time
    MaxCodes,     \* bounds on what is issued
    MaxAccess,
    MaxRefresh,
    CodeTtl, AccessTtl, RefreshTtl,
    MaxFaults     \* bound on failed store calls and restarts

\* What a token is issued for: a code, or a refresh token given in exchange.
Grants == [kind : {"code", "refresh"}, nr : Nat]

CodeGrant(k) == [kind |-> "code", nr |-> k]
RefreshGrant(t) == [kind |-> "refresh", nr |-> t]

\* Rows of the tables.
CodeRows == [client : Clients, expires_at : Nat, consumed : BOOLEAN]
TokenRows == [client : Clients, expires_at : Nat, revoked : BOOLEAN, grant : Grants]

\* A request between two store calls.
TokenRequests ==
    [at : {"revoke", "insert_access", "insert_refresh"}, client : Clients, grant : Grants]

ASSUME OAuthAssumption ==
    /\ MaxCodes \in Nat /\ MaxAccess \in Nat /\ MaxRefresh \in Nat /\ MaxFaults \in Nat
    /\ CodeTtl \in Nat /\ AccessTtl \in Nat /\ RefreshTtl \in Nat
    /\ IsFiniteSet(Workers)
    /\ None \notin TokenRequests

VARIABLES
    clients,      \* registered clients
    codes,        \* authorization_codes
    access,       \* access_token_jti
    refresh,      \* refresh_tokens
    job,          \* requests between two store calls
    unrevoked,    \* refresh tokens whose revocation failed in a rotation
    faults

ovars == <<limitvars, clients, codes, access, refresh, job, unrevoked, faults>>

OTypeOK ==
    /\ LimitTypeOK
    /\ clients \in SUBSET Clients
    /\ codes \in Seq(CodeRows)
    /\ access \in Seq(TokenRows)
    /\ refresh \in Seq(TokenRows)
    /\ job \in [Workers -> TokenRequests \cup {None}]
    /\ unrevoked \in SUBSET Nat
    /\ faults \in 0 .. MaxFaults

OInit ==
    /\ LimitInit
    /\ clients = {} /\ codes = <<>> /\ access = <<>> /\ refresh = <<>>
    /\ job = [w \in Workers |-> None]
    /\ unrevoked = {} /\ faults = 0

-----------------------------------------------------------------------------
\* register fails for an id that is taken.
Register(c) ==
    /\ c \notin clients
    /\ clients' = clients \cup {c}
    /\ UNCHANGED <<limitvars, codes, access, refresh, job, unrevoked, faults>>

\* decide, when the user allows a registered client.
Decide(c) ==
    /\ c \in clients
    /\ Len(codes) < MaxCodes
    /\ codes' = Append(codes, [client |-> c, expires_at |-> now + CodeTtl,
                               consumed |-> FALSE])
    /\ UNCHANGED <<limitvars, clients, access, refresh, job, unrevoked, faults>>

-----------------------------------------------------------------------------
\* handle_authorization_code.

\* Mutant: the code is not marked.
Mutant_ConsumeAuthCode(k) ==
    /\ ~ codes[k].consumed /\ codes[k].expires_at > now
    /\ UNCHANGED codes

\* Read and marked under one lock.
ConsumeAuthCode(k) ==
    /\ ~ codes[k].consumed /\ codes[k].expires_at > now
    /\ codes' = [codes EXCEPT ![k].consumed = TRUE]

Begin(w, at, c, grant) ==
    job' = [job EXCEPT ![w] = [at |-> at, client |-> c, grant |-> grant]]

\* The code's client, and the redirect URI and the PKCE verifier (rest).
Matches(c, k, rest) == codes[k].client = c /\ rest

\* The code is consumed before the request is compared with it.
ExchangeCode(w, c, k, rest) ==
    /\ job[w] = None
    /\ RateLimitToken(c)
    /\ c \in clients
    /\ ConsumeAuthCode(k)
    /\ IF Matches(c, k, rest)
       THEN Begin(w, "insert_access", c, CodeGrant(k))
       ELSE UNCHANGED job
    /\ UNCHANGED <<now, clients, access, refresh, unrevoked, faults>>

-----------------------------------------------------------------------------
\* handle_refresh_token.

RefreshOK(c, t) ==
    /\ refresh[t].client = c
    /\ ~ refresh[t].revoked
    /\ refresh[t].expires_at > now

GetRefreshToken(w, c, t) ==
    /\ job[w] = None
    /\ RateLimitToken(c)
    /\ c \in clients
    /\ RefreshOK(c, t)
    /\ Begin(w, "revoke", c, RefreshGrant(t))
    /\ UNCHANGED <<now, clients, codes, access, refresh, unrevoked, faults>>

\* Any other request is refused, and counted when it names its client.
InvalidGrant(c) ==
    /\ Check(c)
    /\ UNCHANGED <<now, clients, codes, access, refresh, job, unrevoked, faults>>

At(w, label) == job[w] # None /\ job[w].at = label

\* Mutant: the pair is issued and the presented token stays.
Mutant_RotateRevoke(w) ==
    /\ At(w, "revoke")
    /\ job' = [job EXCEPT ![w].at = "insert_access"]
    /\ UNCHANGED <<limitvars, clients, codes, access, refresh, unrevoked, faults>>

RotateRevoke(w) ==
    /\ At(w, "revoke")
    /\ refresh' = [refresh EXCEPT ![job[w].grant.nr].revoked = TRUE]
    /\ job' = [job EXCEPT ![w].at = "insert_access"]
    /\ UNCHANGED <<limitvars, clients, codes, access, unrevoked, faults>>

\* A failure to revoke is dropped (.ok()) and the pair issued all the same.
RotateRevokeFails(w) ==
    /\ At(w, "revoke")
    /\ faults < MaxFaults /\ faults' = faults + 1
    /\ unrevoked' = unrevoked \cup {job[w].grant.nr}
    /\ job' = [job EXCEPT ![w].at = "insert_access"]
    /\ UNCHANGED <<limitvars, clients, codes, access, refresh>>

-----------------------------------------------------------------------------
\* issue_tokens: two inserts.

Token(w, ttl) ==
    [client |-> job[w].client, expires_at |-> now + ttl, revoked |-> FALSE,
     grant |-> job[w].grant]

InsertAccessJti(w) ==
    /\ At(w, "insert_access") /\ Len(access) < MaxAccess
    /\ access' = Append(access, Token(w, AccessTtl))
    /\ job' = [job EXCEPT ![w].at = "insert_refresh"]
    /\ UNCHANGED <<limitvars, clients, codes, refresh, unrevoked, faults>>

\* Mutant: the refresh token is stored first.
Mutant_InsertRefreshToken(w) ==
    /\ At(w, "insert_access") /\ Len(refresh) < MaxRefresh
    /\ refresh' = Append(refresh, Token(w, RefreshTtl))
    /\ job' = [job EXCEPT ![w] = None]
    /\ UNCHANGED <<limitvars, clients, codes, access, unrevoked, faults>>

InsertRefreshToken(w) ==
    /\ At(w, "insert_refresh") /\ Len(refresh) < MaxRefresh
    /\ refresh' = Append(refresh, Token(w, RefreshTtl))
    /\ job' = [job EXCEPT ![w] = None]
    /\ UNCHANGED <<limitvars, clients, codes, access, unrevoked, faults>>

\* Mutant: a request that fails gives the presented token back.
Mutant_RollsBack(w) ==
    /\ At(w, "insert_access") \/ At(w, "insert_refresh")
    /\ faults < MaxFaults /\ faults' = faults + 1
    /\ refresh' = IF job[w].grant.kind = "refresh"
                  THEN [refresh EXCEPT ![job[w].grant.nr].revoked = FALSE] ELSE refresh
    /\ job' = [job EXCEPT ![w] = None]
    /\ UNCHANGED <<limitvars, clients, codes, access, unrevoked>>

\* An insert fails: the request ends with a server error.
InsertFails(w) ==
    /\ At(w, "insert_access") \/ At(w, "insert_refresh")
    /\ faults < MaxFaults /\ faults' = faults + 1
    /\ job' = [job EXCEPT ![w] = None]
    /\ UNCHANGED <<limitvars, clients, codes, access, refresh, unrevoked>>

\* The process stops and starts again: the store and the signing key are
\* loaded, requests and the limiter's windows are gone. The history of allowed
\* requests starts again with the windows: the limit is one of a process.
Restart ==
    /\ faults < MaxFaults /\ faults' = faults + 1
    /\ job' = [w \in Workers |-> None]
    /\ windows' = [c \in Clients |-> None]
    /\ allowed' = [c \in Clients |-> <<>>]
    /\ UNCHANGED <<now, uncounted, clients, codes, access, refresh, unrevoked>>

\* revoke: a refresh token, or the jti of an access token that still verifies.
RevokeRefresh(t) ==
    /\ refresh' = [refresh EXCEPT ![t].revoked = TRUE]
    /\ UNCHANGED <<limitvars, clients, codes, access, job, unrevoked, faults>>

RevokeAccess(j) ==
    /\ access[j].expires_at > now
    /\ access' = [access EXCEPT ![j].revoked = TRUE]
    /\ UNCHANGED <<limitvars, clients, codes, refresh, job, unrevoked, faults>>

Clock ==
    /\ Tick
    /\ UNCHANGED <<clients, codes, access, refresh, job, unrevoked, faults>>

ONext ==
    \/ \E c \in Clients : Register(c) \/ Decide(c) \/ InvalidGrant(c)
    \/ \E w \in Workers, c \in Clients :
        \/ \E k \in DOMAIN codes, rest \in BOOLEAN : ExchangeCode(w, c, k, rest)
        \/ \E t \in DOMAIN refresh : GetRefreshToken(w, c, t)
    \/ \E w \in Workers :
        \/ RotateRevoke(w) \/ RotateRevokeFails(w)
        \/ InsertAccessJti(w) \/ InsertRefreshToken(w) \/ InsertFails(w)
    \/ Restart
    \/ \E t \in DOMAIN refresh : RevokeRefresh(t)
    \/ \E j \in DOMAIN access : RevokeAccess(j)
    \/ Clock

OSpec == OInit /\ [][ONext]_ovars

-----------------------------------------------------------------------------
\* Grants in the tables: what a token can have been issued for.
Issued == {CodeGrant(k) : k \in DOMAIN codes} \cup {RefreshGrant(t) : t \in DOMAIN refresh}

GrantClient(grant) ==
    IF grant.kind = "code" THEN codes[grant.nr].client ELSE refresh[grant.nr].client

\* The tokens of a grant, and the requests between the two inserts for it.
AccessOf(g) == {j \in DOMAIN access : access[j].grant = g}
RefreshOf(g) == {t \in DOMAIN refresh : refresh[t].grant = g}
HalfIssued(g) == {w \in Workers : At(w, "insert_refresh") /\ job[w].grant = g}

\* The requests that read a refresh token and still owe both tokens.
Rotating(g) ==
    {w \in Workers : (At(w, "revoke") \/ At(w, "insert_access")) /\ job[w].grant = g}

\* An authorization code yields at most one pair, whoever presents it at the
\* same time, and one request at most is working on it.
CodeUsedOnce ==
    \A k \in DOMAIN codes :
        Cardinality(AccessOf(CodeGrant(k)))
        + Cardinality({w \in Workers : At(w, "insert_access") /\ job[w].grant = CodeGrant(k)})
            <= 1

\* A refresh token is read before it is revoked, so requests that present it at the
\* same time all get a pair: at most as many as there are requests at a time, through
\* restarts and failed inserts. Once one has revoked it (and the store took it, see
\* unrevoked) nobody reads it as valid again: used up later, it yields nothing.
RotationBounded ==
    \A t \in DOMAIN refresh \ unrevoked :
        Cardinality(AccessOf(RefreshGrant(t))) + Cardinality(Rotating(RefreshGrant(t)))
            <= Cardinality(Workers)

\* A token's client is the client of the grant it comes from, back to a code
\* that a user allowed; so is the client of a request that is being answered.
ClientKept ==
    /\ \A j \in DOMAIN access :
        access[j].grant \in Issued /\ access[j].client = GrantClient(access[j].grant)
    /\ \A t \in DOMAIN refresh :
        refresh[t].grant \in Issued /\ refresh[t].client = GrantClient(refresh[t].grant)
    /\ \A w \in Workers : job[w] # None =>
        job[w].grant \in Issued /\ job[w].client = GrantClient(job[w].grant)

\* A code that a token or a request comes from is consumed, and it is theirs
\* alone: another request that presents it finds it consumed.
CodeHeld ==
    /\ \A j \in DOMAIN access : access[j].grant.kind = "code" =>
        /\ codes[access[j].grant.nr].consumed
        /\ \A i \in DOMAIN access : access[i].grant = access[j].grant => i = j
        /\ \A w \in Workers : At(w, "insert_access") => job[w].grant # access[j].grant
    /\ \A w \in Workers : job[w] # None /\ job[w].grant.kind = "code" =>
        /\ codes[job[w].grant.nr].consumed
        /\ job[w].at # "revoke"
        /\ \A v \in Workers : job[v] # None /\ job[v].grant = job[w].grant => v = w

\* A rotation that issued anything has revoked the token it was given, through
\* restarts and failed inserts; only a revocation that failed leaves it valid.
Spent(grant) == refresh[grant.nr].revoked \/ grant.nr \in unrevoked

RotatedIsRevoked ==
    \A j \in DOMAIN access : access[j].grant.kind = "refresh" => Spent(access[j].grant)

\* So has one that is past the revocation and about to issue.
RotatesRevoked ==
    \A w \in Workers :
        job[w] # None /\ job[w].grant.kind = "refresh" /\ job[w].at # "revoke"
            => Spent(job[w].grant)

\* A refresh token is never stored without an access token of the same grant,
\* counting the ones about to be stored: a request that fails in between leaves
\* no token its client does not know of but an access token that expires.
NoRefreshWithoutAccess ==
    \A g \in Issued :
        Cardinality(RefreshOf(g)) + Cardinality(HalfIssued(g)) <= Cardinality(AccessOf(g))

\* The invariant of the tables: well typed, every token belongs to the client of
\* its grant, a code belongs to one request and its pair, what was rotated is
\* revoked, no refresh token is stored without an access token, and the limiter's
\* windows are those of the requests it let through.
OInv ==
    /\ OTypeOK
    /\ ClientKept
    /\ CodeHeld
    /\ RotatedIsRevoked
    /\ RotatesRevoked
    /\ NoRefreshWithoutAccess
    /\ WindowsMatch

\* A revocation is never undone, by a rotation that read the token before it or
\* by an insert.
RevocationSticks ==
    [][ /\ \A t \in DOMAIN refresh : refresh[t].revoked => refresh'[t].revoked
        /\ \A j \in DOMAIN access : access[j].revoked => access'[j].revoked
        /\ \A k \in DOMAIN codes : codes[k].consumed => codes'[k].consumed ]_ovars
=============================================================================
