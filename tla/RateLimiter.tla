------------------------------ MODULE RateLimiter ------------------------------
(***************************************************************************)
(* The rate limiter of the token endpoint                                  *)
(* (native-harness-mcp-auth/src/ratelimit.rs): a window per client that     *)
(* starts with a request and counts those that follow within window_secs.   *)
(***************************************************************************)
EXTENDS Integers, Sequences, FiniteSetsExt

CONSTANTS
    Clients,
    max_per_window,
    window_secs,     \* in ticks of the model's clock
    MaxTime,         \* bound on the clock
    MaxRequests,     \* bounds on the requests that pass, counted and uncounted
    MaxUncounted,
    None

ASSUME RateAssumption ==
    /\ max_per_window \in Nat \ {0}
    /\ window_secs \in Nat
    /\ MaxTime \in Nat /\ MaxRequests \in Nat /\ MaxUncounted \in Nat
    /\ None \notin [start : Nat, count : Nat]

VARIABLES
    now,        \* the clock
    windows,    \* (window_start, count) of every client seen
    allowed,    \* history: when requests of whom were let through
    uncounted   \* how many passed without naming their client

limitvars == <<now, windows, allowed, uncounted>>

LimitTypeOK ==
    /\ now \in 0 .. MaxTime
    /\ windows \in [Clients -> [start : 0 .. now, count : 1 .. max_per_window] \cup {None}]
    /\ allowed \in [Clients -> Seq(0 .. MaxTime)]
    /\ uncounted \in 0 .. MaxUncounted

LimitInit ==
    /\ now = 0
    /\ windows = [c \in Clients |-> None]
    /\ allowed = [c \in Clients |-> <<>>]
    /\ uncounted = 0

\* or_insert_with(|| (now, 0))
Entry(c) == IF windows[c] = None THEN [start |-> now, count |-> 0] ELSE windows[c]

\* Mutant: the count is incremented in a copy of the entry.
Mutant_CountsCopy(c) == Entry(c)

AllowedWindow(c) ==
    IF now - Entry(c).start > window_secs
    THEN [start |-> now, count |-> 1]
    ELSE [Entry(c) EXCEPT !.count = @ + 1]

\* check, when it returns true.
Check(c) ==
    /\ MapThenSumSet(LAMBDA d : Len(allowed[d]), Clients) < MaxRequests
    /\ \/ now - Entry(c).start > window_secs
       \/ Entry(c).count < max_per_window
    /\ windows' = [windows EXCEPT ![c] = AllowedWindow(c)]
    /\ allowed' = [allowed EXCEPT ![c] = Append(@, now)]
    /\ UNCHANGED uncounted

\* rate_limit_token: a form without a field of that very name, or one whose value
\* does not decode, names no client and passes uncounted. (So would every request
\* after a panic under the lock; nothing between lock and unlock panics.)
Uncounted ==
    /\ uncounted < MaxUncounted /\ uncounted' = uncounted + 1
    /\ UNCHANGED <<windows, allowed>>

RateLimitToken(c) == Check(c) \/ Uncounted

Tick ==
    /\ now < MaxTime
    /\ now' = now + 1
    /\ UNCHANGED <<windows, allowed, uncounted>>

\* The first request of the window a client is in.
First(c) == Len(allowed[c]) + 1 - windows[c].count

\* The window counts the last requests let through and starts with the first of
\* them; the max_per_window-th request before that one, and all earlier ones, are
\* older by more than a window.
WindowsMatch ==
    \A c \in Clients :
        /\ \A i, j \in DOMAIN allowed[c] : i <= j => allowed[c][i] <= allowed[c][j]
        /\ \A i \in DOMAIN allowed[c] : allowed[c][i] <= now
        /\ windows[c] = None => allowed[c] = <<>>
        /\ windows[c] # None =>
            /\ First(c) \in DOMAIN allowed[c]
            /\ allowed[c][First(c)] = windows[c].start
            /\ \A i \in DOMAIN allowed[c] :
                   i + max_per_window <= First(c) => windows[c].start - allowed[c][i] > window_secs

\* Windows start with a request and do not slide: the first request of a window may
\* come alone and the others just before its end, the next window follow at once. So
\* a client may pass 2 * max_per_window - 1 requests within window_secs, not just
\* max_per_window, and never one more.
UnderTwiceTheLimit ==
    \A c \in Clients : \A i, j \in DOMAIN allowed[c] :
        j = i + 2 * max_per_window - 1 => allowed[c][j] - allowed[c][i] > window_secs
=============================================================================
