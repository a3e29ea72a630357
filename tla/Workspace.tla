------------------------------- MODULE Workspace -------------------------------
(***************************************************************************)
(* The requests of the daemon that act on the workspace once the approval  *)
(* policy has let them pass: patch.apply, tests.run and command.run, each  *)
(* with the file operations and processes it goes through, several at a    *)
(* time, in a daemon that may be killed.  The bookkeeping on the run, the  *)
(* cleared retryable action included, is in Daemon.                        *)
(***************************************************************************)
EXTENDS PatchApply, FiniteSets, SequencesExt

CONSTANTS
    Clients,
    Paths,
    Outside,      \* the paths that lead out of the workspace
    InitFiles,
    Patches,      \* what may be asked of patch.apply
    Methods,      \* what each client may ask for
    MaxFaults     \* bound on crashes and failing writes

Edits == UNION {Range(patch) : patch \in Patches}

ASSUME WorkspaceAssumption ==
    /\ Outside \subseteq Paths
    /\ InitFiles \in [Paths -> Contents]
    /\ Patches \subseteq Seq(Edits)
    /\ \A e \in Edits : EditRecord(e) /\ e.path \in Paths
    /\ Methods \in [Clients -> SUBSET {"patch.apply", "tests.run", "command.run"}]
    /\ MaxFaults \in Nat

VARIABLES
    files,     \* the contents of the workspace
    handler,   \* one request per client
    child,     \* the process of a request
    audit,     \* the audit trail, <<client, event_kind>>
    faults

wvars == <<files, handler, child, audit, faults>>

HandlerStates ==
    {"idle", "edit", "write", "fill", "tests", "waiting",
     "ok", "denied", "timed_out", "error", "panic", "crashed"}

\* done: edits carried out; next: the content to write; open: truncated files.
NoRequest == [at |-> "idle", edits |-> <<>>, done |-> 0, next |-> NoFile, open |-> {},
              additions |-> 0, deletions |-> 0]

NoChild == [state |-> "none", waiter |-> FALSE, killing |-> FALSE]

Requests ==
    [at : HandlerStates, edits : Patches \cup {<<>>}, done : Nat, next : Contents,
     open : SUBSET Paths, additions : 0 .. UsizeModulus - 1, deletions : 0 .. UsizeModulus - 1]

Processes ==
    [state : {"none", "running", "ended", "reaped"}, waiter : BOOLEAN, killing : BOOLEAN]

WTypeOK ==
    /\ files \in [Paths -> Contents]
    /\ handler \in [Clients -> Requests]
    /\ \A c \in Clients : handler[c].done <= Len(handler[c].edits)
    /\ child \in [Clients -> Processes]
    /\ audit \subseteq Clients \X {"patch_applied", "tests_run",
                                   "run_command_executed", "run_command_denied"}
    /\ faults \in 0 .. MaxFaults

WInit ==
    /\ files = InitFiles
    /\ handler = [c \in Clients |-> NoRequest]
    /\ child = [c \in Clients |-> NoChild]
    /\ audit = {}
    /\ faults = 0

At(c, label) == handler[c].at = label

GoTo(c, label) == handler' = [handler EXCEPT ![c].at = label]

\* append_audit_entry, whose failure is ignored.
Audited(c, event_kind) == audit' \in {audit, audit \cup {<<c, event_kind>>}}

-----------------------------------------------------------------------------
\* patch.apply

\* The run and its workspace directory are known, or nothing is done.
PatchApply(c, patch) ==
    /\ At(c, "idle") /\ "patch.apply" \in Methods[c]
    /\ \E label \in {"edit", "error"} :
           handler' = [handler EXCEPT ![c].at = label, ![c].edits = patch]
    /\ UNCHANGED <<files, child, audit, faults>>

\* The edit a request is at.
Edit(c) == handler[c].edits[handler[c].done + 1]

HasEdit(c) == handler[c].done < Len(handler[c].edits)

\* Mutant: every file is read before the first edit.
Mutant_ReadBefore(c) == InitFiles[Edit(c).path]

ReadFile(c) == files[Edit(c).path]

\* Up to the writing of an edit.  What leads out of the workspace is not read.
ReadEdit(c) ==
    /\ At(c, "edit") /\ HasEdit(c)
    /\ LET e == Edit(c)
           content == ReadFile(c)
       IN  \E outcome \in IF Reads(e) /\ e.path \in Outside THEN {"error"}
                          ELSE Outcomes(content, e) :
               handler' = [handler EXCEPT ![c] =
                   IF outcome # "write" THEN [@ EXCEPT !.at = outcome]
                   ELSE [@ EXCEPT !.at = "write",
                                  !.next = NewContent(content, e),
                                  !.additions = Added(handler[c].additions, Additions(e)),
                                  !.deletions = Added(handler[c].deletions, Deletions(content, e))]]
    /\ UNCHANGED <<files, child, audit, faults>>

\* std::fs::write truncates, then writes; remove_file fails without a file.
WriteEdit(c) ==
    /\ At(c, "write")
    /\ LET p == Edit(c).path
       IN  IF Edit(c).operation = "delete"
           THEN /\ files' = [files EXCEPT ![p] = NoFile]
                /\ handler' = [handler EXCEPT ![c] =
                       IF files[p] = NoFile THEN [@ EXCEPT !.at = "error"]
                       ELSE [@ EXCEPT !.at = "edit", !.done = handler[c].done + 1]]
           ELSE /\ files' = [files EXCEPT ![p] = <<>>]
                /\ handler' = [handler EXCEPT ![c].at = "fill", ![c].open = {p}]
    /\ UNCHANGED <<child, audit, faults>>

\* A file that was removed while it was open stays removed.  A file is created
\* first and its path checked afterwards.
FillFile(c) ==
    /\ At(c, "fill")
    /\ LET p == Edit(c).path
       IN  /\ files' = [files EXCEPT ![p] = IF @ = NoFile THEN NoFile ELSE handler[c].next]
           /\ handler' = [handler EXCEPT ![c] =
                  [@ EXCEPT !.at = IF p \in Outside THEN "error" ELSE "edit",
                            !.open = {}, !.done = handler[c].done + 1]]
    /\ UNCHANGED <<child, audit, faults>>

WriteFails(c) ==
    /\ At(c, "write") \/ At(c, "fill")
    /\ faults < MaxFaults
    /\ faults' = faults + 1
    /\ GoTo(c, "error")
    /\ UNCHANGED <<files, child, audit>>

Applied(c) ==
    /\ At(c, "edit") /\ ~ HasEdit(c)
    /\ Audited(c, "patch_applied")
    /\ GoTo(c, "ok")
    /\ UNCHANGED <<files, child, faults>>

-----------------------------------------------------------------------------
\* tests.run waits for the command in the handler, however long it takes.

TestsRun(c) ==
    /\ At(c, "idle") /\ "tests.run" \in Methods[c]
    /\ \/ GoTo(c, "error") /\ UNCHANGED child
       \/ GoTo(c, "tests") /\ child' = [child EXCEPT ![c].state = "running"]
    /\ UNCHANGED <<files, audit, faults>>

\* A long output that has no character boundary where it is cut panics.
TestsEnd(c) ==
    /\ At(c, "tests") /\ child[c].state = "ended"
    /\ child' = [child EXCEPT ![c].state = "reaped"]
    /\ \/ Audited(c, "tests_run") /\ GoTo(c, "ok")
       \/ GoTo(c, "panic") /\ UNCHANGED audit
    /\ UNCHANGED <<files, faults>>

-----------------------------------------------------------------------------
\* command.run waits in a thread of its own, and for a limited time.

\* Denied by the whitelist; an unknown run or a command that cannot be started;
\* or started.
CommandRun(c) ==
    /\ At(c, "idle") /\ "command.run" \in Methods[c]
    /\ \/ GoTo(c, "denied") /\ Audited(c, "run_command_denied") /\ UNCHANGED child
       \/ GoTo(c, "error") /\ UNCHANGED <<child, audit>>
       \/ /\ GoTo(c, "waiting")
          /\ child' = [child EXCEPT ![c].state = "running", ![c].waiter = TRUE]
          /\ UNCHANGED audit
    /\ UNCHANGED <<files, faults>>

ChildEnds(c) ==
    /\ child[c].state = "running"
    /\ child' = [child EXCEPT ![c].state = "ended"]
    /\ UNCHANGED <<files, handler, audit, faults>>

\* wait_with_output returns, whether or not somebody still wants to know.
WaiterReaps(c) ==
    /\ child[c].waiter /\ child[c].state = "ended"
    /\ child' = [child EXCEPT ![c].state = "reaped", ![c].waiter = FALSE]
    /\ UNCHANGED <<files, handler, audit, faults>>

Received(c) ==
    /\ At(c, "waiting") /\ child[c].state = "reaped"
    /\ Audited(c, "run_command_executed")
    /\ GoTo(c, "ok")
    /\ UNCHANGED <<files, child, faults>>

\* Mutant: the time is checked when the command ends.
Mutant_ChecksAtEnd(c) ==
    /\ At(c, "waiting") /\ child[c].state = "ended"
    /\ Audited(c, "run_command_executed")
    /\ GoTo(c, "timed_out")
    /\ child' = [child EXCEPT ![c].killing = TRUE]
    /\ UNCHANGED <<files, faults>>

\* kill is started, and not waited for.
TimesOut(c) ==
    /\ At(c, "waiting") /\ child[c].state # "reaped"
    /\ Audited(c, "run_command_executed")
    /\ GoTo(c, "timed_out")
    /\ child' = [child EXCEPT ![c].killing = TRUE]
    /\ UNCHANGED <<files, faults>>

\* The signal comes late, or is ignored.
KillArrives(c) ==
    /\ child[c].killing
    /\ \E state \in IF child[c].state = "running" THEN {"running", "ended"}
                    ELSE {child[c].state} :
           child' = [child EXCEPT ![c].killing = FALSE, ![c].state = state]
    /\ UNCHANGED <<files, handler, audit, faults>>

-----------------------------------------------------------------------------
Active(c) == handler[c].at \in {"edit", "write", "fill", "tests", "waiting"}

\* The daemon is killed and started again.  Its children live on.
Crash ==
    /\ faults < MaxFaults
    /\ faults' = faults + 1
    /\ handler' = [c \in Clients |->
           IF Active(c) THEN [handler[c] EXCEPT !.at = "crashed"] ELSE handler[c]]
    /\ child' = [c \in Clients |-> [child[c] EXCEPT !.waiter = FALSE]]
    /\ UNCHANGED <<files, audit>>

PatchStep(c) == ReadEdit(c) \/ WriteEdit(c) \/ FillFile(c) \/ Applied(c)

CommandStep(c) == TestsEnd(c) \/ Received(c) \/ TimesOut(c)

WNext ==
    \/ \E c \in Clients :
           \/ \E patch \in Patches : PatchApply(c, patch)
           \/ PatchStep(c) \/ WriteFails(c)
           \/ TestsRun(c) \/ CommandRun(c) \/ CommandStep(c)
           \/ ChildEnds(c) \/ WaiterReaps(c) \/ KillArrives(c)
    \/ Crash

(***************************************************************************)
(* Handlers and waiting threads run, and the clock does.  A command need   *)
(* not end.                                                                *)
(***************************************************************************)
WFairness ==
    \A c \in Clients :
        /\ WF_wvars(PatchStep(c)) /\ WF_wvars(CommandStep(c)) /\ WF_wvars(WaiterReaps(c))

WSpec == WInit /\ [][WNext]_wvars /\ WFairness

-----------------------------------------------------------------------------
PathsOf(c) == {handler[c].edits[i].path : i \in DOMAIN handler[c].edits}

\* No other request has touched the files of this one.
Undisturbed(c) ==
    \A d \in Clients \ {c} : PathsOf(c) \cap PathsOf(d) = {}

\* What a number of edits make of the workspace, one after the other and all at
\* once, and the lines they add less the lines they delete.
Effects(edits) ==
    LET after[n \in 0 .. Len(edits)] ==
            IF n = 0 THEN [files |-> InitFiles, net |-> 0]
            ELSE LET e == edits[n]
                     content == after[n - 1].files[e.path]
                 IN  [files |-> [after[n - 1].files EXCEPT ![e.path] = NewContent(content, e)],
                      net   |-> after[n - 1].net + Additions(e) - Deletions(content, e)]
    IN  after

After(c, n) == Effects(handler[c].edits)[n]

\* However a request ends - done, refused or panicking in the middle, a write
\* failing, the daemon killed - its files are what its edits so far make of them
\* in their order, but for the one file it was writing.
PrefixApplied ==
    \A c \in Clients : Undisturbed(c) =>
        \A p \in PathsOf(c) \ handler[c].open : files[p] = After(c, handler[c].done).files[p]

\* The audit trail calls a patch applied only when all of its edits were.
AuditedIsApplied ==
    \A c \in Clients :
        <<c, "patch_applied">> \in audit =>
            handler[c].at = "ok" /\ handler[c].done = Len(handler[c].edits)

\* A file that no request names is as it was.
Untouched ==
    \A p \in Paths : (\A c \in Clients : p \notin PathsOf(c)) => files[p] = InitFiles[p]

\* What a request holds between reading a file and having written it: the content
\* that its edit makes of what the edits before left.
InHand ==
    \A c \in Clients :
        /\ At(c, "idle") => handler[c] = NoRequest
        /\ handler[c].at \notin {"fill", "error", "panic", "crashed"} => handler[c].open = {}
        /\ At(c, "fill") => handler[c].open = {Edit(c).path} /\ Edit(c).operation # "delete"
        /\ At(c, "write") \/ At(c, "fill") =>
               /\ HasEdit(c)
               /\ Edit(c).operation # "delete" => handler[c].next \in Seq(Lines)
               /\ Undisturbed(c) =>
                      LET p == Edit(c).path
                          content == After(c, handler[c].done).files[p]
                      IN  /\ "write" \in Outcomes(content, Edit(c))
                          /\ handler[c].next = NewContent(content, Edit(c))
                          /\ At(c, "fill") => files[p] = <<>>

LineCount(fs, ps) == FoldSet(LAMBDA p, n : n + LinesOf(fs[p]), 0, ps)

Growth(c, n) == LineCount(After(c, n).files, PathsOf(c)) - LineCount(InitFiles, PathsOf(c))

\* The statistics are the sum over the edits so far, as far as a usize can tell,
\* and that sum bounds what the edits add to the workspace.
StatsKept ==
    \A c \in Clients : Undisturbed(c) =>
        /\ After(c, handler[c].done) \in [files : [Paths -> Contents], net : Int]
        /\ Growth(c, handler[c].done) <= After(c, handler[c].done).net
        /\ handler[c].at \notin {"error", "panic", "crashed"} =>
               LET n == IF At(c, "write") \/ At(c, "fill") THEN handler[c].done + 1
                        ELSE handler[c].done
               IN  (handler[c].additions - handler[c].deletions - After(c, n).net)
                       % UsizeModulus = 0

\* The invariant of patch.apply: well typed, the files hold a prefix of the edits,
\* the audit trail claims no more, and what an edit in progress holds is still
\* what the files call for.
WInv ==
    /\ WTypeOK /\ Untouched /\ PrefixApplied /\ InHand
    /\ StatsKept /\ AuditedIsApplied

\* A number of lines as the difference of two that may have wrapped.
Signed(n) ==
    LET m == n % UsizeModulus IN IF m < UsizeModulus \div 2 THEN m ELSE m - UsizeModulus

\* diff_stats never promise fewer lines than there are: the workspace grows by at
\* most the additions less the deletions, also for a range past the end of the
\* file, and for one that ends before it starts, as long as a signed number of that
\* width can hold the difference.
StatsBoundGrowth ==
    \A c \in Clients :
        /\ handler[c].at = "ok" /\ Undisturbed(c)
        /\ After(c, handler[c].done).net \in - (UsizeModulus \div 2) .. (UsizeModulus \div 2) - 1
        => LineCount(files, PathsOf(c)) - LineCount(InitFiles, PathsOf(c))
               <= Signed(handler[c].additions - handler[c].deletions)

\* command.run answers, though the command may never end.
CommandAnswers == \A c \in Clients : At(c, "waiting") ~> ~ At(c, "waiting")
=============================================================================
