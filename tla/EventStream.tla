----------------------------- MODULE EventStream -----------------------------
(***************************************************************************)
(* What ExecProcessEvent promises a subscriber (exec-server/src/process.rs):*)
(* the events of one process are output, one exit and one close, in some    *)
(* order fixed by the process in which the close comes last, and a          *)
(* subscriber sees them in that order, without a gap and without a repeat.  *)
(* The promise is to a subscriber that was there from the start and keeps   *)
(* up: the log and the channel behind it hold 256 events, one that falls    *)
(* behind is told so (Lagged) and goes back to read.                        *)
(***************************************************************************)
EXTENDS Naturals, Sequences

VARIABLES
    log,    \* the kinds of the events of the process, in its order
    seen    \* how many of them the subscriber has seen

Happened(kind) == \E i \in DOMAIN log : log[i] = kind

StreamInit == log = <<>> /\ seen = 0

Happen(kind) ==
    /\ ~ Happened("closed")
    /\ kind # "output" => ~ Happened(kind)
    /\ kind = "closed" => Happened("exited")
    /\ log' = Append(log, kind)
    /\ UNCHANGED seen

See ==
    /\ seen' \in seen + 1 .. Len(log)
    /\ UNCHANGED log

StreamNext ==
    \/ \E kind \in {"output", "exited", "closed"} : Happen(kind)
    \/ See

StreamSpec == StreamInit /\ [][StreamNext]_<<log, seen>>
=============================================================================
