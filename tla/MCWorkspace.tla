------------------------------ MODULE MCWorkspace ------------------------------
(***************************************************************************)
(* A small instance of Workspace: one client patches, the other patches   *)
(* too or runs tests or a command.                                         *)
(***************************************************************************)
EXTENDS Workspace

CONSTANTS c1, c2, p1, p2, x

MCInitFiles == [p \in Paths |-> IF p = p1 THEN <<"a", "b", "a">> ELSE NoFile]

MCMethods ==
    [c \in Clients |-> IF c = c1 THEN {"patch.apply"}
                       ELSE {"patch.apply", "tests.run", "command.run"}]

Create(p, new)     == [path |-> p, operation |-> "create", new_text |-> new,
                       old_text |-> "a", start_line |-> 0, end_line |-> 0]
Replace(p, old, new) ==
                      [Create(p, new) EXCEPT !.operation = "replace_text", !.old_text = old]
ReplaceLines(p, start, end, new) ==
                      [Create(p, new) EXCEPT !.operation = "replace_lines",
                                             !.start_line = start, !.end_line = end]
Other(p, op)       == [Create(p, <<>>) EXCEPT !.operation = op]

\* Several edits of one file; a range past its end, one that ends before it
\* starts and one that starts past its end; a file created, changed and
\* deleted; and every kind of edit that is refused, after one that is not.
MCPatches ==
    {<<Replace(p1, "a", <<"n", "n">>), ReplaceLines(p1, 2, 9, <<"b">>)>>,
     <<ReplaceLines(p1, 4, 1, <<>>), Replace(p1, "c", <<>>)>>,
     <<Create(p2, <<"a">>), ReplaceLines(p2, 3, 3, <<"b">>)>>,
     <<Create(p2, <<"a", "b">>), ReplaceLines(p2, 0, 1, <<>>), Other(p2, "delete")>>,
     <<Replace(p1, "b", <<>>), Other(p1, "replace")>>,
     <<Other(p1, "delete"), Other(p1, "other")>>,
     <<Create(p2, <<"n">>), Create(x, <<"n">>)>>,
     <<Other(x, "delete")>>}
=============================================================================
