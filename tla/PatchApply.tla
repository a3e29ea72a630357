------------------------------ MODULE PatchApply ------------------------------
(***************************************************************************)
(* What one edit of patch.apply does to one file (patch_apply.rs).         *)
(*                                                                         *)
(* A file is the sequence of its lines: whether the last one ends with a   *)
(* newline is left out.  The old_text of an edit stands for a text that is *)
(* a line of its own.                                                      *)
(***************************************************************************)
EXTENDS Integers, Sequences

CONSTANTS
    Lines,
    NoFile,
    UsizeModulus     \* 2^64

ASSUME PatchAssumption == UsizeModulus \in Nat \ {0} /\ NoFile \notin Seq(Lines)

Contents == {NoFile} \cup Seq(Lines)

\* operation "replace" is given as replace_text or replace_lines by the fields
\* that are set, and as "replace" if neither are.
EditRecord(e) ==
    /\ e.operation \in {"create", "replace_text", "replace_lines", "replace", "delete", "other"}
    /\ e.new_text \in Seq(Lines)
    /\ e.old_text \in Lines
    /\ e.start_line \in Nat /\ e.end_line \in Nat

Reads(e) == e.operation \in {"replace_text", "replace_lines", "replace", "delete"}

\* lines[..s], new_text, lines[e..] with s = start_line.saturating_sub(1)
RangeStart(e) == IF e.start_line = 0 THEN 0 ELSE e.start_line - 1

\* Mutant: the end of the range is not cut off at the end of the file.
Mutant_EndUncut(content, e) == e.end_line

RangeEnd(content, e) ==
    IF e.end_line <= Len(content) THEN e.end_line ELSE Len(content)

FirstLine(content, line) ==
    CHOOSE i \in 1 .. Len(content) :
        content[i] = line /\ \A j \in 1 .. i - 1 : content[j] # line

Spliced(content, from, to, new) ==
    SubSeq(content, 1, from) \o new \o SubSeq(content, to + 1, Len(content))

\* What an edit makes of the content it has read, when it gets that far.
NewContent(content, e) ==
    CASE e.operation = "create"        -> e.new_text
      [] e.operation = "delete"        -> NoFile
      [] e.operation = "replace_lines" ->
             Spliced(content, RangeStart(e), RangeEnd(content, e), e.new_text)
      [] e.operation = "replace_text"  ->
             LET i == FirstLine(content, e.old_text)
             IN  Spliced(content, i - 1, i, e.new_text)

LinesOf(content) == IF content = NoFile THEN 0 ELSE Len(content)

Additions(e) == IF e.operation = "delete" THEN 0 ELSE Len(e.new_text)

\* Negative for a range that ends before it starts.
Deletions(content, e) ==
    CASE e.operation = "delete"        -> Len(content)
      [] e.operation = "replace_lines" -> RangeEnd(content, e) - RangeStart(e)
      [] OTHER                         -> 0

\* total += n for a usize, in a build without overflow checks.
Added(total, n) == (total + n) % UsizeModulus

\* What comes of an edit: an error answered, a panic, or a file to write.  A
\* start past the end slices out of bounds; a negative number of deletions
\* panics in a build with overflow checks.
Outcomes(content, e) ==
    CASE e.operation = "create"                -> {"write"}
      [] e.operation \in {"replace", "other"} -> {"error"}
      [] e.operation = "delete"                ->
             {IF content = NoFile THEN "error" ELSE "write"}
      [] e.operation = "replace_text"          ->
             {IF content # NoFile /\ \E i \in 1 .. Len(content) : content[i] = e.old_text
              THEN "write" ELSE "error"}
      [] e.operation = "replace_lines"         ->
             IF content = NoFile THEN {"error"}
             ELSE IF RangeStart(e) > Len(content) THEN {"panic"}
             ELSE IF RangeEnd(content, e) < RangeStart(e) THEN {"write", "panic"}
             ELSE {"write"}
=============================================================================
