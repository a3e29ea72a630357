---------------------------- MODULE WorkspaceProofs ----------------------------
(***************************************************************************)
(* Proofs about Workspace.                                                 *)
(***************************************************************************)
EXTENDS Workspace, TLAPS, FiniteSetTheorems, SequenceTheorems, WellFoundedInduction

-----------------------------------------------------------------------------
(* Natural numbers and remainders.                                          *)

LEMMA Least ==
    ASSUME NEW S \in SUBSET Nat, S # {}
    PROVE  \E x \in S : \A y \in S : x <= y
<1>1. PICK x \in S : \A y \in S : ~ (<<y, x>> \in OpToRel(<, Nat))
  BY NatLessThanWellFounded, WFMin
<1>2. \A y \in S : ~ (y < x)
  BY <1>1 DEF OpToRel
<1> QED
  BY <1>2

LEMMA Remainder ==
    ASSUME NEW a \in Int, NEW m \in Nat \ {0}
    PROVE  /\ a % m \in 0 .. m - 1
           /\ \E q \in Int : a = q * m + (a % m)
<1>1. a % m \in 0 .. m - 1
  OBVIOUS
<1>2. a \div m \in Int /\ a = (a \div m) * m + (a % m)
  BY Z3
<1> QED
  BY <1>1, <1>2

LEMMA Congruent ==
    ASSUME NEW m \in Nat \ {0}, NEW q \in Int, NEW r \in 0 .. m - 1
    PROVE  (q * m + r) % m = r
  BY Z3

LEMMA Multiple ==
    ASSUME NEW a \in Int, NEW m \in Nat \ {0}
    PROVE  a % m = 0 <=> \E q \in Int : a = q * m
<1>1. ASSUME a % m = 0 PROVE \E q \in Int : a = q * m
  BY <1>1, Remainder
<1>2. ASSUME NEW q \in Int, a = q * m PROVE a % m = 0
  <2>1. 0 \in 0 .. m - 1 /\ q * m \in Int
    OBVIOUS
  <2>2. (q * m + 0) % m = 0
    BY <2>1, Congruent
  <2> QED
    BY <1>2, <2>1, <2>2
<1> QED
  BY <1>1, <1>2

\* Additions a and deletions d, against their sum net.
Balance(a, d, net) == (a - d - net) % UsizeModulus = 0

\* Statistics that are added up with overflow stay congruent to their sum.
LEMMA AddedCongruent ==
    ASSUME NEW a \in Int, NEW d \in Int, NEW net \in Int, NEW x \in Int, NEW y \in Int,
           Balance(a, d, net)
    PROVE  Balance(Added(a, x), Added(d, y), net + x - y)
<1> USE PatchAssumption
<1> DEFINE m == UsizeModulus
<1>1. PICK q \in Int : a - d - net = q * m
  BY Multiple, a - d - net \in Int DEF Balance
<1>2. PICK r \in Int : a + x = r * m + Added(a, x)
  BY Remainder, a + x \in Int DEF Added
<1>3. PICK s \in Int : d + y = s * m + Added(d, y)
  BY Remainder, d + y \in Int DEF Added
<1>4. Added(a, x) \in Int /\ Added(d, y) \in Int
  BY Remainder, a + x \in Int, d + y \in Int DEF Added
<1>5. PICK u \in Int, v \in Int, w \in Int : u = q * m /\ v = r * m /\ w = s * m
  OBVIOUS
<1>6. Added(a, x) - Added(d, y) - (net + x - y) = u - v + w
  BY <1>1, <1>2, <1>3, <1>4, <1>5
<1>7. u - v + w = (q - r + s) * m
  BY <1>5
<1>8. PICK j \in Int, k \in Int :
           j = q - r + s /\ k = Added(a, x) - Added(d, y) - (net + x - y)
  BY <1>4
<1>9. k = j * m
  BY <1>6, <1>7, <1>8
<1>10. k % m = 0
  BY <1>9, Multiple
<1> QED
  BY <1>8, <1>10 DEF Balance

LEMMA SignedIs ==
    ASSUME NEW k \in Int, NEW net \in - (UsizeModulus \div 2) .. (UsizeModulus \div 2) - 1,
           UsizeModulus \in Nat \ {0}, (k - net) % UsizeModulus = 0
    PROVE  Signed(k) = net
<1> DEFINE m == UsizeModulus
<1>1. PICK h \in Int : h = m \div 2 /\ 2 * h <= m
  BY m \div 2 \in Int /\ 2 * (m \div 2) <= m
<1>2. net \in Int /\ - h <= net /\ net < h
  BY <1>1
<1>3. PICK q \in Int : k - net = q * m
  BY <1>2, Multiple, k - net \in Int
<1>4. CASE net >= 0
  <2>1. net \in 0 .. m - 1 /\ k = q * m + net
    BY <1>1, <1>2, <1>3, <1>4
  <2>2. k % m = net
    BY <2>1, Congruent
  <2> QED
    BY <2>2, <1>1, <1>2 DEF Signed
<1>5. CASE net < 0
  <2> PICK r \in Int, j \in Int : r = net + m /\ j = q - 1
    BY <1>2
  <2>1. r \in 0 .. m - 1 /\ k = j * m + r
    BY <1>1, <1>2, <1>3, <1>5
  <2>2. (j * m + r) % m = r
    BY <2>1, Congruent
  <2>3. ~ (net + m < h)
    BY <1>1, <1>2
  <2> QED
    BY <2>1, <2>2, <2>3, <1>1, <1>2 DEF Signed
<1> QED
  BY <1>2, <1>4, <1>5

-----------------------------------------------------------------------------
(* What an edit makes of a file.                                            *)

LEMMA LinesOfType ==
    ASSUME NEW content \in Contents
    PROVE  LinesOf(content) \in Nat
  BY DEF Contents, LinesOf

LEMMA SplicedProperties ==
    ASSUME NEW content \in Seq(Lines), NEW new \in Seq(Lines),
           NEW from \in 0 .. Len(content), NEW to \in 0 .. Len(content)
    PROVE  /\ Spliced(content, from, to, new) \in Seq(Lines)
           /\ Len(Spliced(content, from, to, new)) = from + Len(new) + Len(content) - to
<1>1. PICK head \in Seq(Lines) : head = SubSeq(content, 1, from) /\ Len(head) = from
  <2>1. SubSeq(content, 1, from) \in Seq(Lines) /\ Len(SubSeq(content, 1, from)) = from
    BY SubSeqProperties
  <2> QED
    BY <2>1
<1>2. PICK tail \in Seq(Lines) :
          tail = SubSeq(content, to + 1, Len(content)) /\ Len(tail) = Len(content) - to
  <2>1. SubSeq(content, to + 1, Len(content)) \in Seq(Lines)
    BY SubSeqProperties
  <2>2. Len(SubSeq(content, to + 1, Len(content))) = Len(content) - to
    BY SubSeqProperties
  <2> QED
    BY <2>1, <2>2
<1>3. PICK front \in Seq(Lines) : front = head \o new /\ Len(front) = from + Len(new)
  <2>1. head \o new \in Seq(Lines)
    BY ConcatProperties
  <2>2. Len(head \o new) = Len(head) + Len(new)
    BY ConcatProperties
  <2> QED
    BY <1>1, <2>1, <2>2
<1>4. front \o tail \in Seq(Lines)
  BY ConcatProperties
<1>5. Len(front \o tail) = Len(front) + Len(tail)
  BY ConcatProperties
<1>6. Len(front \o tail) = from + Len(new) + Len(content) - to
  BY <1>2, <1>3, <1>5
<1> QED
  BY <1>1, <1>2, <1>3, <1>4, <1>6 DEF Spliced

LEMMA FirstLineType ==
    ASSUME NEW content \in Seq(Lines), NEW line, NEW i \in 1 .. Len(content), content[i] = line
    PROVE  FirstLine(content, line) \in 1 .. Len(content)
<1>1. PICK S : S = {j \in 1 .. Len(content) : content[j] = line}
  OBVIOUS
<1>2. S \in SUBSET Nat /\ i \in S
  BY <1>1
<1>3. PICK k \in S : \A j \in S : k <= j
  BY <1>2, Least
<1>4. /\ k \in 1 .. Len(content) /\ content[k] = line
      /\ \A j \in 1 .. k - 1 : content[j] # line
  BY <1>1, <1>3
<1> QED
  BY <1>4 DEF FirstLine

LEMMA EditProperties ==
    ASSUME NEW content \in Contents, NEW e, EditRecord(e),
           "write" \in Outcomes(content, e)
    PROVE  /\ NewContent(content, e) \in Contents
           /\ e.operation # "delete" => NewContent(content, e) \in Seq(Lines)
           /\ Additions(e) \in Nat /\ Deletions(content, e) \in Int
           /\ LinesOf(NewContent(content, e))
                  <= LinesOf(content) + Additions(e) - Deletions(content, e)
<1> USE PatchAssumption
<1>1. CASE e.operation = "create"
  <2>1. NewContent(content, e) = e.new_text /\ Deletions(content, e) = 0
    BY <1>1 DEF NewContent, Deletions
  <2>2. LinesOf(content) \in Nat /\ e.new_text \in Seq(Lines)
    BY LinesOfType DEF EditRecord
  <2>3. Additions(e) = Len(e.new_text) /\ LinesOf(e.new_text) = Len(e.new_text)
    BY <1>1, <2>2 DEF Additions, LinesOf
  <2>4. e.new_text \in Contents /\ Len(e.new_text) \in Nat
    BY <2>2 DEF Contents
  <2> QED
    BY <2>1, <2>2, <2>3, <2>4
<1>2. CASE e.operation = "delete"
  <2>1. content \in Seq(Lines) /\ content # NoFile
    BY <1>2 DEF Outcomes, Contents
  <2>2. /\ NewContent(content, e) = NoFile /\ Deletions(content, e) = Len(content)
        /\ Additions(e) = 0
    BY <1>2 DEF NewContent, Deletions, Additions
  <2>3. LinesOf(content) = Len(content) /\ LinesOf(NoFile) = 0 /\ Len(content) \in Nat
    BY <2>1 DEF LinesOf
  <2>4. NoFile \in Contents
    BY DEF Contents
  <2> QED
    BY <1>2, <2>2, <2>3, <2>4
<1>3. CASE e.operation = "replace_lines"
  <2>1. content \in Seq(Lines) /\ content # NoFile /\ ~ (RangeStart(e) > Len(content))
    BY <1>3 DEF Outcomes, Contents
  <2>2. /\ RangeStart(e) \in 0 .. Len(content)
        /\ RangeEnd(content, e) \in 0 .. Len(content)
    BY <2>1 DEF RangeStart, RangeEnd, EditRecord
  <2>3. e.new_text \in Seq(Lines)
    BY DEF EditRecord
  <2> PICK new : new = Spliced(content, RangeStart(e), RangeEnd(content, e), e.new_text)
    OBVIOUS
  <2>4. /\ new \in Seq(Lines)
        /\ Len(new) = RangeStart(e) + Len(e.new_text) + Len(content) - RangeEnd(content, e)
    BY <2>1, <2>2, <2>3, SplicedProperties
  <2>5. /\ NewContent(content, e) = new
        /\ Deletions(content, e) = RangeEnd(content, e) - RangeStart(e)
        /\ Additions(e) = Len(e.new_text)
    BY <1>3 DEF NewContent, Deletions, Additions
  <2>6. LinesOf(content) = Len(content) /\ LinesOf(new) = Len(new) /\ new \in Contents
    BY <2>1, <2>4 DEF LinesOf, Contents
  <2>7. Len(e.new_text) \in Nat /\ Len(content) \in Nat
    BY <2>1, <2>3
  <2> QED
    BY <2>2, <2>4, <2>5, <2>6, <2>7
<1>4. CASE e.operation = "replace_text"
  <2>1. /\ content \in Seq(Lines) /\ content # NoFile
        /\ \E i \in 1 .. Len(content) : content[i] = e.old_text
    BY <1>4 DEF Outcomes, Contents
  <2> PICK i : i = FirstLine(content, e.old_text)
    OBVIOUS
  <2>2. i \in 1 .. Len(content)
    BY <2>1, FirstLineType
  <2>3. e.new_text \in Seq(Lines)
    BY DEF EditRecord
  <2> PICK new : new = Spliced(content, i - 1, i, e.new_text)
    OBVIOUS
  <2>4. /\ new \in Seq(Lines)
        /\ Len(new) = i - 1 + Len(e.new_text) + Len(content) - i
    <3>1. i - 1 \in 0 .. Len(content) /\ i \in 0 .. Len(content)
      BY <2>2
    <3> QED
      BY <2>1, <2>3, <3>1, SplicedProperties
  <2>5. /\ NewContent(content, e) = new /\ Deletions(content, e) = 0
        /\ Additions(e) = Len(e.new_text)
    BY <1>4 DEF NewContent, Deletions, Additions
  <2>6. LinesOf(content) = Len(content) /\ LinesOf(new) = Len(new) /\ new \in Contents
    BY <2>1, <2>4 DEF LinesOf, Contents
  <2>7. Len(e.new_text) \in Nat /\ Len(content) \in Nat
    BY <2>1, <2>3
  <2>8. Len(new) <= Len(content) + Len(e.new_text) - 0
    BY <2>2, <2>4, <2>7
  <2> QED
    BY <2>4, <2>5, <2>6, <2>7, <2>8
<1>5. CASE e.operation \in {"replace", "other"}
  BY <1>5 DEF Outcomes
<1> QED
  BY <1>1, <1>2, <1>3, <1>4, <1>5 DEF EditRecord

-----------------------------------------------------------------------------
(* What a sequence of edits makes of the workspace.                         *)

\* The workspace after edit n, from what g says of the edits before.
Stage(edits, g, n) ==
    IF n = 0 THEN [files |-> InitFiles, net |-> 0]
    ELSE LET e == edits[n]
             content == g[n - 1].files[e.path]
         IN  [files |-> [g[n - 1].files EXCEPT ![e.path] = NewContent(content, e)],
              net   |-> g[n - 1].net + Additions(e) - Deletions(content, e)]

Staged(edits, g, m) ==
    /\ g = [n \in 0 .. Len(edits) |-> g[n]]
    /\ \A n \in 0 .. m : g[n] = Stage(edits, g, n)

\* The recursion that defines Effects has a solution: one stage more at a time.
LEMMA StagesExist ==
    ASSUME NEW edits, Len(edits) \in Nat
    PROVE  \E g : Staged(edits, g, Len(edits))
<1>n. PICK N \in Nat : N = Len(edits)
  OBVIOUS
<1> PICK Short : Short = {m \in 0 .. N : ~ \E g : Staged(edits, g, m)}
  OBVIOUS
<1>1. SUFFICES ASSUME Short # {} PROVE FALSE
  BY <1>n
<1>2. PICK m \in Short : \A k \in Short : m <= k
  <2>1. Short \in SUBSET Nat
    OBVIOUS
  <2> QED
    BY <1>1, <2>1, Least
<1>3. m \in 0 .. N /\ ~ \E g : Staged(edits, g, m)
  BY <1>2
<1>4. m # 0
  <2> DEFINE g == [n \in 0 .. N |-> Stage(edits, <<>>, n)]
  <2>1. g[0] = Stage(edits, g, 0)
    BY DEF Stage
  <2>2. Staged(edits, g, 0)
    BY <1>n, <2>1 DEF Staged
  <2> QED
    BY <1>3, <2>2
<1>5. PICK g : Staged(edits, g, m - 1)
  <2>1. m - 1 \in 0 .. N /\ m - 1 \notin Short
    BY <1>2, <1>3, <1>4
  <2> QED
    BY <2>1
<1>6. PICK h : h = [n \in 0 .. N |-> Stage(edits, g, n)]
  OBVIOUS
<1>7. ASSUME NEW n \in 0 .. m PROVE h[n] = Stage(edits, h, n)
  <2>1. h[n] = Stage(edits, g, n)
    BY <1>3, <1>6
  <2>2. CASE n = 0
    BY <2>1, <2>2 DEF Stage
  <2>3. CASE n # 0
    <3>1. n - 1 \in 0 .. m - 1 /\ n - 1 \in 0 .. N
      BY <1>3, <2>3
    <3>2. h[n - 1] = g[n - 1]
      BY <1>5, <1>6, <3>1 DEF Staged
    <3> QED
      BY <2>1, <3>2 DEF Stage
  <2> QED
    BY <2>2, <2>3
<1>8. Staged(edits, h, m)
  BY <1>n, <1>6, <1>7 DEF Staged
<1> QED
  BY <1>3, <1>8

LEMMA EffectsStaged ==
    ASSUME NEW edits, Len(edits) \in Nat
    PROVE  Staged(edits, Effects(edits), Len(edits))
<1>1. PICK g : Staged(edits, g, Len(edits))
  BY StagesExist
<1>2. g = [n \in 0 .. Len(edits) |-> Stage(edits, g, n)]
  BY <1>1 DEF Staged
<1> QED
  BY <1>2 DEF Effects, Stage, Staged

-----------------------------------------------------------------------------
(* Counting the lines of a set of files.                                    *)

CountStage(fs, g, s) ==
    IF s = {} THEN 0
    ELSE LET p == CHOOSE x \in s : TRUE IN g[s \ {p}] + LinesOf(fs[p])

Counted(fs, g, S) == g = [s \in SUBSET S |-> CountStage(fs, g, s)]

LEMMA SmallerSet ==
    ASSUME NEW S, IsFiniteSet(S), NEW s \in SUBSET S, s # {},
           NEW p, p = CHOOSE x \in s : TRUE
    PROVE  /\ p \in s /\ s \ {p} \in SUBSET S
           /\ Cardinality(s) \in Nat /\ Cardinality(s \ {p}) = Cardinality(s) - 1
<1>1. p \in s /\ s \ {p} \in SUBSET S
  OBVIOUS
<1>2. IsFiniteSet(s)
  BY FS_Subset
<1> QED
  BY <1>1, <1>2, FS_RemoveElement, FS_CardinalityType

\* The fold that defines LineCount has a solution: one file more at a time.
LEMMA CountExists ==
    ASSUME NEW fs, NEW S, IsFiniteSet(S)
    PROVE  \E g : Counted(fs, g, S)
<1> DEFINE Upto(g, m) ==
        /\ g = [s \in SUBSET S |-> g[s]]
        /\ \A s \in SUBSET S : Cardinality(s) <= m => g[s] = CountStage(fs, g, s)
<1> HIDE DEF Upto
<1> PICK Short : Short = {m \in Nat : ~ \E g : Upto(g, m)}
  OBVIOUS
<1>1. Short = {}
  <2>1. SUFFICES ASSUME Short # {} PROVE FALSE
    OBVIOUS
  <2>2. PICK m \in Short : \A k \in Short : m <= k
    <3>1. Short \in SUBSET Nat
      OBVIOUS
    <3> QED
      BY <2>1, <3>1, Least
  <2>3. m \in Nat /\ ~ \E g : Upto(g, m)
    BY <2>2
  <2>4. m # 0
    <3> PICK g : g = [s \in SUBSET S |-> CountStage(fs, <<>>, s)]
      OBVIOUS
    <3>1. ASSUME NEW s \in SUBSET S, Cardinality(s) <= 0 PROVE g[s] = CountStage(fs, g, s)
      <4>1. s = {}
        BY <3>1, SmallerSet, FS_Subset, FS_CardinalityType, FS_EmptySet
      <4> QED
        BY <4>1 DEF CountStage
    <3>2. g = [s \in SUBSET S |-> g[s]]
      OBVIOUS
    <3>3. Upto(g, 0)
      BY <3>1, <3>2 DEF Upto
    <3> QED
      BY <2>3, <3>3
  <2>5. PICK g : Upto(g, m - 1)
    <3>1. m - 1 \in Nat /\ m - 1 \notin Short
      BY <2>2, <2>3, <2>4
    <3> QED
      BY <3>1
  <2>6. PICK h : h = [s \in SUBSET S |-> CountStage(fs, g, s)]
    OBVIOUS
  <2>7. ASSUME NEW s \in SUBSET S, Cardinality(s) <= m PROVE h[s] = CountStage(fs, h, s)
    <3>1. h[s] = CountStage(fs, g, s)
      BY <2>6
    <3>2. CASE s = {}
      BY <3>1, <3>2 DEF CountStage
    <3>3. CASE s # {}
      <4> PICK p : p = CHOOSE x \in s : TRUE
        OBVIOUS
      <4>1. s \ {p} \in SUBSET S /\ Cardinality(s \ {p}) <= m - 1
        <5>1. /\ s \ {p} \in SUBSET S
              /\ Cardinality(s) \in Nat /\ Cardinality(s \ {p}) = Cardinality(s) - 1
          BY <3>3, SmallerSet
        <5> QED
          BY <2>3, <2>7, <5>1
      <4>2. h[s \ {p}] = g[s \ {p}]
        BY <2>5, <2>6, <4>1 DEF Upto
      <4> QED
        BY <3>1, <4>2 DEF CountStage
    <3> QED
      BY <3>2, <3>3
  <2>8. h = [s \in SUBSET S |-> h[s]]
    BY <2>6
  <2>9. Upto(h, m)
    BY <2>7, <2>8 DEF Upto
  <2> QED
    BY <2>3, <2>9
<1>2. Cardinality(S) \in Nat
  BY FS_CardinalityType
<1>3. PICK g : Upto(g, Cardinality(S))
  BY <1>1, <1>2
<1>4. \A s \in SUBSET S : g[s] = CountStage(fs, g, s)
  <2>1. \A s \in SUBSET S : Cardinality(s) <= Cardinality(S)
    BY FS_Subset
  <2> QED
    BY <1>3, <2>1 DEF Upto
<1>5. g = [s \in SUBSET S |-> g[s]]
  BY <1>3 DEF Upto
<1> QED
  BY <1>4, <1>5 DEF Counted

LEMMA LineCountCounted ==
    ASSUME NEW fs, NEW S, IsFiniteSet(S)
    PROVE  \E g : Counted(fs, g, S) /\ LineCount(fs, S) = g[S]
<1>1. PICK g : Counted(fs, g, S)
  BY CountExists
<1> PICK h : h = CHOOSE k : k = [s \in SUBSET S |-> CountStage(fs, k, s)]
  OBVIOUS
<1>2. Counted(fs, h, S)
  BY <1>1 DEF Counted
<1>3. LineCount(fs, S) = h[S]
  BY DEF LineCount, FoldSet, MapThenFoldSet, CountStage
<1> QED
  BY <1>2, <1>3

\* Of a file that changes, the count takes the change; the other files count as
\* they did.
LEMMA LineCountChanges ==
    ASSUME NEW S, IsFiniteSet(S), NEW fs, NEW ft, NEW p \in S,
           \A q \in S : fs[q] \in Contents /\ ft[q] \in Contents,
           \A q \in S : q # p => ft[q] = fs[q]
    PROVE  /\ LineCount(fs, S) \in Nat /\ LineCount(ft, S) \in Nat
           /\ LineCount(ft, S) = LineCount(fs, S) + LinesOf(ft[p]) - LinesOf(fs[p])
<1>1. PICK g : Counted(fs, g, S) /\ LineCount(fs, S) = g[S]
  BY LineCountCounted
<1>2. PICK h : Counted(ft, h, S) /\ LineCount(ft, S) = h[S]
  BY LineCountCounted
<1>3. \A q \in S : LinesOf(fs[q]) \in Nat /\ LinesOf(ft[q]) \in Nat
  BY LinesOfType
<1> PICK d \in Int : d = LinesOf(ft[p]) - LinesOf(fs[p])
  BY <1>3
<1> DEFINE Right(s) ==
        g[s] \in Nat /\ h[s] \in Nat /\ h[s] = g[s] + IF p \in s THEN d ELSE 0
<1> HIDE DEF Right
<1> PICK Wrong : Wrong = {m \in Nat : \E s \in SUBSET S : Cardinality(s) = m /\ ~ Right(s)}
  OBVIOUS
<1>4. Wrong = {}
  <2>1. SUFFICES ASSUME Wrong # {} PROVE FALSE
    OBVIOUS
  <2>2. PICK m \in Wrong : \A k \in Wrong : m <= k
    <3>1. Wrong \in SUBSET Nat
      OBVIOUS
    <3> QED
      BY <2>1, <3>1, Least
  <2>3. PICK s \in SUBSET S : Cardinality(s) = m /\ ~ Right(s)
    BY <2>2
  <2>4. g[s] = CountStage(fs, g, s) /\ h[s] = CountStage(ft, h, s)
    BY <1>1, <1>2 DEF Counted
  <2>5. s # {}
    <3>1. ASSUME s = {} PROVE g[s] = 0 /\ h[s] = 0 /\ p \notin s
      BY <2>4, <3>1 DEF CountStage
    <3> QED
      BY <2>3, <3>1 DEF Right
  <2> PICK x : x = CHOOSE y \in s : TRUE
    OBVIOUS
  <2>6. /\ x \in s /\ s \ {x} \in SUBSET S
        /\ Cardinality(s) \in Nat /\ Cardinality(s \ {x}) = Cardinality(s) - 1
    BY <2>5, SmallerSet
  <2>7. g[s] = g[s \ {x}] + LinesOf(fs[x]) /\ h[s] = h[s \ {x}] + LinesOf(ft[x])
    BY <2>4, <2>5 DEF CountStage
  <2>8. Right(s \ {x})
    <3>1. m \in Nat /\ Cardinality(s \ {x}) = m - 1
      BY <2>2, <2>3, <2>6
    <3>2. m - 1 \in Nat
      <4>1. IsFiniteSet(s \ {x})
        BY <2>6, FS_Subset
      <4>2. Cardinality(s \ {x}) \in Nat
        BY <4>1, FS_CardinalityType
      <4> QED
        BY <3>1, <4>2
    <3>3. m - 1 \notin Wrong
      BY <2>2, <3>1
    <3> QED
      BY <2>6, <3>1, <3>2, <3>3
  <2>9. x \in S /\ LinesOf(fs[x]) \in Nat /\ LinesOf(ft[x]) \in Nat
    BY <1>3, <2>6
  <2>10. CASE x = p
    <3>1. h[s \ {x}] = g[s \ {x}] /\ g[s \ {x}] \in Nat
      BY <2>8, <2>10 DEF Right
    <3>2. d = LinesOf(ft[x]) - LinesOf(fs[x])
      BY <2>10
    <3>3. g[s] \in Nat /\ h[s] \in Nat /\ h[s] = g[s] + d
      BY <2>7, <2>9, <3>1, <3>2
    <3> QED
      BY <2>3, <2>6, <2>10, <3>3 DEF Right
  <2>11. CASE x # p
    <3>1. LinesOf(ft[x]) = LinesOf(fs[x]) /\ (p \in s <=> p \in s \ {x})
      BY <2>9, <2>11
    <3> PICK e \in Int : e = IF p \in s THEN d ELSE 0
      OBVIOUS
    <3>2. g[s \ {x}] \in Nat /\ h[s \ {x}] \in Nat /\ h[s \ {x}] = g[s \ {x}] + e
      BY <2>8, <3>1 DEF Right
    <3>3. g[s] \in Nat /\ h[s] \in Nat /\ h[s] = g[s] + e
      BY <2>7, <2>9, <3>1, <3>2
    <3> QED
      BY <2>3, <3>3 DEF Right
  <2> QED
    BY <2>10, <2>11
<1>5. Right(S)
  <2>1. Cardinality(S) \in Nat
    BY FS_CardinalityType
  <2> QED
    BY <1>4, <2>1
<1>6. g[S] \in Nat /\ h[S] \in Nat /\ h[S] = g[S] + d
  BY <1>5 DEF Right
<1> QED
  BY <1>1, <1>2, <1>3, <1>6

Grown(S, fs, ft, p, a, d) ==
    /\ IsFiniteSet(S) /\ p \in S /\ a \in Int /\ d \in Int
    /\ \A q \in S : fs[q] \in Contents /\ ft[q] \in Contents
    /\ \A q \in S : q # p => ft[q] = fs[q]
    /\ LinesOf(ft[p]) <= LinesOf(fs[p]) + a - d

LEMMA LineCountGrows ==
    ASSUME NEW S, NEW fs, NEW ft, NEW p, NEW a, NEW d, Grown(S, fs, ft, p, a, d)
    PROVE  LineCount(ft, S) - LineCount(fs, S) <= a - d
<1>1. /\ LineCount(fs, S) \in Nat /\ LineCount(ft, S) \in Nat
      /\ LineCount(ft, S) = LineCount(fs, S) + LinesOf(ft[p]) - LinesOf(fs[p])
  BY LineCountChanges DEF Grown
<1>2. LinesOf(fs[p]) \in Nat /\ LinesOf(ft[p]) \in Nat
  BY LinesOfType DEF Grown
<1>3. a \in Int /\ d \in Int /\ LinesOf(ft[p]) <= LinesOf(fs[p]) + a - d
  BY DEF Grown
<1> QED
  BY <1>1, <1>2, <1>3

LEMMA LineCountSame ==
    ASSUME NEW S, IsFiniteSet(S), NEW fs, NEW ft,
           \A q \in S : fs[q] \in Contents /\ ft[q] = fs[q]
    PROVE  LineCount(ft, S) = LineCount(fs, S)
<1>1. CASE S = {}
  <2>1. PICK g : Counted(fs, g, S) /\ LineCount(fs, S) = g[S]
    BY LineCountCounted
  <2>2. PICK h : Counted(ft, h, S) /\ LineCount(ft, S) = h[S]
    BY LineCountCounted
  <2>3. g[S] = 0 /\ h[S] = 0
    BY <1>1, <2>1, <2>2 DEF Counted, CountStage
  <2> QED
    BY <2>1, <2>2, <2>3
<1>2. CASE S # {}
  <2>1. PICK p : p \in S
    BY <1>2
  <2>2. /\ LineCount(fs, S) \in Nat /\ LineCount(ft, S) \in Nat
        /\ LineCount(ft, S) = LineCount(fs, S) + LinesOf(ft[p]) - LinesOf(fs[p])
    BY <2>1, LineCountChanges
  <2>3. LinesOf(ft[p]) = LinesOf(fs[p]) /\ LinesOf(fs[p]) \in Nat
    BY <2>1, LinesOfType
  <2> QED
    BY <2>2, <2>3
<1> QED
  BY <1>1, <1>2

LEMMA LineCountType ==
    ASSUME NEW S, IsFiniteSet(S), NEW fs, \A q \in S : fs[q] \in Contents
    PROVE  LineCount(fs, S) \in Nat
<1>1. CASE S = {}
  <2>1. PICK g : Counted(fs, g, S) /\ LineCount(fs, S) = g[S]
    BY LineCountCounted
  <2>2. g[S] = 0
    BY <1>1, <2>1 DEF Counted, CountStage
  <2> QED
    BY <2>1, <2>2
<1>2. CASE S # {}
  <2>1. PICK p : p \in S
    BY <1>2
  <2> QED
    BY <2>1, LineCountChanges
<1> QED
  BY <1>1, <1>2

-----------------------------------------------------------------------------
(* The edits of one request.                                                *)

PathsIn(edits) == {edits[i].path : i \in DOMAIN edits}

Worlds == [files : [Paths -> Contents], net : Int]

LEMMA PatchType ==
    ASSUME NEW edits \in Patches \cup {<<>>}
    PROVE  /\ edits \in Seq(Edits) /\ Len(edits) \in Nat /\ DOMAIN edits = 1 .. Len(edits)
           /\ \A i \in 1 .. Len(edits) :
                  EditRecord(edits[i]) /\ edits[i].path \in Paths
           /\ PathsIn(edits) \subseteq Paths /\ IsFiniteSet(PathsIn(edits))
<1>1. edits \in Seq(Edits)
  <2>1. CASE edits \in Patches
    BY <2>1, WorkspaceAssumption
  <2>2. CASE edits = <<>>
    BY <2>2
  <2> QED
    BY <2>1, <2>2
<1>2. Len(edits) \in Nat /\ DOMAIN edits = 1 .. Len(edits)
  BY <1>1
<1>3. \A i \in 1 .. Len(edits) : EditRecord(edits[i]) /\ edits[i].path \in Paths
  BY <1>1, WorkspaceAssumption
<1>4. PathsIn(edits) \subseteq Paths
  BY <1>2, <1>3 DEF PathsIn
<1>5. IsFiniteSet(PathsIn(edits))
  <2> PICK f : f = [i \in 1 .. Len(edits) |-> edits[i].path]
    OBVIOUS
  <2>1. f \in Surjection(1 .. Len(edits), PathsIn(edits))
    BY <1>2 DEF Surjection, PathsIn
  <2>2. IsFiniteSet(1 .. Len(edits))
    BY <1>2, FS_Interval
  <2> QED
    BY <2>1, <2>2, FS_Surjection
<1> QED
  BY <1>1, <1>2, <1>3, <1>4, <1>5

LEMMA FirstWorld ==
    ASSUME NEW edits \in Patches \cup {<<>>}
    PROVE  /\ Effects(edits)[0] \in Worlds
           /\ Effects(edits)[0].files = InitFiles /\ Effects(edits)[0].net = 0
<1>1. Len(edits) \in Nat
  BY PatchType
<1>2. Effects(edits)[0] = Stage(edits, Effects(edits), 0)
  BY <1>1, EffectsStaged DEF Staged
<1>3. Effects(edits)[0] = [files |-> InitFiles, net |-> 0]
  BY <1>2 DEF Stage
<1> QED
  BY <1>3, WorkspaceAssumption DEF Worlds

Follows(next, world, edits, e, content) ==
    /\ next.files = [world.files EXCEPT ![e.path] = NewContent(content, e)]
    /\ next.net = world.net + Additions(e) - Deletions(content, e)
    /\ LineCount(next.files, PathsIn(edits)) - LineCount(world.files, PathsIn(edits))
           <= next.net - world.net

\* One edit more, which was let through: what it makes of its file, and how much
\* the files may have grown.
LEMMA NextWorld ==
    ASSUME NEW edits \in Patches \cup {<<>>}, NEW n \in 0 .. Len(edits) - 1,
           NEW e, e = edits[n + 1],
           NEW world \in Worlds, world = Effects(edits)[n],
           NEW content, content = world.files[e.path],
           "write" \in Outcomes(content, e)
    PROVE  \E next \in Worlds :
               next = Effects(edits)[n + 1] /\ Follows(next, world, edits, e, content)
<1> PICK S : S = PathsIn(edits)
  OBVIOUS
<1>1. /\ Len(edits) \in Nat /\ DOMAIN edits = 1 .. Len(edits)
      /\ n \in Nat /\ n + 1 \in 1 .. Len(edits)
  BY PatchType
<1>2. EditRecord(e) /\ e.path \in Paths /\ S \subseteq Paths /\ IsFiniteSet(S)
  BY <1>1, PatchType
<1>3. e.path \in S
  BY <1>1 DEF PathsIn
<1>4. world.files \in [Paths -> Contents] /\ world.net \in Int /\ content \in Contents
  BY <1>2 DEF Worlds
<1>5. /\ NewContent(content, e) \in Contents
      /\ Additions(e) \in Nat /\ Deletions(content, e) \in Int
      /\ LinesOf(NewContent(content, e))
             <= LinesOf(content) + Additions(e) - Deletions(content, e)
  BY <1>2, <1>4, EditProperties
<1> PICK fs : fs = world.files
  OBVIOUS
<1> PICK a, d, new : a = Additions(e) /\ d = Deletions(content, e) /\ new = NewContent(content, e)
  OBVIOUS
<1> PICK ft : ft = [fs EXCEPT ![e.path] = new]
  OBVIOUS
<1> PICK net : net = world.net + a - d
  OBVIOUS
<1>6. /\ fs \in [Paths -> Contents] /\ ft \in [Paths -> Contents] /\ net \in Int
      /\ a \in Nat /\ d \in Int
      /\ fs[e.path] = content /\ ft[e.path] = new
      /\ \A q \in Paths : q # e.path => ft[q] = fs[q]
  <2>1. fs \in [Paths -> Contents] /\ new \in Contents /\ fs[e.path] = content
    BY <1>4, <1>5
  <2>2. /\ ft \in [Paths -> Contents] /\ ft[e.path] = new
        /\ \A q \in Paths : q # e.path => ft[q] = fs[q]
    BY <1>2, <2>1
  <2>3. a \in Nat /\ d \in Int
    BY <1>5
  <2>4. net \in Int
    BY <1>4, <2>3
  <2> QED
    BY <2>1, <2>2, <2>3, <2>4
<1>7. Effects(edits)[n + 1] = [files |-> ft, net |-> net]
  <2>1. Effects(edits)[n + 1] = Stage(edits, Effects(edits), n + 1)
    BY <1>1, EffectsStaged DEF Staged
  <2>2. n + 1 # 0 /\ (n + 1) - 1 = n
    BY <1>1
  <2> QED
    BY <2>1, <2>2 DEF Stage
<1>8. LineCount(ft, S) - LineCount(fs, S) <= net - world.net
  <2>1. LineCount(ft, S) - LineCount(fs, S) <= a - d
    <3>1. \A q \in S : fs[q] \in Contents /\ ft[q] \in Contents
      BY <1>2, <1>6
    <3>2. \A q \in S : q # e.path => ft[q] = fs[q]
      BY <1>2, <1>6
    <3>3. LinesOf(ft[e.path]) <= LinesOf(fs[e.path]) + a - d
      BY <1>5, <1>6
    <3>4. IsFiniteSet(S) /\ e.path \in S /\ a \in Int /\ d \in Int
      BY <1>2, <1>3, <1>6
    <3>5. Grown(S, fs, ft, e.path, a, d)
      BY <3>1, <3>2, <3>3, <3>4, Zenon DEF Grown
    <3> QED
      BY <3>5, LineCountGrows
  <2>2. a - d = net - world.net
    BY <1>4, <1>6
  <2> QED
    BY <2>1, <2>2
<1> PICK next : next = [files |-> ft, net |-> net]
  OBVIOUS
<1>9. next \in Worlds
  BY <1>6 DEF Worlds
<1>10. next.files = ft /\ next.net = net
  OBVIOUS
<1> QED
  BY <1>7, <1>8, <1>9, <1>10 DEF Follows

-----------------------------------------------------------------------------
(* What the invariant says of one request r: Held whatever the others do,   *)
(* and Exact, with the files fs, if no other request names its files.       *)

EditIn(r) == r.edits[r.done + 1]

World(r) == Effects(r.edits)[r.done]

Writing(r) == r.at \in {"write", "fill"}

Held(r) ==
    /\ r \in Requests /\ r.done <= Len(r.edits)
    /\ r.at = "idle" => r = NoRequest
    /\ r.at \notin {"fill", "error", "panic", "crashed"} => r.open = {}
    /\ r.at = "fill" => r.open = {EditIn(r).path} /\ EditIn(r).operation # "delete"
    /\ Writing(r) => r.done < Len(r.edits)
    /\ Writing(r) => (EditIn(r).operation # "delete" => r.next \in Seq(Lines))

Balanced(r, net) == Balance(r.additions, r.deletions, net)

Bounded(r, world) ==
    LineCount(world.files, PathsIn(r.edits)) - LineCount(InitFiles, PathsIn(r.edits)) <= world.net

\* What the edit in hand was read from.
Source(r) == World(r).files[EditIn(r).path]

Exact(r, fs) ==
    /\ World(r) \in Worlds
    /\ \A p \in PathsIn(r.edits) \ r.open : fs[p] = World(r).files[p]
    /\ Bounded(r, World(r))
    /\ r.at \notin {"error", "panic", "crashed", "write", "fill"} => Balanced(r, World(r).net)
    /\ Writing(r) =>
           /\ "write" \in Outcomes(Source(r), EditIn(r))
           /\ r.next = NewContent(Source(r), EditIn(r))
           /\ Balanced(r, Effects(r.edits)[r.done + 1].net)
           /\ r.at = "fill" => fs[EditIn(r).path] = <<>>

LEMMA HeldType ==
    ASSUME NEW r, Held(r)
    PROVE  /\ r \in Requests /\ r.edits \in Patches \cup {<<>>}
           /\ r.done \in Nat /\ Len(r.edits) \in Nat /\ r.done \in 0 .. Len(r.edits)
           /\ r.additions \in Int /\ r.deletions \in Int
           /\ PathsIn(r.edits) \subseteq Paths
<1>1. /\ r \in Requests /\ r.edits \in Patches \cup {<<>>} /\ r.done \in Nat
      /\ r.additions \in Int /\ r.deletions \in Int
  BY PatchAssumption DEF Held, Requests
<1>2. Len(r.edits) \in Nat /\ PathsIn(r.edits) \subseteq Paths
  BY <1>1, PatchType
<1> QED
  BY <1>1, <1>2 DEF Held

LEMMA EditInType ==
    ASSUME NEW r, Held(r), r.done < Len(r.edits)
    PROVE  /\ EditRecord(EditIn(r)) /\ EditIn(r).path \in Paths
           /\ EditIn(r).path \in PathsIn(r.edits)
<1>1. r.done + 1 \in 1 .. Len(r.edits) /\ r.edits \in Patches \cup {<<>>}
  BY HeldType
<1> QED
  BY <1>1, PatchType DEF EditIn, PathsIn

\* Other files do not matter.
LEMMA ExactLocal ==
    ASSUME NEW r, Held(r), NEW fs, NEW ft, Exact(r, fs),
           \A p \in PathsIn(r.edits) : ft[p] = fs[p]
    PROVE  Exact(r, ft)
<1>1. ASSUME Writing(r) PROVE EditIn(r).path \in PathsIn(r.edits)
  BY <1>1, EditInType DEF Held
<1> QED
  BY <1>1 DEF Exact, Writing

\* A request that only goes on to a state where nothing is written.
GoesTo(r, label) == [r EXCEPT !.at = label]

LEMMA GoesToProperties ==
    ASSUME NEW r \in Requests, NEW label \in HandlerStates
    PROVE  /\ GoesTo(r, label) \in Requests
           /\ GoesTo(r, label).at = label
           /\ GoesTo(r, label).edits = r.edits /\ GoesTo(r, label).done = r.done
           /\ GoesTo(r, label).open = r.open
           /\ GoesTo(r, label).additions = r.additions
           /\ GoesTo(r, label).deletions = r.deletions
  BY DEF GoesTo, Requests

Quiet == {"ok", "denied", "timed_out", "tests", "waiting"}

Failed == {"error", "panic", "crashed"}

LEMMA GoesToHeld ==
    ASSUME NEW r, Held(r), NEW label \in Quiet \cup Failed,
           label \in Quiet => ~ Writing(r) /\ r.at \notin Failed
    PROVE  Held(GoesTo(r, label))
<1> PICK s : s = GoesTo(r, label)
  OBVIOUS
<1>1. /\ s \in Requests /\ s.at = label /\ s.edits = r.edits /\ s.done = r.done
      /\ s.open = r.open
  BY HeldType, GoesToProperties DEF Quiet, Failed, HandlerStates
<1>2. r.done <= Len(r.edits) /\ (label \in Quiet => r.open = {})
  BY DEF Held, Writing, Failed
<1> QED
  BY <1>1, <1>2 DEF Held, Writing, Quiet, Failed

LEMMA GoesToExact ==
    ASSUME NEW r, Held(r), NEW fs, Exact(r, fs), NEW label \in Quiet \cup Failed,
           label \in Quiet => ~ Writing(r) /\ r.at \notin Failed
    PROVE  Exact(GoesTo(r, label), fs)
<1> PICK s : s = GoesTo(r, label)
  OBVIOUS
<1>1. /\ s \in Requests /\ s.at = label /\ s.edits = r.edits /\ s.done = r.done
      /\ s.open = r.open /\ s.additions = r.additions /\ s.deletions = r.deletions
  BY HeldType, GoesToProperties DEF Quiet, Failed, HandlerStates
<1>2. World(s) = World(r) /\ ~ Writing(s)
  BY <1>1 DEF World, Writing, Quiet, Failed
<1>3. Bounded(s, World(s))
  BY <1>1, <1>2 DEF Exact, Bounded
<1>4. s.at \notin {"error", "panic", "crashed", "write", "fill"} => Balanced(s, World(s).net)
  BY <1>1, <1>2 DEF Exact, Balanced, Writing, Quiet, Failed
<1> QED
  BY <1>1, <1>2, <1>3, <1>4 DEF Exact

\* patch.apply starts, on files that nobody has changed.
LEMMA Started ==
    ASSUME NEW patch \in Patches, NEW s \in Requests, s.at \in {"edit", "error"},
           s.edits = patch, s.done = 0, s.open = {}, s.additions = 0, s.deletions = 0,
           NEW fs
    PROVE  /\ Held(s)
           /\ (\A p \in PathsIn(patch) : fs[p] = InitFiles[p]) => Exact(s, fs)
<1>1. Len(patch) \in Nat /\ PathsIn(patch) \subseteq Paths /\ IsFiniteSet(PathsIn(patch))
  BY PatchType
<1>2. Held(s)
  BY <1>1 DEF Held, Writing
<1>3. World(s) \in Worlds /\ World(s).files = InitFiles /\ World(s).net = 0
  BY FirstWorld DEF World
<1>4. Bounded(s, World(s))
  <2>1. \A q \in PathsIn(patch) : InitFiles[q] \in Contents
    BY <1>1, WorkspaceAssumption
  <2>2. LineCount(InitFiles, PathsIn(patch)) \in Nat
    BY <1>1, <2>1, LineCountType
  <2> QED
    BY <1>3, <2>2 DEF Bounded
<1>5. Balanced(s, World(s).net)
  <2>1. 0 % UsizeModulus = 0
    BY PatchAssumption
  <2> QED
    BY <1>3, <2>1 DEF Balanced, Balance
<1> QED
  BY <1>2, <1>3, <1>4, <1>5 DEF Exact, Writing

LEMMA WorldAfter ==
    ASSUME NEW r, Held(r), r.done < Len(r.edits), World(r) \in Worlds,
           "write" \in Outcomes(Source(r), EditIn(r))
    PROVE  \E next \in Worlds :
               /\ next = Effects(r.edits)[r.done + 1]
               /\ Follows(next, World(r), r.edits, EditIn(r), Source(r))
               /\ Bounded(r, World(r)) => Bounded(r, next)
<1> PICK edits, n, e, world, content :
        /\ edits = r.edits /\ n = r.done /\ e = EditIn(r) /\ world = World(r)
        /\ content = Source(r)
  OBVIOUS
<1>1. edits \in Patches \cup {<<>>} /\ n \in 0 .. Len(edits) - 1
  BY HeldType
<1>2. /\ e = edits[n + 1] /\ world = Effects(edits)[n] /\ content = world.files[e.path]
      /\ world \in Worlds /\ "write" \in Outcomes(content, e)
  BY DEF EditIn, World, Source
<1>3. PICK next \in Worlds :
          next = Effects(edits)[n + 1] /\ Follows(next, world, edits, e, content)
  BY <1>1, <1>2, NextWorld
<1>4. Bounded(r, world) => Bounded(r, next)
  <2> PICK S : S = PathsIn(edits)
    OBVIOUS
  <2>1. IsFiniteSet(S) /\ S \subseteq Paths
    BY <1>1, PatchType
  <2>2. /\ world.files \in [Paths -> Contents] /\ next.files \in [Paths -> Contents]
        /\ InitFiles \in [Paths -> Contents]
        /\ world.net \in Int /\ next.net \in Int
    BY <1>2, WorkspaceAssumption DEF Worlds
  <2>3. /\ \A q \in S : world.files[q] \in Contents
        /\ \A q \in S : next.files[q] \in Contents
        /\ \A q \in S : InitFiles[q] \in Contents
    BY <2>1, <2>2
  <2>4. /\ LineCount(world.files, S) \in Nat /\ LineCount(next.files, S) \in Nat
        /\ LineCount(InitFiles, S) \in Nat
    BY <2>1, <2>3, LineCountType
  <2> QED
    BY <1>3, <2>2, <2>4 DEF Bounded, Follows
<1> QED
  BY <1>3, <1>4

\* An edit that is let through.
HoldsRead(r, content) ==
    [r EXCEPT !.at = "write",
              !.next = NewContent(content, EditIn(r)),
              !.additions = Added(@, Additions(EditIn(r))),
              !.deletions = Added(@, Deletions(content, EditIn(r)))]

LEMMA WasRead ==
    ASSUME NEW r, Held(r), r.at = "edit", r.done < Len(r.edits),
           NEW fs \in [Paths -> Contents],
           NEW content, content = fs[EditIn(r).path], "write" \in Outcomes(content, EditIn(r)),
           NEW s, s = HoldsRead(r, content)
    PROVE  Held(s) /\ (Exact(r, fs) => Exact(s, fs))
<1> PICK e : e = EditIn(r)
  OBVIOUS
<1>1. /\ r \in Requests /\ r.edits \in Patches \cup {<<>>} /\ r.done \in 0 .. Len(r.edits) - 1
      /\ r.additions \in Int /\ r.deletions \in Int
  BY HeldType
<1>2. EditRecord(e) /\ e.path \in Paths /\ e.path \in PathsIn(r.edits) /\ content \in Contents
  BY EditInType
<1>3. /\ NewContent(content, e) \in Contents
      /\ e.operation # "delete" => NewContent(content, e) \in Seq(Lines)
      /\ Additions(e) \in Nat /\ Deletions(content, e) \in Int
  BY <1>2, EditProperties
<1> PICK new, a, d : /\ new = NewContent(content, e)
                     /\ a = Added(r.additions, Additions(e))
                     /\ d = Added(r.deletions, Deletions(content, e))
  OBVIOUS
<1>4. a \in 0 .. UsizeModulus - 1 /\ d \in 0 .. UsizeModulus - 1
  <2>1. /\ r.additions + Additions(e) \in Int
        /\ r.deletions + Deletions(content, e) \in Int
    BY <1>1, <1>3
  <2> QED
    BY <2>1, Remainder, PatchAssumption DEF Added
<1>5. s = [r EXCEPT !.at = "write", !.next = new, !.additions = a, !.deletions = d]
  BY DEF HoldsRead
<1>6. /\ s \in Requests /\ s.at = "write" /\ s.edits = r.edits /\ s.done = r.done
      /\ s.open = r.open /\ s.next = new /\ s.additions = a /\ s.deletions = d
  BY <1>1, <1>3, <1>4, <1>5 DEF Requests, HandlerStates
<1>7. EditIn(s) = e /\ World(s) = World(r)
  BY <1>6 DEF EditIn, World
<1>8. Held(s)
  <2>1. r.open = {}
    BY DEF Held
  <2> QED
    BY <1>1, <1>3, <1>6, <1>7, <2>1 DEF Held, Writing
<1>9. ASSUME Exact(r, fs) PROVE Exact(s, fs)
  <2>1. r.open = {} /\ World(r) \in Worlds
    BY <1>9 DEF Held, Exact
  <2>2. World(r).files[e.path] = content
    BY <1>2, <1>9, <2>1 DEF Exact
  <2>3. PICK next \in Worlds :
            /\ next = Effects(r.edits)[r.done + 1]
            /\ next.net = World(r).net + Additions(e) - Deletions(content, e)
    <3>1. Source(r) = content
      BY <2>2 DEF Source
    <3> QED
      BY <2>1, <3>1, WorldAfter DEF Follows
  <2>4. Balanced(s, next.net)
    <3> PICK net, u, v, x, y :
            /\ net = World(r).net /\ u = r.additions /\ v = r.deletions
            /\ x = Additions(e) /\ y = Deletions(content, e)
      OBVIOUS
    <3>1. net \in Int /\ u \in Int /\ v \in Int /\ x \in Int /\ y \in Int
      BY <1>1, <1>3, <2>1 DEF Worlds
    <3>2. Balance(u, v, net)
      BY <1>9 DEF Exact, Balanced
    <3>3. Balance(Added(u, x), Added(v, y), net + x - y)
      BY <3>1, <3>2, AddedCongruent
    <3> QED
      BY <1>6, <2>3, <3>3 DEF Balanced
  <2>5. Bounded(s, World(s))
    BY <1>6, <1>7, <1>9 DEF Exact, Bounded
  <2>6. Source(s) = content
    BY <1>7, <2>2 DEF Source
  <2> QED
    BY <1>6, <1>7, <1>9, <2>1, <2>3, <2>4, <2>5, <2>6 DEF Exact, Writing
<1> QED
  BY <1>8, <1>9

\* The file of an edit is truncated.
LEMMA Truncated ==
    ASSUME NEW r, Held(r), r.at = "write", EditIn(r).operation # "delete",
           NEW fs \in [Paths -> Contents],
           NEW ft, ft = [fs EXCEPT ![EditIn(r).path] = <<>>],
           NEW s, s = [r EXCEPT !.at = "fill", !.open = {EditIn(r).path}]
    PROVE  Held(s) /\ (Exact(r, fs) => Exact(s, ft))
<1> PICK p : p = EditIn(r).path
  OBVIOUS
<1>1. Writing(r) /\ r.done < Len(r.edits) /\ r.next \in Seq(Lines) /\ r.open = {}
  BY DEF Held, Writing
<1>2. r \in Requests /\ p \in Paths /\ p \in PathsIn(r.edits)
      /\ PathsIn(r.edits) \subseteq Paths
  BY <1>1, EditInType, HeldType
<1>3. /\ s \in Requests /\ s.at = "fill" /\ s.edits = r.edits /\ s.done = r.done
      /\ s.open = {p} /\ s.next = r.next
      /\ s.additions = r.additions /\ s.deletions = r.deletions
  BY <1>2 DEF Requests, HandlerStates
<1>4. EditIn(s) = EditIn(r) /\ World(s) = World(r) /\ Source(s) = Source(r)
  BY <1>3 DEF EditIn, World, Source
<1>5. Held(s)
  BY <1>1, <1>3, <1>4 DEF Held, Writing
<1>6. ASSUME Exact(r, fs) PROVE Exact(s, ft)
  <2>1. \A q \in PathsIn(s.edits) \ s.open : ft[q] = World(s).files[q]
    <3>1. \A q \in PathsIn(r.edits) : fs[q] = World(r).files[q]
      BY <1>1, <1>6 DEF Exact
    <3> QED
      BY <1>2, <1>3, <1>4, <3>1
  <2>2. ft[p] = <<>>
    BY <1>2
  <2>3. Bounded(s, World(s))
    BY <1>3, <1>4, <1>6 DEF Exact, Bounded
  <2>4. /\ World(s) \in Worlds
        /\ "write" \in Outcomes(Source(s), EditIn(s))
        /\ s.next = NewContent(Source(s), EditIn(s))
    BY <1>1, <1>3, <1>4, <1>6 DEF Exact
  <2>5. Balanced(s, Effects(s.edits)[s.done + 1].net)
    <3>1. Balanced(r, Effects(r.edits)[r.done + 1].net)
      BY <1>1, <1>6 DEF Exact
    <3> QED
      BY <1>3, <3>1 DEF Balanced
  <2> QED
    BY <1>3, <1>4, <2>1, <2>2, <2>3, <2>4, <2>5 DEF Exact
<1> QED
  BY <1>5, <1>6

\* The file of an edit is written, or removed.
Stores(r, fs, s, ft) ==
    /\ Held(r) /\ Writing(r)
    /\ fs \in [Paths -> Contents]
    /\ \A q \in Paths : q # EditIn(r).path => ft[q] = fs[q]
    /\ s \in Requests /\ s.at \in {"edit", "error"} /\ s.edits = r.edits
    /\ s.done = r.done + 1 /\ s.open = {}
    /\ s.additions = r.additions /\ s.deletions = r.deletions

LEMMA Stored ==
    ASSUME NEW r, NEW fs, NEW s, NEW ft, Stores(r, fs, s, ft)
    PROVE  Held(s) /\ (Exact(r, fs) /\ ft[EditIn(r).path] = r.next => Exact(s, ft))
<1> USE DEF Stores
<1> PICK p : p = EditIn(r).path
  OBVIOUS
<1>1. /\ r.done < Len(r.edits) /\ r.done \in Nat /\ Len(r.edits) \in Nat
      /\ r.open \subseteq {p}
  BY HeldType DEF Held, Writing
<1>2. p \in Paths /\ p \in PathsIn(r.edits) /\ PathsIn(r.edits) \subseteq Paths
  BY <1>1, EditInType, HeldType
<1>3. Held(s)
  BY <1>1 DEF Held, Writing
<1>4. ASSUME Exact(r, fs), ft[p] = r.next PROVE Exact(s, ft)
  <2>1. /\ World(r) \in Worlds /\ "write" \in Outcomes(Source(r), EditIn(r))
        /\ r.next = NewContent(Source(r), EditIn(r))
        /\ Balanced(r, Effects(r.edits)[r.done + 1].net)
        /\ Bounded(r, World(r))
        /\ \A q \in PathsIn(r.edits) : q # p => fs[q] = World(r).files[q]
    BY <1>1, <1>4 DEF Exact
  <2>2. PICK next \in Worlds :
            /\ next = Effects(r.edits)[r.done + 1]
            /\ Follows(next, World(r), r.edits, EditIn(r), Source(r))
            /\ Bounded(r, next)
    BY <1>1, <2>1, WorldAfter
  <2>3. World(s) = next
    BY <2>2 DEF World
  <2>4. \A q \in PathsIn(s.edits) : ft[q] = next.files[q]
    <3>1. World(r).files \in [Paths -> Contents]
      BY <2>1 DEF Worlds
    <3>2. /\ next.files[p] = r.next
          /\ \A q \in Paths : q # p => next.files[q] = World(r).files[q]
      BY <1>2, <2>1, <2>2, <3>1 DEF Follows
    <3> QED
      BY <1>2, <1>4, <2>1, <3>2
  <2>5. Bounded(s, next)
    BY <2>2 DEF Bounded
  <2>6. Balanced(s, next.net)
    BY <2>1, <2>2 DEF Balanced
  <2> QED
    BY <2>3, <2>4, <2>5, <2>6 DEF Exact, Writing
<1> QED
  BY <1>3, <1>4

-----------------------------------------------------------------------------
(* All requests together.                                                   *)

Apart(h, c) == \A d \in Clients \ {c} : PathsIn(h[c].edits) \cap PathsIn(h[d].edits) = {}

RequestsInv(h, fs) ==
    /\ fs \in [Paths -> Contents]
    /\ h \in [Clients -> Requests]
    /\ \A c \in Clients : Held(h[c])
    /\ \A c \in Clients : Apart(h, c) => Exact(h[c], fs)
    /\ \A p \in Paths : (\A c \in Clients : p \notin PathsIn(h[c].edits)) => fs[p] = InitFiles[p]

\* One request goes on, and changes no file but those that it names.
LEMMA OneRequest ==
    ASSUME NEW h, NEW fs, RequestsInv(h, fs), NEW c \in Clients,
           NEW s, Held(s), s.edits = h[c].edits \/ h[c].edits = <<>>,
           NEW ft \in [Paths -> Contents],
           \A p \in Paths : p \notin PathsIn(s.edits) => ft[p] = fs[p],
           NEW k, k = [h EXCEPT ![c] = s],
           Apart(k, c) => Exact(s, ft)
    PROVE  RequestsInv(k, ft)
<1>1. /\ h \in [Clients -> Requests] /\ s \in Requests
      /\ k \in [Clients -> Requests] /\ k[c] = s
      /\ \A d \in Clients : d # c => k[d] = h[d]
  BY HeldType DEF RequestsInv
<1>2. PathsIn(h[c].edits) \subseteq PathsIn(s.edits)
  BY DEF PathsIn
<1>3. \A d \in Clients : Held(k[d])
  BY <1>1 DEF RequestsInv
<1>4. ASSUME NEW d \in Clients, Apart(k, d) PROVE Exact(k[d], ft)
  <2>1. CASE d = c
    BY <1>1, <1>4, <2>1
  <2>2. CASE d # c
    <3>1. k[d] = h[d] /\ PathsIn(h[d].edits) \cap PathsIn(s.edits) = {}
      BY <1>1, <1>4, <2>2 DEF Apart
    <3>2. Apart(h, d)
      <4>1. ASSUME NEW b \in Clients \ {d} PROVE PathsIn(h[d].edits) \cap PathsIn(h[b].edits) = {}
        BY <1>1, <1>2, <1>4, <3>1 DEF Apart
      <4> QED
        BY <4>1 DEF Apart
    <3>3. Held(h[d]) /\ Exact(h[d], fs)
      BY <3>2 DEF RequestsInv
    <3>4. PathsIn(h[d].edits) \subseteq Paths
      BY <3>3, HeldType
    <3>5. \A p \in PathsIn(h[d].edits) : ft[p] = fs[p]
      BY <3>1, <3>4
    <3> QED
      BY <3>1, <3>3, <3>5, ExactLocal
  <2> QED
    BY <2>1, <2>2
<1>5. ASSUME NEW p \in Paths, \A d \in Clients : p \notin PathsIn(k[d].edits)
      PROVE  ft[p] = InitFiles[p]
  <2>1. p \notin PathsIn(s.edits) /\ \A d \in Clients : p \notin PathsIn(h[d].edits)
    BY <1>1, <1>2, <1>5
  <2> QED
    BY <2>1 DEF RequestsInv
<1> QED
  BY <1>1, <1>3, <1>4, <1>5 DEF RequestsInv

\* The rest of the invariant, which is not about files.
RestOK ==
    /\ child \in [Clients -> Processes]
    /\ audit \subseteq Clients \X {"patch_applied", "tests_run",
                                   "run_command_executed", "run_command_denied"}
    /\ faults \in 0 .. MaxFaults
    /\ AuditedIsApplied

LEMMA WInvIs ==
    WInv <=> RequestsInv(handler, files) /\ RestOK
<1>1. \A c \in Clients :
          /\ PathsOf(c) = PathsIn(handler[c].edits)
          /\ After(c, handler[c].done) = World(handler[c])
          /\ Edit(c) = EditIn(handler[c])
  BY DEF PathsOf, PathsIn, After, World, Edit, EditIn
<1>2. \A c \in Clients : Undisturbed(c) <=> Apart(handler, c)
  BY <1>1 DEF Undisturbed, Apart
<1>3. Untouched <=> \A p \in Paths :
          (\A c \in Clients : p \notin PathsIn(handler[c].edits)) => files[p] = InitFiles[p]
  BY <1>1 DEF Untouched
<1>4. ASSUME NEW c \in Clients, handler[c] \in Requests, handler[c].done <= Len(handler[c].edits)
      PROVE  Held(handler[c]) <=>
        /\ At(c, "idle") => handler[c] = NoRequest
        /\ handler[c].at \notin {"fill", "error", "panic", "crashed"} => handler[c].open = {}
        /\ At(c, "fill") => handler[c].open = {Edit(c).path} /\ Edit(c).operation # "delete"
        /\ At(c, "write") \/ At(c, "fill") =>
               /\ HasEdit(c)
               /\ Edit(c).operation # "delete" => handler[c].next \in Seq(Lines)
  BY <1>1, <1>4 DEF Held, At, Writing, HasEdit
<1>5. ASSUME NEW c \in Clients
      PROVE  Exact(handler[c], files) <=>
        /\ \A p \in PathsOf(c) \ handler[c].open : files[p] = After(c, handler[c].done).files[p]
        /\ At(c, "write") \/ At(c, "fill") =>
             LET p == Edit(c).path
                 content == After(c, handler[c].done).files[p]
             IN  /\ "write" \in Outcomes(content, Edit(c))
                 /\ handler[c].next = NewContent(content, Edit(c))
                 /\ At(c, "fill") => files[p] = <<>>
        /\ After(c, handler[c].done) \in [files : [Paths -> Contents], net : Int]
        /\ Growth(c, handler[c].done) <= After(c, handler[c].done).net
        /\ handler[c].at \notin {"error", "panic", "crashed"} =>
               LET n == IF At(c, "write") \/ At(c, "fill") THEN handler[c].done + 1
                        ELSE handler[c].done
               IN  (handler[c].additions - handler[c].deletions - After(c, n).net)
                       % UsizeModulus = 0
  <2>1. After(c, handler[c].done) = World(handler[c])
        /\ After(c, handler[c].done).files[Edit(c).path] = Source(handler[c])
    BY <1>1 DEF Source
  <2>2. Growth(c, handler[c].done) <= After(c, handler[c].done).net
            <=> Bounded(handler[c], World(handler[c]))
    BY <1>1 DEF Growth, Bounded
  <2>3. After(c, handler[c].done + 1) = Effects(handler[c].edits)[handler[c].done + 1]
    BY DEF After
  <2> QED
    BY <1>1, <2>1, <2>2, <2>3 DEF Exact, At, Writing, Worlds, Balanced, Balance
<1> QED
  BY <1>2, <1>3, <1>4, <1>5
     DEF WInv, WTypeOK, PrefixApplied, InHand, StatsKept, RequestsInv, RestOK, Held

LEMMA WInvWillBe ==
    (WInv <=> RequestsInv(handler, files) /\ RestOK)'
  BY WInvIs, PTL

-----------------------------------------------------------------------------
(* The steps.                                                               *)

LEMMA NoRequestIs ==
    /\ NoRequest \in Requests /\ NoRequest.at = "idle" /\ NoRequest.edits = <<>>
    /\ NoRequest.done = 0 /\ NoRequest.open = {}
    /\ NoRequest.additions = 0 /\ NoRequest.deletions = 0
  BY PatchAssumption DEF NoRequest, Requests, HandlerStates, Contents

LEMMA WInitInv == WInit => WInv
<1> SUFFICES ASSUME WInit PROVE WInv
  OBVIOUS
<1>1. /\ NoRequest \in Requests /\ NoRequest.at = "idle" /\ NoRequest.edits = <<>>
      /\ NoRequest.done = 0 /\ NoRequest.open = {}
      /\ NoRequest.additions = 0 /\ NoRequest.deletions = 0
  BY NoRequestIs
<1>2. Held(NoRequest)
  BY <1>1 DEF Held, Writing
<1>3. Exact(NoRequest, InitFiles)
  <2>1. /\ World(NoRequest) \in Worlds
        /\ World(NoRequest).files = InitFiles /\ World(NoRequest).net = 0
    BY <1>1, FirstWorld DEF World
  <2>2. Bounded(NoRequest, World(NoRequest))
    <3>1. /\ PathsIn(<<>>) \subseteq Paths /\ IsFiniteSet(PathsIn(<<>>))
      BY PatchType
    <3>2. LineCount(InitFiles, PathsIn(<<>>)) \in Nat
      BY <3>1, LineCountType, WorkspaceAssumption
    <3> QED
      BY <1>1, <2>1, <3>2 DEF Bounded
  <2>3. Balanced(NoRequest, 0)
    <3>1. 0 % UsizeModulus = 0
      BY PatchAssumption
    <3> QED
      BY <1>1, <3>1 DEF Balanced, Balance
  <2> QED
    BY <1>1, <2>1, <2>2, <2>3 DEF Exact, Writing
<1>4. RequestsInv(handler, files)
  BY <1>1, <1>2, <1>3, WorkspaceAssumption DEF WInit, RequestsInv
<1>5. RestOK
  BY WorkspaceAssumption DEF WInit, RestOK, AuditedIsApplied, NoChild, Processes
<1> QED
  BY <1>4, <1>5, WInvIs

\* A step of one request keeps the audit trail right.
AuditMoves(c, s, kind) ==
    /\ handler[c].at # "ok" /\ handler' = [handler EXCEPT ![c] = s]
    /\ audit' \in {audit, audit \cup {<<c, kind>>}}
    /\ kind = "patch_applied" => s.at = "ok" /\ s.done = Len(s.edits)

LEMMA AuditStep ==
    ASSUME WInv, NEW c \in Clients, NEW s, NEW kind, AuditMoves(c, s, kind)
    PROVE  AuditedIsApplied'
<1> USE DEF AuditMoves
<1>1. AuditedIsApplied /\ handler \in [Clients -> Requests]
  BY DEF WInv, WTypeOK
<1>2. handler'[c] = s /\ \A d \in Clients : d # c => handler'[d] = handler[d]
  BY <1>1
<1>3. ASSUME NEW d \in Clients, <<d, "patch_applied">> \in audit'
      PROVE  handler'[d].at = "ok" /\ handler'[d].done = Len(handler'[d].edits)
  <2>1. CASE <<d, "patch_applied">> \in audit
    BY <1>1, <1>2, <2>1 DEF AuditedIsApplied
  <2>2. CASE <<d, "patch_applied">> \notin audit
    <3>1. d = c /\ kind = "patch_applied"
      BY <1>3, <2>2
    <3> QED
      BY <1>2, <3>1
  <2> QED
    BY <2>1, <2>2
<1> QED
  BY <1>3 DEF AuditedIsApplied

LEMMA AuditSame ==
    ASSUME WInv, NEW c \in Clients, handler[c].at # "ok",
           NEW s, handler' = [handler EXCEPT ![c] = s], UNCHANGED audit
    PROVE  AuditedIsApplied'
<1>1. AuditedIsApplied /\ handler \in [Clients -> Requests]
  BY DEF WInv, WTypeOK
<1>2. \A d \in Clients : d # c => handler'[d] = handler[d]
  BY <1>1
<1> QED
  BY <1>1, <1>2 DEF AuditedIsApplied

LEMMA GoToStep ==
    ASSUME WInv, NEW c \in Clients, NEW label \in Quiet \cup Failed, GoTo(c, label),
           label \in Quiet => ~ Writing(handler[c]) /\ handler[c].at \notin Failed,
           UNCHANGED files
    PROVE  /\ RequestsInv(handler', files')
           /\ handler' = [handler EXCEPT ![c] = GoesTo(handler[c], label)]
<1>1. RequestsInv(handler, files)
  BY WInvIs
<1>2. files \in [Paths -> Contents] /\ handler \in [Clients -> Requests] /\ Held(handler[c])
  BY <1>1 DEF RequestsInv
<1> PICK s : s = GoesTo(handler[c], label)
  OBVIOUS
<1>3. handler' = [handler EXCEPT ![c] = s]
  BY DEF GoTo, GoesTo
<1>4. Held(s)
  BY <1>2, GoesToHeld
<1>5. s.edits = handler[c].edits
  BY DEF GoesTo
<1>6. Apart(handler', c) => Exact(s, files)
  <2>1. Apart(handler', c) => Apart(handler, c)
    BY <1>2, <1>3, <1>5 DEF Apart
  <2> QED
    BY <1>1, <1>2, <2>1, GoesToExact DEF RequestsInv
<1>7. RequestsInv(handler', files)
  BY <1>1, <1>2, <1>3, <1>4, <1>5, <1>6, OneRequest
<1> QED
  BY <1>3, <1>7

LEMMA PatchApplyStep ==
    ASSUME WInv, NEW c \in Clients, NEW patch \in Patches, PatchApply(c, patch)
    PROVE  WInv'
<1>1. RequestsInv(handler, files) /\ RestOK
  BY WInvIs
<1>2. /\ files \in [Paths -> Contents] /\ handler \in [Clients -> Requests]
      /\ Held(handler[c]) /\ handler[c].at = "idle"
  BY <1>1 DEF RequestsInv, PatchApply, At
<1>3. handler[c] = NoRequest
  BY <1>2 DEF Held
<1>4. PICK label \in {"edit", "error"} :
          handler' = [handler EXCEPT ![c].at = label, ![c].edits = patch]
  BY DEF PatchApply
<1> PICK r, s : r = handler[c] /\ s = [r EXCEPT !.at = label, !.edits = patch]
  OBVIOUS
<1>5. handler' = [handler EXCEPT ![c] = s]
  BY <1>2, <1>4
<1>6. /\ s \in Requests /\ s.at = label /\ s.edits = patch /\ s.done = 0 /\ s.open = {}
      /\ s.additions = 0 /\ s.deletions = 0
  <2>1. r \in Requests /\ r.done = 0 /\ r.open = {} /\ r.additions = 0 /\ r.deletions = 0
    BY <1>3, NoRequestIs
  <2>2. /\ s \in Requests /\ s.at = label /\ s.edits = patch /\ s.done = r.done
        /\ s.open = r.open /\ s.additions = r.additions /\ s.deletions = r.deletions
    BY <2>1 DEF Requests, HandlerStates
  <2> QED
    BY <2>1, <2>2
<1>7. /\ Held(s)
      /\ (\A p \in PathsIn(patch) : files[p] = InitFiles[p]) => Exact(s, files)
  BY <1>6, Started
<1>8. handler[c].edits = <<>>
  BY <1>3, NoRequestIs
<1>9. ASSUME Apart(handler', c), NEW p \in PathsIn(patch) PROVE files[p] = InitFiles[p]
  <2>1. p \in Paths
    BY PatchType
  <2>2. \A d \in Clients : p \notin PathsIn(handler[d].edits)
    <3>1. p \notin PathsIn(handler[c].edits)
      BY <1>8 DEF PathsIn
    <3>2. ASSUME NEW d \in Clients, d # c PROVE p \notin PathsIn(handler[d].edits)
      BY <1>2, <1>5, <1>6, <1>9, <3>2 DEF Apart
    <3> QED
      BY <3>1, <3>2
  <2> QED
    BY <1>1, <2>1, <2>2 DEF RequestsInv
<1>10. RequestsInv(handler', files)
  BY <1>1, <1>2, <1>5, <1>7, <1>8, <1>9, OneRequest
<1>11. UNCHANGED <<files, child, audit, faults>>
  BY DEF PatchApply
<1>12. AuditedIsApplied'
  BY <1>2, <1>5, <1>11, AuditSame
<1>13. RestOK'
  BY <1>1, <1>11, <1>12 DEF RestOK
<1> QED
  BY <1>10, <1>11, <1>13, WInvWillBe

\* What the steps of one request have in common.
LEMMA RequestStep ==
    ASSUME WInv, NEW c \in Clients, NEW s, Held(s), handler' = [handler EXCEPT ![c] = s],
           s.edits = handler[c].edits, handler[c].at # "ok",
           files' \in [Paths -> Contents],
           \A p \in Paths : p \notin PathsIn(s.edits) => files'[p] = files[p],
           Exact(handler[c], files) => Exact(s, files'),
           UNCHANGED <<child, audit>>, faults' \in 0 .. MaxFaults
    PROVE  WInv'
<1>1. RequestsInv(handler, files) /\ RestOK
  BY WInvIs
<1>2. handler \in [Clients -> Requests]
  BY <1>1 DEF RequestsInv
<1>3. Apart(handler', c) => Exact(s, files')
  <2>1. Apart(handler', c) => Apart(handler, c)
    BY <1>2 DEF Apart
  <2> QED
    BY <1>1, <2>1 DEF RequestsInv
<1>4. RequestsInv(handler', files')
  BY <1>1, <1>3, OneRequest
<1>5. AuditedIsApplied'
  BY AuditSame
<1>6. RestOK'
  BY <1>1, <1>5 DEF RestOK
<1> QED
  BY <1>4, <1>6, WInvWillBe

LEMMA ReadEditStep ==
    ASSUME WInv, NEW c \in Clients, ReadEdit(c)
    PROVE  WInv'
<1>1. RequestsInv(handler, files) /\ RestOK
  BY WInvIs
<1> PICK r, content : r = handler[c] /\ content = files[EditIn(r).path]
  OBVIOUS
<1>2. /\ files \in [Paths -> Contents] /\ handler \in [Clients -> Requests]
      /\ Held(r) /\ r.at = "edit" /\ r.done < Len(r.edits)
  BY <1>1 DEF RequestsInv, ReadEdit, At, HasEdit
<1>3. Edit(c) = EditIn(r) /\ ReadFile(c) = content
  BY DEF Edit, EditIn, ReadFile
<1>4. EditRecord(EditIn(r)) /\ content \in Contents
  BY <1>2, EditInType
<1>5. PICK outcome \in Outcomes(content, EditIn(r)) \cup {"error"} :
          handler' = [handler EXCEPT ![c] =
              IF outcome # "write" THEN [@ EXCEPT !.at = outcome]
              ELSE HoldsRead(r, content)]
  BY <1>3 DEF ReadEdit, HoldsRead
<1>6. UNCHANGED <<files, child, audit, faults>> /\ faults' \in 0 .. MaxFaults
  BY <1>1 DEF ReadEdit, RestOK
<1>7. CASE outcome = "write"
  <2> PICK s : s = HoldsRead(r, content)
    OBVIOUS
  <2>1. handler' = [handler EXCEPT ![c] = s]
    BY <1>2, <1>5, <1>7
  <2>2. "write" \in Outcomes(content, EditIn(r))
    BY <1>5, <1>7
  <2>3. Held(s) /\ (Exact(r, files) => Exact(s, files))
    BY <1>2, <2>2, WasRead
  <2>4. s.edits = r.edits
    BY <1>2 DEF Requests, HoldsRead
  <2> QED
    BY <1>2, <1>6, <2>1, <2>3, <2>4, RequestStep
<1>8. CASE outcome # "write"
  <2>1. outcome \in Failed
    BY <1>4, <1>5, <1>8 DEF Outcomes, EditRecord, Failed
  <2> PICK s : s = GoesTo(r, outcome)
    OBVIOUS
  <2>2. handler' = [handler EXCEPT ![c] = s]
    BY <1>2, <1>5, <1>8 DEF GoesTo
  <2>3. outcome \notin Quiet
    BY <2>1 DEF Quiet, Failed
  <2>4. Held(s) /\ (Exact(r, files) => Exact(s, files)) /\ s.edits = r.edits
    BY <1>2, <2>1, <2>3, GoesToHeld, GoesToExact, GoesToProperties DEF GoesTo
  <2> QED
    BY <1>2, <1>6, <2>2, <2>4, RequestStep
<1> QED
  BY <1>7, <1>8

LEMMA WriteEditStep ==
    ASSUME WInv, NEW c \in Clients, WriteEdit(c)
    PROVE  WInv'
<1>1. RequestsInv(handler, files) /\ RestOK
  BY WInvIs
<1> PICK r : r = handler[c]
  OBVIOUS
<1>2. /\ files \in [Paths -> Contents] /\ handler \in [Clients -> Requests]
      /\ Held(r) /\ r.at = "write" /\ r.at # "ok" /\ Writing(r) /\ r.done < Len(r.edits)
  BY <1>1 DEF RequestsInv, WriteEdit, At, Held, Writing
<1>3. Edit(c) = EditIn(r)
  BY DEF Edit, EditIn
<1> PICK p : p = EditIn(r).path
  OBVIOUS
<1>4. p \in Paths /\ p \in PathsIn(r.edits)
  BY <1>2, EditInType
<1>5. UNCHANGED <<child, audit, faults>> /\ faults' \in 0 .. MaxFaults
  BY <1>1 DEF WriteEdit, RestOK
<1>6. CASE EditIn(r).operation # "delete"
  <2> PICK s : s = [r EXCEPT !.at = "fill", !.open = {p}]
    OBVIOUS
  <2>1. files' = [files EXCEPT ![p] = <<>>] /\ handler' = [handler EXCEPT ![c] = s]
    BY <1>2, <1>3, <1>6 DEF WriteEdit
  <2>2. Held(s) /\ (Exact(r, files) => Exact(s, files'))
    BY <1>2, <1>6, <2>1, Truncated
  <2>3. s.edits = r.edits
    BY <1>2 DEF Requests
  <2>4. /\ files' \in [Paths -> Contents]
        /\ \A q \in Paths : q \notin PathsIn(s.edits) => files'[q] = files[q]
    BY <1>2, <1>4, <2>1, <2>3 DEF Contents
  <2> QED
    BY <1>2, <1>5, <2>1, <2>2, <2>3, <2>4, RequestStep
<1>7. CASE EditIn(r).operation = "delete"
  <2>1. files' = [files EXCEPT ![p] = NoFile]
    BY <1>3, <1>7 DEF WriteEdit
  <2>2. /\ files' \in [Paths -> Contents] /\ files'[p] = NoFile
        /\ \A q \in Paths : q # p => files'[q] = files[q]
    BY <1>2, <1>4, <2>1 DEF Contents
  <2>3. \A q \in Paths : q \notin PathsIn(r.edits) => files'[q] = files[q]
    BY <1>4, <2>2
  <2>4. CASE files[p] = NoFile
    <3> PICK s : s = GoesTo(r, "error")
      OBVIOUS
    <3>1. handler' = [handler EXCEPT ![c] = s]
      BY <1>2, <1>3, <1>7, <2>4 DEF WriteEdit, GoesTo
    <3>2. "error" \in Failed /\ "error" \notin Quiet
      BY DEF Quiet, Failed
    <3>3. Held(s) /\ s.edits = r.edits
      BY <1>2, <3>2, GoesToHeld DEF GoesTo
    <3>4. Exact(r, files) => Exact(s, files)
      BY <1>2, <3>2, GoesToExact
    <3>5. files' = files
      BY <1>2, <2>1, <2>4
    <3> QED
      BY <1>2, <1>5, <2>2, <2>3, <3>1, <3>3, <3>4, <3>5, RequestStep
  <2>5. CASE files[p] # NoFile
    <3> PICK n \in Nat : n = r.done + 1
      BY <1>2, HeldType
    <3> PICK s : s = [r EXCEPT !.at = "edit", !.done = n]
      OBVIOUS
    <3>1. handler' = [handler EXCEPT ![c] = s]
      BY <1>2, <1>3, <1>7, <2>5 DEF WriteEdit
    <3>2. /\ s \in Requests /\ s.at = "edit" /\ s.edits = r.edits /\ s.done = r.done + 1
          /\ s.open = r.open /\ s.additions = r.additions /\ s.deletions = r.deletions
      <4>1. r \in Requests
        BY <1>2
      <4> QED
        BY <4>1 DEF Requests, HandlerStates
    <3>3. s.open = {}
      BY <1>2, <3>2 DEF Held
    <3>4. Held(s) /\ (Exact(r, files) /\ files'[p] = r.next => Exact(s, files'))
      <4>1. Stores(r, files, s, files')
        BY <1>2, <2>2, <3>2, <3>3 DEF Stores
      <4> QED
        BY <4>1, Stored
    <3>5. Exact(r, files) => r.next = NoFile
      BY <1>2, <1>7 DEF Exact, NewContent
    <3> QED
      BY <1>2, <1>5, <2>2, <2>3, <3>1, <3>2, <3>4, <3>5, RequestStep
  <2> QED
    BY <2>4, <2>5
<1> QED
  BY <1>6, <1>7

LEMMA FillFileStep ==
    ASSUME WInv, NEW c \in Clients, FillFile(c)
    PROVE  WInv'
<1>1. RequestsInv(handler, files) /\ RestOK
  BY WInvIs
<1> PICK r : r = handler[c]
  OBVIOUS
<1>2. /\ files \in [Paths -> Contents] /\ handler \in [Clients -> Requests]
      /\ Held(r) /\ r.at = "fill" /\ r.at # "ok" /\ Writing(r) /\ r.done < Len(r.edits)
  BY <1>1 DEF RequestsInv, FillFile, At, Held, Writing
<1>3. Edit(c) = EditIn(r)
  BY DEF Edit, EditIn
<1> PICK p : p = EditIn(r).path
  OBVIOUS
<1>4. p \in Paths /\ p \in PathsIn(r.edits) /\ r.next \in Contents
  BY <1>2, EditInType DEF Requests
<1>5. UNCHANGED <<child, audit, faults>> /\ faults' \in 0 .. MaxFaults
  BY <1>1 DEF FillFile, RestOK
<1> PICK label : label = IF p \in Outside THEN "error" ELSE "edit"
  OBVIOUS
<1> PICK n \in Nat : n = r.done + 1
  BY <1>2, HeldType
<1> PICK s : s = [r EXCEPT !.at = label, !.open = {}, !.done = n]
  OBVIOUS
<1>6. handler' = [handler EXCEPT ![c] = s]
  BY <1>2, <1>3 DEF FillFile
<1>7. /\ s \in Requests /\ s.at \in {"edit", "error"} /\ s.edits = r.edits
      /\ s.done = r.done + 1 /\ s.open = {}
      /\ s.additions = r.additions /\ s.deletions = r.deletions
  <2>1. label \in {"edit", "error"} /\ r \in Requests
    BY <1>2
  <2> QED
    BY <2>1 DEF Requests, HandlerStates
<1>8. files' = [files EXCEPT ![p] = IF files[p] = NoFile THEN NoFile ELSE r.next]
  BY <1>3 DEF FillFile
<1>9. /\ files' \in [Paths -> Contents]
      /\ files[p] # NoFile => files'[p] = r.next
      /\ \A q \in Paths : q # p => files'[q] = files[q]
  BY <1>2, <1>4, <1>8 DEF Contents
<1>10. Held(s) /\ (Exact(r, files) /\ files'[p] = r.next => Exact(s, files'))
  <2>1. Stores(r, files, s, files')
    BY <1>2, <1>7, <1>9 DEF Stores
  <2> QED
    BY <2>1, Stored
<1>11. Exact(r, files) => files'[p] = r.next
  <2>1. Exact(r, files) => files[p] = <<>>
    BY <1>2 DEF Exact
  <2>2. <<>> # NoFile
    <3>1. <<>> \in Seq(Lines)
      OBVIOUS
    <3> QED
      BY <3>1, PatchAssumption
  <2> QED
    BY <1>9, <2>1, <2>2
<1>12. \A q \in Paths : q \notin PathsIn(s.edits) => files'[q] = files[q]
  BY <1>4, <1>7, <1>9
<1> QED
  BY <1>2, <1>5, <1>6, <1>7, <1>9, <1>10, <1>11, <1>12, RequestStep

\* A step that only moves a request on, and may write to the audit trail.
LEMMA MovedOn ==
    ASSUME WInv, NEW c \in Clients, NEW label \in Quiet \cup Failed, GoTo(c, label),
           label \in Quiet => ~ Writing(handler[c]) /\ handler[c].at \notin Failed,
           handler[c].at # "ok", UNCHANGED files,
           NEW kind \in {"patch_applied", "tests_run", "run_command_executed",
                         "run_command_denied"},
           audit' \in {audit, audit \cup {<<c, kind>>}},
           kind = "patch_applied" =>
               label = "ok" /\ handler[c].done = Len(handler[c].edits),
           child' \in [Clients -> Processes], faults' \in 0 .. MaxFaults
    PROVE  WInv'
<1> PICK s : s = GoesTo(handler[c], label)
  OBVIOUS
<1>1. RequestsInv(handler', files') /\ handler' = [handler EXCEPT ![c] = s]
  BY GoToStep
<1>2. RestOK /\ handler[c] \in Requests
  BY WInvIs DEF RequestsInv
<1>3. s.at = label /\ s.edits = handler[c].edits /\ s.done = handler[c].done
  BY <1>2, GoesToProperties DEF Quiet, Failed, HandlerStates
<1>4. AuditedIsApplied'
  <2>1. kind = "patch_applied" => s.at = "ok" /\ s.done = Len(s.edits)
    BY <1>3
  <2>2. handler' = [handler EXCEPT ![c] = s]
    BY <1>1
  <2>3. AuditMoves(c, s, kind)
    BY <2>1, <2>2 DEF AuditMoves
  <2> QED
    BY <2>3, AuditStep
<1>5. audit' \subseteq Clients \X {"patch_applied", "tests_run",
                                  "run_command_executed", "run_command_denied"}
  BY <1>2 DEF RestOK
<1>6. RestOK'
  BY <1>4, <1>5 DEF RestOK
<1> QED
  BY <1>1, <1>6, WInvWillBe

LEMMA ChildType ==
    ASSUME WInv
    PROVE  child \in [Clients -> Processes] /\ faults \in 0 .. MaxFaults
           /\ handler \in [Clients -> Requests]
  BY DEF WInv, WTypeOK

LEMMA WriteFailsStep ==
    ASSUME WInv, NEW c \in Clients, WriteFails(c)
    PROVE  WInv'
<1> PICK kind : kind = "tests_run"
  OBVIOUS
<1>1. /\ GoTo(c, "error") /\ handler[c].at # "ok" /\ UNCHANGED files
      /\ "error" \in Failed /\ "error" \notin Quiet
      /\ audit' \in {audit, audit \cup {<<c, kind>>}} /\ kind # "patch_applied"
  BY DEF WriteFails, At, Failed, Quiet
<1>2. child' \in [Clients -> Processes] /\ faults' \in 0 .. MaxFaults
  BY ChildType, WorkspaceAssumption DEF WriteFails
<1> QED
  BY <1>1, <1>2, MovedOn

LEMMA AppliedStep ==
    ASSUME WInv, NEW c \in Clients, Applied(c)
    PROVE  WInv'
<1> PICK kind : kind = "patch_applied"
  OBVIOUS
<1>1. /\ GoTo(c, "ok") /\ handler[c].at # "ok" /\ UNCHANGED files
      /\ "ok" \in Quiet /\ ~ Writing(handler[c]) /\ handler[c].at \notin Failed
      /\ audit' \in {audit, audit \cup {<<c, kind>>}}
  BY DEF Applied, At, Failed, Quiet, Writing, Audited
<1>2. child' \in [Clients -> Processes] /\ faults' \in 0 .. MaxFaults
  BY ChildType DEF Applied
<1>3. handler[c].done = Len(handler[c].edits)
  <2>1. Held(handler[c])
    BY WInvIs DEF RequestsInv
  <2>2. handler[c].done \in 0 .. Len(handler[c].edits) /\ Len(handler[c].edits) \in Nat
    BY <2>1, HeldType
  <2>3. ~ (handler[c].done < Len(handler[c].edits))
    BY DEF Applied, HasEdit
  <2> QED
    BY <2>2, <2>3
<1> QED
  BY <1>1, <1>2, <1>3, MovedOn

\* The process of one request in a new state.
LEMMA ChildBecomes ==
    ASSUME WInv, NEW c \in Clients,
           NEW state \in {"none", "running", "ended", "reaped"},
           NEW waiter \in BOOLEAN, NEW killing \in BOOLEAN
    PROVE  /\ [child EXCEPT ![c].state = state] \in [Clients -> Processes]
           /\ [child EXCEPT ![c].state = state, ![c].waiter = waiter]
                  \in [Clients -> Processes]
           /\ [child EXCEPT ![c].killing = killing] \in [Clients -> Processes]
           /\ [child EXCEPT ![c].killing = killing, ![c].state = state]
                  \in [Clients -> Processes]
  BY ChildType DEF Processes

LEMMA TestsRunStep ==
    ASSUME WInv, NEW c \in Clients, TestsRun(c)
    PROVE  WInv'
<1> PICK kind : kind = "tests_run"
  OBVIOUS
<1> PICK label \in {"error", "tests"} : GoTo(c, label)
  BY DEF TestsRun
<1>1. /\ handler[c].at # "ok" /\ UNCHANGED files
      /\ label \in Quiet \cup Failed
      /\ ~ Writing(handler[c]) /\ handler[c].at \notin Failed
      /\ audit' \in {audit, audit \cup {<<c, kind>>}} /\ kind # "patch_applied"
  BY DEF TestsRun, At, Failed, Quiet, Writing
<1>2. child' \in [Clients -> Processes] /\ faults' \in 0 .. MaxFaults
  <2>1. child' = child \/ child' = [child EXCEPT ![c].state = "running"]
    BY DEF TestsRun
  <2>2. [child EXCEPT ![c].state = "running"] \in [Clients -> Processes]
    BY ChildBecomes
  <2> QED
    BY <2>1, <2>2, ChildType DEF TestsRun
<1> QED
  BY <1>1, <1>2, MovedOn

LEMMA TestsEndStep ==
    ASSUME WInv, NEW c \in Clients, TestsEnd(c)
    PROVE  WInv'
<1> PICK kind : kind = "tests_run"
  OBVIOUS
<1> PICK label \in {"ok", "panic"} : GoTo(c, label)
  BY DEF TestsEnd
<1>1. /\ handler[c].at # "ok" /\ UNCHANGED files
      /\ label \in Quiet \cup Failed
      /\ ~ Writing(handler[c]) /\ handler[c].at \notin Failed
      /\ audit' \in {audit, audit \cup {<<c, kind>>}} /\ kind # "patch_applied"
  BY DEF TestsEnd, At, Failed, Quiet, Writing, Audited
<1>2. child' \in [Clients -> Processes] /\ faults' \in 0 .. MaxFaults
  BY ChildType, ChildBecomes DEF TestsEnd
<1> QED
  BY <1>1, <1>2, MovedOn

LEMMA CommandRunStep ==
    ASSUME WInv, NEW c \in Clients, CommandRun(c)
    PROVE  WInv'
<1> PICK kind : kind = "run_command_denied"
  OBVIOUS
<1> PICK label \in {"denied", "error", "waiting"} : GoTo(c, label)
  BY DEF CommandRun
<1>1. /\ handler[c].at # "ok" /\ UNCHANGED files
      /\ label \in Quiet \cup Failed
      /\ ~ Writing(handler[c]) /\ handler[c].at \notin Failed
      /\ audit' \in {audit, audit \cup {<<c, kind>>}} /\ kind # "patch_applied"
  BY DEF CommandRun, At, Failed, Quiet, Writing, Audited
<1>2. child' \in [Clients -> Processes] /\ faults' \in 0 .. MaxFaults
  <2>1. \/ child' = child
        \/ child' = [child EXCEPT ![c].state = "running", ![c].waiter = TRUE]
    BY DEF CommandRun
  <2>2. [child EXCEPT ![c].state = "running", ![c].waiter = TRUE] \in [Clients -> Processes]
    BY ChildBecomes
  <2> QED
    BY <2>1, <2>2, ChildType DEF CommandRun
<1> QED
  BY <1>1, <1>2, MovedOn

LEMMA ReceivedStep ==
    ASSUME WInv, NEW c \in Clients, Received(c) \/ TimesOut(c)
    PROVE  WInv'
<1> PICK kind : kind = "run_command_executed"
  OBVIOUS
<1> PICK label \in {"ok", "timed_out"} : GoTo(c, label)
  BY DEF Received, TimesOut
<1>1. /\ handler[c].at # "ok" /\ UNCHANGED files
      /\ label \in Quiet \cup Failed
      /\ ~ Writing(handler[c]) /\ handler[c].at \notin Failed
      /\ audit' \in {audit, audit \cup {<<c, kind>>}} /\ kind # "patch_applied"
  BY DEF Received, TimesOut, At, Failed, Quiet, Writing, Audited
<1>2. child' \in [Clients -> Processes] /\ faults' \in 0 .. MaxFaults
  <2>1. child' = child \/ child' = [child EXCEPT ![c].killing = TRUE]
    BY DEF Received, TimesOut
  <2>2. [child EXCEPT ![c].killing = TRUE] \in [Clients -> Processes]
    BY ChildBecomes
  <2> QED
    BY <2>1, <2>2, ChildType DEF Received, TimesOut
<1> QED
  BY <1>1, <1>2, MovedOn

LEMMA ChildStep ==
    ASSUME WInv, NEW c \in Clients, ChildEnds(c) \/ WaiterReaps(c) \/ KillArrives(c)
    PROVE  WInv'
<1>1. RequestsInv(handler, files) /\ RestOK
  BY WInvIs
<1>2. UNCHANGED <<files, handler, audit, faults>>
  BY DEF ChildEnds, WaiterReaps, KillArrives
<1>3. child' \in [Clients -> Processes]
  <2>1. CASE ChildEnds(c)
    <3>1. [child EXCEPT ![c].state = "ended"] \in [Clients -> Processes]
      BY ChildBecomes
    <3> QED
      BY <2>1, <3>1 DEF ChildEnds
  <2>2. CASE WaiterReaps(c)
    <3>1. [child EXCEPT ![c].state = "reaped", ![c].waiter = FALSE] \in [Clients -> Processes]
      BY ChildBecomes
    <3> QED
      BY <2>2, <3>1 DEF WaiterReaps
  <2>3. CASE KillArrives(c)
    <3>1. child[c].state \in {"none", "running", "ended", "reaped"}
      BY ChildType DEF Processes
    <3>2. PICK state \in {"none", "running", "ended", "reaped"} :
              child' = [child EXCEPT ![c].killing = FALSE, ![c].state = state]
      BY <2>3, <3>1 DEF KillArrives
    <3>3. [child EXCEPT ![c].killing = FALSE, ![c].state = state] \in [Clients -> Processes]
      BY ChildBecomes
    <3> QED
      BY <3>2, <3>3
  <2> QED
    BY <2>1, <2>2, <2>3
<1>4. RestOK'
  BY <1>1, <1>2, <1>3 DEF RestOK, AuditedIsApplied
<1> QED
  BY <1>1, <1>2, <1>4, WInvWillBe

LEMMA CrashStep ==
    ASSUME WInv, Crash
    PROVE  WInv'
<1>1. RequestsInv(handler, files) /\ RestOK
  BY WInvIs
<1>2. /\ handler \in [Clients -> Requests] /\ files' = files /\ audit' = audit
      /\ faults' \in 0 .. MaxFaults
  BY <1>1, WorkspaceAssumption DEF RequestsInv, RestOK, Crash
<1>3. ASSUME NEW c \in Clients
      PROVE  handler'[c] = IF Active(c) THEN GoesTo(handler[c], "crashed") ELSE handler[c]
  BY DEF Crash, GoesTo
<1>4. "crashed" \in Failed /\ "crashed" \notin Quiet /\ "crashed" \in HandlerStates
  BY DEF Failed, Quiet, HandlerStates
<1>5. ASSUME NEW c \in Clients
      PROVE  handler'[c] \in Requests /\ handler'[c].edits = handler[c].edits
             /\ Held(handler'[c])
             /\ (Exact(handler[c], files) => Exact(handler'[c], files))
             /\ (~ Active(c) => handler'[c] = handler[c])
  <2>1. Held(handler[c]) /\ handler[c] \in Requests
    BY <1>1, <1>2 DEF RequestsInv
  <2> PICK s : s = GoesTo(handler[c], "crashed")
    OBVIOUS
  <2>2. s \in Requests /\ s.edits = handler[c].edits
    BY <1>4, <2>1, GoesToProperties
  <2>3. Held(s)
    BY <1>4, <2>1, GoesToHeld
  <2>4. Exact(handler[c], files) => Exact(s, files)
    BY <1>4, <2>1, GoesToExact
  <2> QED
    BY <1>3, <2>1, <2>2, <2>3, <2>4
<1>6. handler' \in [Clients -> Requests]
  <2>1. handler' = [c \in Clients |-> handler'[c]]
    BY DEF Crash
  <2> QED
    BY <1>5, <2>1
<1>7. \A c \in Clients : Apart(handler', c) => Apart(handler, c)
  BY <1>5 DEF Apart
<1>8. RequestsInv(handler', files')
  BY <1>1, <1>2, <1>5, <1>6, <1>7 DEF RequestsInv
<1>9. child' \in [Clients -> Processes]
  BY ChildType DEF Crash, Processes
<1>10. AuditedIsApplied'
  <2>1. ASSUME NEW c \in Clients, <<c, "patch_applied">> \in audit'
        PROVE  handler'[c].at = "ok" /\ handler'[c].done = Len(handler'[c].edits)
    <3>1. handler[c].at = "ok" /\ handler[c].done = Len(handler[c].edits)
      BY <1>1, <1>2, <2>1 DEF RestOK, AuditedIsApplied
    <3>2. ~ Active(c)
      BY <3>1 DEF Active
    <3> QED
      BY <1>5, <3>1, <3>2
  <2> QED
    BY <2>1 DEF AuditedIsApplied
<1>11. RestOK'
  BY <1>1, <1>2, <1>9, <1>10 DEF RestOK
<1> QED
  BY <1>8, <1>11, WInvWillBe

LEMMA WNextInv == WInv /\ [WNext]_wvars => WInv'
<1> SUFFICES ASSUME WInv, [WNext]_wvars PROVE WInv'
  OBVIOUS
<1>1. CASE UNCHANGED wvars
  <2>1. RequestsInv(handler, files) /\ RestOK
    BY WInvIs
  <2>2. RequestsInv(handler', files') /\ RestOK'
    BY <1>1, <2>1 DEF wvars, RestOK, AuditedIsApplied
  <2> QED
    BY <2>2, WInvWillBe
<1>2. CASE Crash
  BY <1>2, CrashStep
<1>3. ASSUME NEW c \in Clients, \E patch \in Patches : PatchApply(c, patch) PROVE WInv'
  BY <1>3, PatchApplyStep
<1>4. ASSUME NEW c \in Clients, PatchStep(c) PROVE WInv'
  BY <1>4, ReadEditStep, WriteEditStep, FillFileStep, AppliedStep DEF PatchStep
<1>5. ASSUME NEW c \in Clients, CommandStep(c) PROVE WInv'
  BY <1>5, TestsEndStep, ReceivedStep DEF CommandStep
<1> QED
  BY <1>1, <1>2, <1>3, <1>4, <1>5, WriteFailsStep, TestsRunStep, CommandRunStep, ChildStep
     DEF WNext

\* However a patch.apply ends - all edits done, refused or panicking in the middle, a
\* write failing, the daemon killed - the files that only it names hold what a prefix
\* of its edits makes of them, but for the one being written; what it holds for that
\* one is what its edit makes of what is there; its statistics are the sum over those
\* edits; and the audit trail calls a patch applied only when all of it was.
THEOREM PatchesHold == WSpec => []WInv
<1> QED
  BY WInitInv, WNextInv, PTL DEF WSpec

\* Within what a signed number can hold, diff_stats bound the growth of the workspace,
\* though each of the two totals may have wrapped.
THEOREM StatsHold == WSpec => []StatsBoundGrowth
<1>1. WInv => StatsBoundGrowth
  <2> SUFFICES ASSUME WInv, NEW c \in Clients, handler[c].at = "ok", Undisturbed(c),
                      After(c, handler[c].done).net
                          \in - (UsizeModulus \div 2) .. (UsizeModulus \div 2) - 1
               PROVE  LineCount(files, PathsOf(c)) - LineCount(InitFiles, PathsOf(c))
                          <= Signed(handler[c].additions - handler[c].deletions)
    BY DEF StatsBoundGrowth
  <2> PICK r, S, k, net : /\ r = handler[c] /\ S = PathsIn(r.edits)
                          /\ k = r.additions - r.deletions /\ net = World(r).net
    OBVIOUS
  <2>1. /\ RequestsInv(handler, files) /\ Apart(handler, c)
        /\ PathsOf(c) = S /\ After(c, handler[c].done) = World(r)
    BY WInvIs DEF Undisturbed, Apart, PathsOf, PathsIn, After, World
  <2>2. Held(r) /\ Exact(r, files) /\ files \in [Paths -> Contents]
    BY <2>1 DEF RequestsInv
  <2>3. r.edits \in Patches \cup {<<>>} /\ S \subseteq Paths /\ IsFiniteSet(S) /\ k \in Int
    BY <2>2, HeldType, PatchType
  <2>4. Signed(k) = net
    <3>1. net \in - (UsizeModulus \div 2) .. (UsizeModulus \div 2) - 1
      BY <2>1
    <3>2. (k - net) % UsizeModulus = 0
      BY <2>2 DEF Exact, Balanced, Balance
    <3> QED
      BY <2>3, <3>1, <3>2, SignedIs, PatchAssumption
  <2>5. LineCount(files, S) = LineCount(World(r).files, S)
    <3>1. World(r).files \in [Paths -> Contents] /\ r.open = {}
      BY <2>2 DEF Exact, Worlds, Held
    <3>2. \A q \in S : World(r).files[q] \in Contents /\ files[q] = World(r).files[q]
      BY <2>2, <2>3, <3>1 DEF Exact
    <3> QED
      BY <2>3, <3>2, LineCountSame
  <2>6. LineCount(World(r).files, S) - LineCount(InitFiles, S) <= net
    BY <2>2 DEF Exact, Bounded
  <2> QED
    BY <2>1, <2>4, <2>5, <2>6
<1> QED
  BY <1>1, PatchesHold, PTL

\* What the audit trail promises to its reader: a patch that it calls applied has had
\* the whole of its effect, on every file that no other request names.
AuditedIsWhole ==
    \A c \in Clients : <<c, "patch_applied">> \in audit /\ Undisturbed(c) =>
        \A p \in PathsOf(c) : files[p] = After(c, Len(handler[c].edits)).files[p]

\* An audited patch has had the whole of its effect.
THEOREM AuditTells == WSpec => []AuditedIsWhole
<1>1. WInv => AuditedIsWhole
  <2> SUFFICES ASSUME WInv, NEW c \in Clients, <<c, "patch_applied">> \in audit, Undisturbed(c),
                      NEW p \in PathsOf(c)
               PROVE  files[p] = After(c, Len(handler[c].edits)).files[p]
    BY DEF AuditedIsWhole
  <2>1. handler[c].at = "ok" /\ handler[c].done = Len(handler[c].edits)
    BY DEF WInv, AuditedIsApplied
  <2>2. handler[c].open = {}
    BY <2>1 DEF WInv, InHand
  <2> QED
    BY <2>1, <2>2 DEF WInv, PrefixApplied
<1> QED
  BY <1>1, PatchesHold, PTL

=============================================================================
