------------------------------- MODULE Chunker -------------------------------
(***************************************************************************)
(* How a file is cut into the chunks of the project index                  *)
(* (memory/index/chunker.go), and how its contents are put together again  *)
(* from them (store/project_chunks.go).  A file is its number of lines,    *)
(* whether its language is one whose declarations are looked for, and the  *)
(* lines (from 0) where a declaration starts.  A chunk is a range of lines *)
(* (from 1).                                                               *)
(***************************************************************************)
EXTENDS Naturals, Sequences, FiniteSets, SequencesExt

CONSTANTS
    MaxLines,     \* target size of a chunk
    OverlapLines  \* lines two chunks next to each other share

ASSUME ChunkerAssumption ==
    /\ MaxLines \in Nat \ {0}
    /\ OverlapLines \in 0..(MaxLines - 1)

IsFile(f) == f.lines \in Nat /\ f.code \in BOOLEAN /\ f.marks \subseteq 0..(f.lines - 1)

Smaller(a, b) == IF a < b THEN a ELSE b
Stride == MaxLines - OverlapLines

Ascending(S) ==
    [i \in 1..Cardinality(S) |-> CHOOSE x \in S : Cardinality({y \in S : y < x}) = i - 1]

\* A slice starts every Stride lines, though the one before may reach the end.
Slices(start, end) ==
    [i \in 1..((end - start + Stride - 1) \div Stride) |->
        [from |-> start + (i - 1) * Stride + 1,
         to   |-> Smaller(start + (i - 1) * Stride + MaxLines, end)]]

\* A section between two declarations is one chunk unless it is twice too long.
Section(start, end) ==
    IF end - start > 2 * MaxLines THEN Slices(start, end)
    ELSE <<[from |-> start + 1, to |-> end]>>

ChunkWithBoundaries(f) ==
    LET cuts == Ascending({0, f.lines} \cup f.marks) IN
    FlattenSeq([i \in 1..(Len(cuts) - 1) |-> Section(cuts[i], cuts[i + 1])])

ChunkFile(f) ==
    IF f.lines = 0 THEN <<>>
    ELSE IF f.code /\ f.marks # {} THEN ChunkWithBoundaries(f)
    ELSE Slices(0, f.lines)

\* The rows of a file in the order of start_line; those that are equal, which only
\* rows that were upset have, in the order of insertion.
ByStartLine(chunks) ==
    LET Before(i, j) == \/ chunks[i].from < chunks[j].from
                        \/ chunks[i].from = chunks[j].from /\ i < j
    IN  [k \in DOMAIN chunks |->
            chunks[CHOOSE i \in DOMAIN chunks :
                      Cardinality({j \in DOMAIN chunks : Before(j, i)}) = k - 1]]

\* The lines of one after those of the other.
Contents(chunks) ==
    LET sorted == ByStartLine(chunks) IN
    FlattenSeq([i \in DOMAIN sorted |->
        [j \in 1..(sorted[i].to - sorted[i].from + 1) |->
            [version |-> sorted[i].version, line |-> sorted[i].from + j - 1]]])

\* Every line of a file is in a chunk, in order, and a chunk of a long section is
\* no longer than MaxLines.
Covers(f) ==
    LET c == ChunkFile(f) IN
    /\ UNION {c[i].from..c[i].to : i \in DOMAIN c} = 1..f.lines
    /\ \A i \in DOMAIN c : i > 1 => c[i - 1].from < c[i].from /\ c[i].from <= c[i - 1].to + 1
    /\ \A i \in DOMAIN c : c[i].to - c[i].from < 2 * MaxLines
=============================================================================
