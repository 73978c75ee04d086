------------------------------ MODULE FlatText ------------------------------
(***************************************************************************)
(* A text as the editor's callers see it: one sequence of code points,     *)
(* addressed by an offset 0..Len or by a line and a column.  These are     *)
(* the answers RopeBuffer promises; module Rope shows that its tree gives  *)
(* them, and module Editor is built on them.                               *)
(*                                                                         *)
(* A code point is a string.  Only the ones some rule tells apart have a   *)
(* name here: the line feed, the carriage return, the space and the tab.   *)
(***************************************************************************)
EXTENDS Integers, Sequences, FiniteSets, SequencesExt

NL == "nl"
CR == "cr"
SP == "sp"
TAB == "tab"

NewlinesBefore(t, p) == Cardinality({i \in 1..p : t[i] = NL})

LineCount(t) == NewlinesBefore(t, Len(t)) + 1

LineStart(t, row) ==
    CHOOSE p \in 0..Len(t) :
        /\ NewlinesBefore(t, p) = row
        /\ p = 0 \/ t[p] = NL

LineEnd(t, row) ==
    CHOOSE p \in 0..Len(t) :
        /\ NewlinesBefore(t, p) = row
        /\ p = Len(t) \/ t[p + 1] = NL

LineLen(t, row) == IF row < LineCount(t) THEN LineEnd(t, row) - LineStart(t, row) ELSE 0

Line(t, row) ==
    IF row < LineCount(t) THEN SubSeq(t, LineStart(t, row) + 1, LineEnd(t, row)) ELSE <<>>

\* A column past the end of its line is the end of the line, a line past the
\* last one is the end of the text.
Offset(t, pos) ==
    IF pos[1] < LineCount(t)
    THEN LineStart(t, pos[1]) + (IF pos[2] < LineLen(t, pos[1]) THEN pos[2] ELSE LineLen(t, pos[1]))
    ELSE Len(t)

PosOf(t, p) ==
    LET row == NewlinesBefore(t, p) IN <<row, p - LineStart(t, row)>>

\* The positions that address the text without being moved by Offset.
Positions(t) == {PosOf(t, p) : p \in 0..Len(t)}

WithInserted(t, p, u) == SubSeq(t, 1, p) \o u \o SubSeq(t, p + 1, Len(t))

WithoutRange(t, p, n) == SubSeq(t, 1, p) \o SubSeq(t, p + n + 1, Len(t))

\* The elements of u at the indices I, in order.
Picked(u, I) ==
    LET UpTo(i) == Cardinality({j \in I : j <= i})
    IN [k \in 1..Cardinality(I) |-> u[CHOOSE i \in I : UpTo(i) = k]]

\* str::replace("\r\n", "\n")
CrLfToNl(u) == Picked(u, {i \in DOMAIN u : ~(u[i] = CR /\ i < Len(u) /\ u[i + 1] = NL)})

\* What the rope makes of the bytes it is given: every CR LF and every CR that
\* stands alone is one line feed.
CodePoints(u) ==
    LET v == CrLfToNl(u) IN [i \in DOMAIN v |-> IF v[i] = CR THEN NL ELSE v[i]]

=============================================================================
