------------------------------- MODULE Editor -------------------------------
(***************************************************************************)
(* One window of bedit, iGui's program editor (igui/bedit.rs): the text,   *)
(* the cursor and selection, the undo journal, the find and replace        *)
(* prompt, the file and the diagnostics.  The buffer answers as FlatText   *)
(* says, which module Rope shows of the tree that holds it.                *)
(*                                                                         *)
(* ed is ReditState as far as edits change it.  An edit is an operator     *)
(* from one ed to the next, because the code chains them: a replacement is *)
(* a deletion and an insertion, and replace_all a loop of those.  The dirty *)
(* mark is left out: only the title shows it, and a save changes nothing   *)
(* else.                                                                   *)
(*                                                                         *)
(* Three fields exist only here: a journal entry keeps the text before and *)
(* after its edit (was, now), and strayed is set by the three steps after  *)
(* which the journal no longer fits the text (README).  aborted is the     *)
(* process gone: a search has panicked.                                    *)
(*                                                                         *)
(* The buffer counts characters, the searches count bytes of UTF-8, and of *)
(* the text in lower case unless the search is case-sensitive.  A character *)
(* has a width in bytes and one character for its lower case.              *)
(***************************************************************************)
EXTENDS FlatText

CONSTANTS
    Typed,        \* the characters typed
    Clips,        \* the texts the clipboard may hold
    Files,        \* the contents of the files that may be opened
    Patterns,     \* what the fields of the prompt may hold: no control code
    Replacements, \* and no line end gets into them
    Widths,       \* the widths in bytes of the characters that have not one byte
    LowerCase,    \* the lower case of the characters that have one
    Spots,        \* where a diagnostic may be, as <<line, column>> from 0
    VisibleRows,  \* rows of a page
    TabWidth,     \* TAB_WIDTH and the step of auto_indent, both 2 in the code
    UndoCap,      \* UNDO_CAP, 1024 in the code
    MaxSize       \* bound on the text and the journal entries together

ASSUME EditorAssumption ==
    /\ UndoCap \in Nat \ {0} /\ VisibleRows \in Nat \ {0} /\ TabWidth \in Nat \ {0}
    /\ MaxSize \in Nat
    /\ Typed \subseteq STRING \ {NL, CR, TAB}
    /\ Clips \union Files \union Patterns \union Replacements \subseteq Seq(STRING)
    /\ \A u \in Clips \union Patterns : u # <<>>
    /\ \A u \in Patterns \union Replacements : {NL, CR} \intersect Range(u) = {}
    /\ Spots \subseteq Nat \X Nat
    /\ Widths \in [DOMAIN Widths -> 1..4]
    /\ LowerCase \in [DOMAIN LowerCase -> STRING]

OPEN == "open"      \* a block opener: { or $(
CLOSE == "close"    \* } or $)
DO == "do"          \* a word that opens a block at the end of a line: DO, THEN, ELSE, BE
DEL == "del"        \* what Ctrl+Backspace types

VARIABLES
    ed,         \* the text and what edits change with it
    prompt      \* the find prompt is open

vars == <<ed, prompt>>

---------------------------------------------------------------------------
\* Positions and selection.

Before(p, q) == p[1] < q[1] \/ (p[1] = q[1] /\ p[2] < q[2])

HasSelection(e) == e.cursor # e.anchor

SelStart(e) == IF Before(e.anchor, e.cursor) THEN e.anchor ELSE e.cursor

SelEnd(e) == IF Before(e.anchor, e.cursor) THEN e.cursor ELSE e.anchor

Between(t, p, q) == SubSeq(t, Offset(t, p) + 1, Offset(t, q))

Collapse(e, p) == [e EXCEPT !.cursor = p, !.anchor = p]

SetCursor(e, p, extend) ==
    [e EXCEPT !.cursor = p, !.anchor = IF extend THEN @ ELSE p, !.coalesce = "none"]

---------------------------------------------------------------------------
\* Splicing.

SpliceIn(e, pos, u) ==
    IF CrLfToNl(u) = <<>> THEN e
    ELSE [e EXCEPT !.text = WithInserted(@, Offset(@, pos), CodePoints(CrLfToNl(u)))]

\* A carriage return without a line feed: a line of its own to the buffer, a
\* character of its line to EndOf.
LoneReturn(u) == CR \in Range(CrLfToNl(u))

\* fault: the end counted in characters, whatever lines the text has.
EndOfOneLine(pos, u) == <<pos[1], pos[2] + Len(CrLfToNl(u))>>

\* Where the insertion ends, counted from the inserted text alone.
EndOf(pos, u) ==
    LET n == CrLfToNl(u)
        last == LineCount(n) - 1
    IN <<pos[1] + last, (IF last = 0 THEN pos[2] ELSE 0) + LineLen(n, last)>>

SpliceOut(e, start, end) ==
    IF start = end THEN e
    ELSE LET lo == Offset(e.text, start)
             hi == Offset(e.text, end)
         IN [e EXCEPT !.text = WithoutRange(@, lo, Max({hi - lo, 0}))]

---------------------------------------------------------------------------
\* The journal.

Entry(kind, start, end, text, before, after, was, now) ==
    [kind |-> kind, start |-> start, end |-> end, text |-> text,
     cursor_before |-> before, cursor_after |-> after, was |-> was, now |-> now]

\* fault: the full journal gives up its newest entry.
PushUndoDropsNewest(e, op) ==
    LET s == Append(e.undo, op) IN [e EXCEPT !.undo = IF Len(s) > UndoCap THEN Front(s) ELSE s]

PushUndo(e, op) ==
    LET s == Append(e.undo, op) IN [e EXCEPT !.undo = IF Len(s) > UndoCap THEN Tail(s) ELSE s]

DeleteSelection(e) ==
    IF ~HasSelection(e) THEN e
    ELSE LET start == SelStart(e)
             removed == Between(e.text, start, SelEnd(e))
             d == Collapse(SpliceOut(e, start, SelEnd(e)), start)
         IN PushUndo([d EXCEPT !.coalesce = "none"],
                     Entry("Deleted", start, start, removed, e.cursor, start, e.text, d.text))

Extends(e, kind, co) == e.coalesce = co /\ e.undo # <<>> /\ Last(e.undo).kind = kind

\* The entry of typed characters with those typed behind them.
LongerEntry(op, end, u, now) ==
    [op EXCEPT !.text = @ \o u, !.end = end, !.cursor_after = end, !.now = now]

DoInsert(e0, u, co) ==
    LET e == DeleteSelection(e0)
        start == e.cursor
        end == EndOf(start, u)
        d == SpliceIn(e, start, u)
        f == [Collapse(d, end) EXCEPT
                !.redo = <<>>, !.coalesce = co,
                !.strayed = @ \/ LoneReturn(u)]
    IN IF co = "Insert" /\ Extends(e, "Inserted", "Insert") /\ Last(e.undo).end = start
       THEN [f EXCEPT !.undo[Len(e.undo)] = LongerEntry(Last(e.undo), end, u, d.text)]
       ELSE PushUndo(f, Entry("Inserted", start, end, u, start, end, e.text, d.text))

Undo(e) ==
    IF e.undo = <<>> THEN e
    ELSE LET op == Last(e.undo)
             d == IF op.kind = "Inserted" THEN SpliceOut(e, op.start, op.end)
                  ELSE SpliceIn(e, op.start, op.text)
         IN [Collapse(d, op.cursor_before) EXCEPT
                !.coalesce = "none",
                !.undo = Front(@), !.redo = Append(@, op)]

\* A deletion is redone by inserting its text once more.
Redo(e) ==
    IF e.redo = <<>> THEN e
    ELSE LET op == Last(e.redo)
         IN [Collapse(SpliceIn(e, op.start, op.text), op.cursor_after) EXCEPT
                !.coalesce = "none",
                !.redo = Front(@), !.undo = Append(@, op),
                !.strayed = @ \/ op.kind = "Deleted"]

---------------------------------------------------------------------------
\* The edits of the keys.

InsertChar(e, c) == DoInsert(e, <<c>>, "Insert")

InsertStr(e, u) == IF u = <<>> THEN e ELSE DoInsert(e, u, "none")

Blanks(n) == [i \in 1..n |-> SP]

\* The leading blanks of the line, and TabWidth more inside a block or behind
\* a word that opens one.
AutoIndent(e) ==
    LET line == Line(e.text, e.cursor[1])
        left == SubSeq(line, 1, Min({e.cursor[2], Len(line)}))
        indent == CHOOSE n \in 0..Len(line) :
                      /\ \A i \in 1..n : line[i] \in {SP, TAB}
                      /\ n = Len(line) \/ line[n + 1] \notin {SP, TAB}
        opened == Len(SelectSeq(left, LAMBDA c : c = OPEN))
        closed == Len(SelectSeq(left, LAMBDA c : c = CLOSE))
        words == SelectSeq(left, LAMBDA c : c \notin {SP, TAB})
        within == opened > closed \/ (words # <<>> /\ Last(words) = DO)
    IN SubSeq(line, 1, indent) \o (IF within THEN Blanks(TabWidth) ELSE <<>>)

InsertNewline(e) == DoInsert(e, <<NL>> \o AutoIndent(e), "none")

\* Spaces up to the next tab stop of the screen.
SoftTab(e) ==
    LET line == Line(e.text, e.cursor[1])
        left == SubSeq(line, 1, Min({e.cursor[2], Len(line)}))
        ToStop(d) == TabWidth - (d % TabWidth)
        column == FoldLeft(LAMBDA d, c : d + (IF c = TAB THEN ToStop(d) ELSE 1), 0, left)
    IN InsertStr(e, Blanks(ToStop(column)))

\* One place back or forward, over a line's end.
Back(t, p) ==
    IF p[2] > 0 THEN <<p[1], p[2] - 1>>
    ELSE IF p[1] > 0 THEN <<p[1] - 1, LineLen(t, p[1] - 1)>> ELSE p

Forth(t, p) ==
    IF p[2] < LineLen(t, p[1]) THEN <<p[1], p[2] + 1>>
    ELSE IF p[1] + 1 < LineCount(t) THEN <<p[1] + 1, 0>> ELSE p

\* fault: the undone edits stay after the cut.
DeleteSelectedKeepsRedo(e) == DeleteSelection(e)

DeleteSelected(e) == [DeleteSelection(e) EXCEPT !.redo = <<>>]

\* The entry of deleted characters with those deleted before them.
EarlierEntry(op, start, removed, now) ==
    [op EXCEPT !.text = removed \o @, !.start = start, !.end = start,
               !.cursor_after = start, !.now = now]

Backspace(e) ==
    IF HasSelection(e) THEN DeleteSelected(e)
    ELSE IF e.cursor = <<0, 0>> THEN e
    ELSE LET start == Back(e.text, e.cursor)
             end == e.cursor
             removed == Between(e.text, start, end)
             d == [Collapse(SpliceOut(e, start, end), start) EXCEPT
                     !.redo = <<>>, !.coalesce = "Backspace"]
         IN IF Extends(e, "Deleted", "Backspace") /\ Last(e.undo).start = end
            THEN [d EXCEPT !.undo[Len(e.undo)] = EarlierEntry(Last(e.undo), start, removed, d.text)]
            ELSE PushUndo(d, Entry("Deleted", start, start, removed, end, start, e.text, d.text))

DeleteForward(e) ==
    IF HasSelection(e) THEN DeleteSelected(e)
    ELSE LET start == e.cursor
             end == Forth(e.text, start)
             removed == Between(e.text, start, end)
             d == [SpliceOut(e, start, end) EXCEPT
                     !.redo = <<>>, !.coalesce = "none"]
         IN IF end = start THEN e
            ELSE PushUndo(d, Entry("Deleted", start, start, removed, start, start, e.text, d.text))

---------------------------------------------------------------------------
\* Moving.  extend is the Shift key.

MoveLeft(e, extend) ==
    IF ~extend /\ HasSelection(e) THEN SetCursor(e, SelStart(e), FALSE)
    ELSE SetCursor(e, Back(e.text, e.cursor), extend)

MoveRight(e, extend) ==
    IF ~extend /\ HasSelection(e) THEN SetCursor(e, SelEnd(e), FALSE)
    ELSE SetCursor(e, Forth(e.text, e.cursor), extend)

IsWordChar(t, p) == p[2] < LineLen(t, p[1]) /\ Line(t, p[1])[p[2] + 1] \notin {SP, TAB, OPEN, CLOSE}

WordOffsets(t) == {o \in 0..Len(t) : IsWordChar(t, PosOf(t, o))}

\* Back over what is between words, to the start of the word before that.
WordStart(t, o) ==
    LET words == WordOffsets(t)
        before == {q \in words : q < o}
    IN IF before = {} THEN 0 ELSE Min({q \in 0..o : q..Max(before) \subseteq words})

\* On over the rest of a word, to the start of the next one.
NextWord(t, o) ==
    LET words == WordOffsets(t)
    IN Min({Len(t)} \union {q \in words : q > o /\ q - 1 \notin words})

MoveWordLeft(e, extend) ==
    IF ~extend /\ HasSelection(e) THEN SetCursor(e, SelStart(e), FALSE)
    ELSE SetCursor(e, PosOf(e.text, WordStart(e.text, Offset(e.text, e.cursor))), extend)

MoveWordRight(e, extend) ==
    IF ~extend /\ HasSelection(e) THEN SetCursor(e, SelEnd(e), FALSE)
    ELSE SetCursor(e, PosOf(e.text, NextWord(e.text, Offset(e.text, e.cursor))), extend)

\* To a row: the preferred column, which only these moves read, is not kept,
\* so any column of the row is possible.
ToRow(e, row, extend) == {SetCursor(e, <<row, c>>, extend) : c \in 0..LineLen(e.text, row)}

LastRow(e) == LineCount(e.text) - 1

MoveUp(e, extend) == IF e.cursor[1] = 0 THEN {e} ELSE ToRow(e, e.cursor[1] - 1, extend)

MoveDown(e, extend) == IF e.cursor[1] >= LastRow(e) THEN {e} ELSE ToRow(e, e.cursor[1] + 1, extend)

PageUp(e, extend) == ToRow(e, Max({e.cursor[1] - VisibleRows, 0}), extend)

PageDown(e, extend) == ToRow(e, Min({e.cursor[1] + VisibleRows, LastRow(e)}), extend)

MoveHome(e, extend) == SetCursor(e, <<e.cursor[1], 0>>, extend)

MoveEnd(e, extend) == SetCursor(e, <<e.cursor[1], LineLen(e.text, e.cursor[1])>>, extend)

SelectAll(e) ==
    LET end == <<LastRow(e), LineLen(e.text, LastRow(e))>>
    IN [e EXCEPT !.anchor = <<0, 0>>, !.cursor = end, !.coalesce = "none"]

\* The place nearest to a line and column that may have gone.
Clamped(e, spot) ==
    LET row == Min({spot[1], LastRow(e)}) IN <<row, Min({spot[2], LineLen(e.text, row)})>>

---------------------------------------------------------------------------
\* Find and replace.

Width(c) == IF c \in DOMAIN Widths THEN Widths[c] ELSE 1

Lower(c) == IF c \in DOMAIN LowerCase THEN LowerCase[c] ELSE c

\* The length of a text in bytes.
Bytes(u) == Cardinality({b \in (1..Len(u)) \X (1..4) : b[2] <= Width(u[b[1]])})

\* The byte at which a character begins.
ByteOf(t, o) == Bytes(SubSeq(t, 1, o))

\* The first character that does not begin before a byte, or the text's end.
CharAt(t, byte) == Min({Len(t)} \union {o \in 0..Len(t) : ByteOf(t, o) >= byte})

\* What a search compares: the text itself, or its lower case.
Folded(u, case_sensitive) ==
    IF case_sensitive THEN u ELSE [i \in DOMAIN u |-> Lower(u[i])]

IsAt(t, pattern, p, case_sensitive) ==
    Folded(SubSeq(t, p + 1, p + Len(pattern)), case_sensitive) = Folded(pattern, case_sensitive)

\* The offsets of the occurrences of a pattern between two offsets.
Hits(t, pattern, from, to, case_sensitive) ==
    {p \in from..(to - Len(pattern)) : IsAt(t, pattern, p, case_sensitive)}

\* fault: a byte for every character.
HitByteNarrow(t, from, p, case_sensitive) == p

\* The byte a search from a character on gives for an occurrence at p: the
\* characters searched count with the width of what was compared.
HitByte(t, from, p, case_sensitive) ==
    ByteOf(t, from) + Bytes(Folded(SubSeq(t, from + 1, p), case_sensitive))

\* As many bytes are selected as the pattern has.
ApplyMatch(e, byte, pattern) ==
    [e EXCEPT !.anchor = PosOf(e.text, CharAt(e.text, byte)),
              !.cursor = PosOf(e.text, CharAt(e.text, byte + Bytes(pattern)))]

\* The byte behind the cursor is inside the character at the cursor.
SlicesInside(e) ==
    LET here == Offset(e.text, e.cursor)
    IN here < Len(e.text) /\ Width(e.text[here + 1]) > 1

\* The search starts one byte behind the cursor.  To slice the text inside a
\* character panics, and a window procedure that panics ends the process.
FindNext(e, pattern, case_sensitive) ==
    LET start == Min({Offset(e.text, e.cursor) + 1, Len(e.text)})
        ahead == Hits(e.text, pattern, start, Len(e.text), case_sensitive)
        all == Hits(e.text, pattern, 0, Len(e.text), case_sensitive)
        Select(from, hits) ==
            ApplyMatch(e, HitByte(e.text, from, Min(hits), case_sensitive), pattern)
    IN IF pattern = <<>> THEN e
       ELSE IF SlicesInside(e) THEN [e EXCEPT !.aborted = TRUE]
       ELSE IF ahead # {} THEN Select(start, ahead)
       ELSE IF all # {} THEN Select(0, all)
       ELSE e

FindPrev(e, pattern, case_sensitive) ==
    LET behind == Hits(e.text, pattern, 0, Offset(e.text, e.cursor), case_sensitive)
        all == Hits(e.text, pattern, 0, Len(e.text), case_sensitive)
        last == Max(IF behind # {} THEN behind ELSE all)
    IN IF pattern = <<>> \/ all = {} THEN e
       ELSE ApplyMatch(e, HitByte(e.text, 0, last, case_sensitive), pattern)

Found(e) ==
    {FindNext(e, u, s) : u \in Patterns, s \in BOOLEAN}
        \union {FindPrev(e, u, s) : u \in Patterns, s \in BOOLEAN}

\* The selection gives way to the replacement.  An empty one returns from
\* insert_str before the redo stack is cleared.
Replaced(e, replacement) ==
    LET d == DeleteSelection(e)
    IN IF replacement = <<>> THEN [d EXCEPT !.strayed = @ \/ (HasSelection(e) /\ d.redo # <<>>)]
       ELSE DoInsert(d, replacement, "none")

\* eq_ignore_ascii_case: only characters of one byte have a case.
AlikeInAscii(u, v) ==
    /\ Len(u) = Len(v)
    /\ \A i \in DOMAIN u :
          u[i] = v[i] \/ (Width(u[i]) = 1 /\ Width(v[i]) = 1 /\ Lower(u[i]) = Lower(v[i]))

SelectionMatches(e, pattern, case_sensitive) ==
    LET selected == Between(e.text, SelStart(e), SelEnd(e))
    IN /\ HasSelection(e)
       /\ selected = pattern \/ (~case_sensitive /\ AlikeInAscii(selected, pattern))

ReplaceCurrent(e, pattern, replacement, case_sensitive) ==
    IF pattern = <<>> THEN e
    ELSE FindNext(IF SelectionMatches(e, pattern, case_sensitive)
                  THEN Replaced(e, replacement) ELSE e, pattern, case_sensitive)

\* replace_all goes on behind the replacement, where the cursor is.
Behind(e) == [ed |-> e, start |-> Offset(e.text, e.cursor)]

\* One round of replace_all: the first occurrence from r.start on, if any.
ReplaceRound(r, pattern, replacement, case_sensitive) ==
    LET hits == Hits(r.ed.text, pattern, r.start, Len(r.ed.text), case_sensitive)
        byte == HitByte(r.ed.text, r.start, Min(hits), case_sensitive)
    IN IF hits = {} THEN r
       ELSE Behind(Replaced(ApplyMatch(r.ed, byte, pattern), replacement))

\* Each round leaves fewer characters behind r.start, so that there are no
\* more rounds with an occurrence than characters.
ReplaceFrom(e, pattern, replacement, case_sensitive, start) ==
    LET after[n \in Nat] ==
            IF n = 0 THEN [ed |-> e, start |-> start]
            ELSE ReplaceRound(after[n - 1], pattern, replacement, case_sensitive)
    IN after[Len(e.text)].ed

\* fault: the first search starts at the cursor.
ReplaceEveryAhead(e, pattern, replacement, case_sensitive) ==
    IF pattern = <<>> THEN e
    ELSE ReplaceFrom(e, pattern, replacement, case_sensitive, Offset(e.text, e.cursor))

ReplaceEvery(e, pattern, replacement, case_sensitive) ==
    IF pattern = <<>> THEN e ELSE ReplaceFrom(e, pattern, replacement, case_sensitive, 0)

---------------------------------------------------------------------------
NewEd(t) ==
    [text |-> t, cursor |-> <<0, 0>>, anchor |-> <<0, 0>>,
     undo |-> <<>>, redo |-> <<>>, coalesce |-> "none", strayed |-> FALSE, aborted |-> FALSE]

Init ==
    /\ ed = NewEd(<<>>)
    /\ prompt = FALSE

\* The window takes the next key or click.  One whose journal has strayed is
\* not followed further, only emptied by loading a file.
Ready == ~ed.strayed /\ ~ed.aborted

\* ed becomes e, within the bounds.
Edits(e) ==
    /\ Len(e.text) + Len(e.undo) + Len(e.redo) <= MaxSize
    /\ ed' = e

\* A character that is no control code.  While the prompt is open it goes into
\* one of its fields, whose contents are whatever the user makes them.
type_char(c) ==
    /\ Ready
    /\ ~prompt
    /\ Edits(InsertChar(ed, c))
    /\ UNCHANGED prompt

\* What the WM_CHAR that TranslateMessage posts for a key makes of e.
Char(e, char) ==
    CASE char = CR -> InsertNewline(e)
      [] char = TAB -> SoftTab(e)
      [] char = "back" -> Backspace(e)
      [] char = DEL -> InsertChar(e, DEL)
      [] char = NL -> e

\* Enter, Tab and Backspace when no prompt is open: their WM_KEYDOWN does
\* nothing.
type_key ==
    /\ Ready
    /\ ~prompt
    /\ \E char \in {CR, TAB, "back"} : Edits(Char(ed, char))
    /\ UNCHANGED prompt

\* What WM_KEYDOWN makes of such a key while the prompt is open: the text, the
\* prompt and the character posted for the key.  The prompt's mode is not kept,
\* as opening one over another changes it without touching the text.
Taken(char, e, open) == [char |-> char, ed |-> e, open |-> open]

\* A line number ends its prompt.
goto_line ==
    {Taken(CR, SetCursor(ed, <<Min({Max({n - 1, 0}), LastRow(ed)}), 0>>, FALSE), FALSE) : n \in 0..MaxSize}

\* Enter and Shift+Enter, which search; Enter in the replace prompt; and
\* Ctrl+Enter there, whose character is a line feed.  The prompt starts
\* without regard to letter case, and a key changes that.
searches == {Taken(CR, e, TRUE) : e \in Found(ed)}

replacements ==
    {Taken(CR, ReplaceCurrent(ed, u, r, s), TRUE) :
        u \in Patterns, r \in Replacements, s \in BOOLEAN}
    \union {Taken(NL, ReplaceEvery(ed, u, r, s), TRUE) :
        u \in Patterns, r \in Replacements, s \in BOOLEAN}

\* Tab and Backspace change a field or move to the other one; Enter does
\* nothing for what is no line number or not found.  The characters reach the
\* text, and of Ctrl+Backspace another one.
field_keys ==
    {Taken(char, ed, TRUE) : char \in {CR, TAB, "back"} \union (Typed \intersect {DEL})}

\* The posted character comes before any other input, unless the key has
\* ended the process.
Posted(k) == IF k.ed.aborted THEN k.ed ELSE Char(k.ed, k.char)

key_down ==
    /\ Ready
    /\ prompt
    /\ \E k \in goto_line \union searches \union replacements \union field_keys :
          Edits(Posted(k)) /\ prompt' = k.open

undo == Ready /\ Edits(Undo(ed)) /\ UNCHANGED prompt

redo == Ready /\ Edits(Redo(ed)) /\ UNCHANGED prompt

delete_forward == Ready /\ Edits(DeleteForward(ed)) /\ UNCHANGED prompt

\* A clipboard that refuses the text leaves everything as it was.
cut ==
    /\ Ready
    /\ HasSelection(ed)
    /\ Edits(DeleteSelected(ed))
    /\ UNCHANGED prompt

paste ==
    /\ Ready
    /\ \E u \in Clips : Edits(DoInsert(ed, u, "none"))
    /\ UNCHANGED prompt

\* The keys that move, with or without Shift.
move(extend) ==
    /\ Ready
    /\ \/ ed' \in {MoveLeft(ed, extend), MoveRight(ed, extend), MoveWordLeft(ed, extend),
                   MoveWordRight(ed, extend), MoveHome(ed, extend), MoveEnd(ed, extend),
                   SelectAll(ed)}
       \/ ed' \in MoveUp(ed, extend) \union MoveDown(ed, extend)
                   \union PageUp(ed, extend) \union PageDown(ed, extend)
    /\ UNCHANGED prompt

\* click and drag_to: pos_at_pixel answers a place of the text.
mouse(extend) ==
    /\ Ready
    /\ ed' \in {SetCursor(ed, p, extend) : p \in Positions(ed.text)}
    /\ UNCHANGED prompt

\* A diagnostic of the last check, which the text may have left behind.
jump_to_next_diagnostic ==
    /\ Ready
    /\ ed' \in {SetCursor(ed, Clamped(ed, s), FALSE) : s \in Spots}
    /\ UNCHANGED prompt

\* Ctrl+F, Ctrl+H, Ctrl+G, and Escape.
open_prompt == Ready /\ prompt' = TRUE /\ UNCHANGED ed

close_find == Ready /\ prompt' = FALSE /\ UNCHANGED ed

\* F3 and Shift+F3; without a prompt one is opened first.
press_f3 ==
    /\ Ready
    /\ ed' \in Found(ed)
    /\ prompt' = TRUE

load_from(u) ==
    /\ ~ed.aborted
    /\ ed' = NewEd(CodePoints(CrLfToNl(u)))
    /\ UNCHANGED prompt

Next ==
    \/ \E c \in Typed : type_char(c)
    \/ type_key \/ key_down
    \/ undo \/ redo \/ delete_forward \/ cut \/ paste
    \/ \E extend \in BOOLEAN : move(extend) \/ mouse(extend)
    \/ jump_to_next_diagnostic
    \/ open_prompt \/ close_find
    \/ press_f3
    \/ \E u \in Files : load_from(u)

Spec == Init /\ [][Next]_vars

---------------------------------------------------------------------------
\* Undoing one entry after the other gives back the texts the edits were made
\* on, whatever was merged into an entry, capped away, undone and redone before.
UndoGoesBack ==
    ~ed.strayed =>
        LET after[n \in Nat] == IF n = 0 THEN ed ELSE Undo(after[n - 1])
        IN \A n \in 1..Len(ed.undo) : after[n].text = ed.undo[Len(ed.undo) + 1 - n].was

\* What can be redone was done to the text as it is now, each entry to what
\* the one after it on the stack leaves: every edit but undo clears the stack.
RedoFits ==
    ~ed.strayed /\ ed.redo # <<>> =>
        /\ Last(ed.redo).was = ed.text
        /\ \A i \in 2..Len(ed.redo) : ed.redo[i - 1].was = ed.redo[i].now

\* The two journals lead back and forth through the texts that really were.
HistoryFits == UndoGoesBack /\ RedoFits

\* Cursor and anchor are places of the text: every edit, undo, search and jump
\* leaves them where a character or a line's end is, so no reader has to clamp.
CursorInText == ~ed.strayed => {ed.cursor, ed.anchor} \subseteq Positions(ed.text)

\* A text with every occurrence of u, taken from the left, replaced by r.
Substituted(t, u, r, case_sensitive) ==
    LET from[i \in Nat] ==
            IF i >= Len(t) THEN <<>>
            ELSE IF i + Len(u) <= Len(t) /\ IsAt(t, u, i, case_sensitive) THEN r \o from[i + Len(u)]
            ELSE <<t[i + 1]>> \o from[i + 1]
    IN from[0]

\* The lower case of the text takes as many bytes, character for character.
LowerKeeps(u) == \A i \in DOMAIN u : Width(Lower(u[i])) = Width(u[i])

\* What find_substring takes for granted: lower case moves no byte.
Placed(t, u, case_sensitive) == case_sensitive \/ (LowerKeeps(t) /\ LowerKeeps(u))

\* Replace All, a loop of edits through the journal that moves on behind each
\* replacement by bytes, replaces what a pass over the characters replaces: no
\* occurrence is left out and none is looked for inside a replacement.
AllReplaced ==
    \A u \in Patterns, r \in Replacements, s \in BOOLEAN :
        Placed(ed.text, u, s) =>
            ReplaceEvery(ed, u, r, s).text = Substituted(ed.text, u, r, s)

Selected(e) == Between(e.text, SelStart(e), SelEnd(e))

\* The selection is an occurrence of u.
Spans(e, u, case_sensitive) == Folded(Selected(e), case_sensitive) = Folded(u, case_sensitive)

Occurs(u, case_sensitive) == Hits(ed.text, u, 0, Len(ed.text), case_sensitive) # {}

\* Where the text has the pattern, a search in either direction ends with an
\* occurrence selected, past the end of the text as well, unless the forward
\* search slices a character.
FoundIsSelected ==
    \A u \in Patterns, s \in BOOLEAN :
        Occurs(u, s) /\ Placed(ed.text, u, s) =>
            /\ SlicesInside(ed) \/ Spans(FindNext(ed, u, s), u, s)
            /\ Spans(FindPrev(ed, u, s), u, s)

\* Search and replace, which count in bytes, agree with a pass over the
\* characters.
SearchRight == AllReplaced /\ FoundIsSelected

=============================================================================
