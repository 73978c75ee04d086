# A verification development for MacBCPL

MacBCPL compiles the NewBCPL language (lexer, parser, semantic analysis, IR
lowering, LLVM, MCJIT or an object file) and runs it over a runtime without a
garbage collector. This directory holds TLA+ models of the parts whose
correctness depends on order, history or interleaving, TLC configurations for
small instances of them, and TLAPS proofs of what matters most.

## 1. The system

| part | state it keeps | operations | what is hard |
|---|---|---|---|
| Lexer, parser (`newbcpl-lexer`, `-parser`) | place in the text, in the tokens; pending declarations | one method per production | look-ahead, precedence, synonyms |
| Semantic analysis, layout (`newbcpl-sema`) | scopes of bindings with hints, the class table, layouts | one pass over declarations, then bodies | what is known when; slots along inheritance |
| Lowering (`newbcpl-ir/src/lower.rs`) | builder: blocks, frames, USING cleanups, owned slots, arena slot | one function per statement and expression | every exit must run exactly the cleanups it crosses and reach its own frame |
| Emission, JIT (`newbcpl-llvm`) | LLVM values, registered classes, code reservation | IR to LLVM, register classes, link, run | values met before they are emitted, words used as floats, two registrars |
| Memory runtime (`heap.rs`) | heap blocks with tagged headers, a stack of arenas of chunks, counters | `bcpl_heap_alloc/free`, `bcpl_arena_enter/free/reset`, `__newbcpl_alloc_rec*`, `bcpl_promote` | two tiers told apart by a tag in memory that is reused; skipped frees; counters kept apart from what they count |
| Objective-C bridge (`objc.rs`, `objc_box.rs`) | reference counts, autorelease pools, string memo, shell jobs | new, retain, release, pool push and pop, strings, `bcpl_run_*` | ownership, stale caches, a background thread |
| Builtins (`builtins.rs`) | the cons pool, input buffer | lists, vectors, WRITEF, RDCH | shared cells, recycled cells |
| Box run (`rosbox.rs`, `riscos.rs`, `boxjit.rs`, `box/src/lib.rs`) | hooks, stop flag, streams, console queue, engine | run, stop, recover, end, stream calls | Escape at any hook, faults anywhere, next run clean |
| Crash, BRK (`crash.rs`, `brk.rs`) | symbol table frozen for the signal handler | register, finalize, resolve | lock-free publication |
| Legacy collector (`gc.rs`) | mutator states, mark bits, free lists | allocate, collect | not called any more |
| iGui (`igui/*`, Windows) | mailbox, stash, filters, replies, panes, editor buffer, log | events from the GUI thread to the language thread and back | bounded queues, timeouts, ordering |
| Wingui, audio, iGui on macOS, loader, assembler | stubs or adapters | | |

How the parts interact: the lowerer emits calls to the runtime by name; the
runtime keeps no knowledge of the compiler beyond handles (an arena depth, a
pool token, an object). Compiled code, the arena stack and the string memo live
on one thread (thread-locals); the heap counters are process-wide atomics. The
box's module calls the C API of `box/src/lib.rs` and is called back through
hooks. The GUI thread and the language thread meet in the mailbox, the batch
table and blocking window messages.

The correctness properties of each part are listed under "hazards" in
`PROJECT.json`, at the line where they bite.

## 2. The modules

The modules fall into five groups that share nothing but the program they
describe: memory (ScopedStore, RuntimeHeap), compiled scopes over that memory
(ScopeLowering, ScopedProgram), the compiler's phases (Syntax, Classes,
Compiled), the box (BoxStreams, BoxRun), and the GUI (Mailbox, IGuiPanes, Rope,
Editor). Each `MC` module only gives the constants of a run.

### ScopedStore (abstract)
What compiled code may rely on: a stack of scopes, each with the vectors it
owns; the manual heap; the set of vectors whose memory is gone. `Enter` opens a
scope and returns the old depth, `Leave(h)` closes every scope above `h`,
`Clear` empties one, `AllocInScope`, `AllocOnHeap`, `Free`.

### RuntimeHeap (detailed)
`heap.rs` at the level of addresses. `headers` maps block addresses to what the
program and the runtime know of them, `arenas` is the thread's stack of arenas
with their chunks and fill marks, `regions` what the system allocator has given
out, `count`/`bytes` the counters, which are integers without a width: that the
live ones never fall below zero is claimed, not built in. The system
allocator is external: it may return any free region, a just-freed one included.
Double frees and frees of foreign pointers are inputs. `StoreSpec` says that
the module implements ScopedStore through the mapping given there.

### RuntimeHeapProofs
TLAPS proofs about RuntimeHeap for all constants (section 4): the layout of
memory, and on top of it the refinement of ScopedStore and the accounts.

### ScopeLowering and ScopedProgram
ScopeLowering is the cleanup half of `lower.rs` as a function from a statement
tree to a sequence of instructions: builder operations, frames, USING cleanups,
owned slots, arenas, escape analysis and the late removal of unused arenas. It
is recursive and used by TLC only. ScopedProgram runs that code one instruction
at a time over `INSTANCE ScopedStore`, with Objective-C reference counts and
autorelease pools. MCScopedProgram builds the programs: every nesting, up to
`MaxNesting`, of the constructs in `Wrappers` around each exit in `Exits`, taken
always or on a condition.

### Grammar, Lexer, Parser and Syntax
Parser is the recursive descent of `parser.rs`: each `parse_*` method is an
operator from a state of the parser (tokens, place, depth of lane brackets,
declarations an AND chain left over) to the state and tree it returns, or the
place it gave up. Lexer cuts a sequence of characters into tokens as
`newbcpl-lexer` does, one operator per `lex_*` method. Grammar holds what they
are compared with: the ladder of operators and the spelling of a tree with the
fewest parentheses it allows. The ladder is the one of `parser.rs`, which is not
the manual's at its top (section 6). In Syntax a program is typed one token at a
time, or a text one character at a time, and read after each. Literals are of
each kind, an integer too large for a word included; their values, positions and
messages are left out; the keywords of Lexer are one word,
since a keyword is an identifier found in a table.

### ClassTable, ObjectModel and Classes
ClassTable is the part of `newbcpl-sema` that registers classes and then judges
every field access and message: the class of the receiver as far as it is known
at that point, the owner of the member, visibility, FINAL. ObjectModel goes on
from there: `layout.rs` (fields and method slots), the lowering of fields,
messages, SUPER, NEW and initialisers, and the classes that the JIT and the
registrar of an executable hand to the Objective-C runtime, which is external:
it finds methods by name along superclasses and places the instance variables of
a class after its base's. In Classes a program is written declaration by
declaration and member by member, in any order.

### Words, Hints, Codegen, Machine, Meaning and Compiled
A program is a small tree. Hints puts on it the type hints `newbcpl-sema`
infers; Codegen makes of it the instructions `lower.rs` makes, statement by
statement, with its slots, blocks, loop and switch frames and its escape
analysis; Machine emits them in the order `emit.rs` does (a value must have been
emitted before its use) and executes them with the words, doubles and pointers
the emitter makes of them, one instruction a step, over a memory whose cells are
never used twice (list cells apart, which the pool recycles). Words is the
arithmetic, with 16 bits in the place of 64 and floating-point numbers that are
multiples of a half. Meaning is the reference: what the language says a program
does, with tagged values, no blocks, no slots and no hints; it is not derived
from the code and so has no entry in the map. Compiled holds the one against
the other. Scoped blocks with USING and owned objects are ScopeLowering's
matter and do not occur here.

### BoxStreams and BoxRun
BoxStreams is the table of numbered streams of `rosbox.rs` with their buffers,
the selections and the file SWIs, one action per stream call. RISC OS is
external: a handle has a pointer and contents, and OS_GBPB may fail. BoxRun
extends it with the life of a run as the box's module drives it: `bcpl_box_run`
(reset, compile, execute), Escape (`bcpl_box_stop`) at any moment, the hooks
that look for it, faults that jump out of the runtime with some of its locks
held (`FaultsIn`), `bcpl_box_recover` and `bcpl_box_end_run`. What earlier runs
left in the list pool and the arena stack is "live" or "stale".
BoxRunProofs holds the proofs of both. The calls of a stream are
operators from a stream and its handle to the next two; the chunks of a long
write are a recursive function of their number.

### Mailbox and MailboxProofs
`channels.rs` between the GUI thread, which pushes and never waits, and the
language thread, which takes with or without a filter, for one window or for
any, with the three kinds of timeout. The worker loop of `main.rs` is part of
it: programs start and end, and `gui_run_program` clears what the last one left.
An event is its destination and kind; `log` is a history of what became of each.
MailboxProofs holds the proofs.

### IGuiPanes and IGuiPanesProofs
How output reaches windows: batches (`batch.rs`) painted by `child.rs` with
Direct2D and, when that fails, again with GDI; blocking queries (`replies.rs`)
answered by those paints; text queues (`text_view.rs`) applied by posted
flushes. The steps of each thread end where the other can see a change: a submit
puts the batch in the table and then invalidates, a paint validates the window
and then reads the table. A minimised window gets no paint, a closing one is
for a moment still registered.

Paints may fail, and the code treats the places differently. Once the render
target is there, a drawing or EndDraw that fails is followed by GDI (`d2d_fails`).
Without a device context, a client rectangle or a target, or with one that cannot
be resized, `render` returns before it has read the batch and nothing follows
(`render_fails`, child.rs:104); a drawing that fails in GDI too ends the paint on
the way (`gdi_fails`); a text view passes over a missing target or format and a
failing EndDraw in silence (`paint_text`; text_view.rs:590-597, 737). The window
is valid by then, so no further paint is due. The history variable `missed` names
the windows whose last paint ended that way; a later invalidation takes them out
again. `NoQuestionForgotten`, `LastBatchPainted` and `TextArrives` except those
windows and no others. IGuiPanesProofs holds the proofs.

### FlatText, Rope and Editor
FlatText says what the editor's buffer promises: a sequence of code points with
offsets, lines and columns. Rope is the balanced tree of `rope_buffer.rs` that
keeps the promise, with its cached counts, splits, joins, rotations and the
leaf-pairing builder; a history variable `text` carries the flat text beside it.
Each walk down the tree is a recursive function over the subtrees it can come to
(`Nodes`), one case per branch of the code's recursion.
Editor is a window of `bedit.rs` over FlatText: `ed` is the part of
`ReditState` that edits change, each edit an operator from one `ed` to the next
as the code chains them, each key, click and file a step. The prompt's fields
hold whatever the user may have typed; a key the prompt takes is followed by the
character Windows posts for it, in one step because nothing else comes between.
The buffer counts characters and the searches count bytes of UTF-8, without
regard to case bytes of a lowered copy: a character has a width (`Widths`) and
one character for its lower case (`LowerCase`), which may have another width, and
a search goes from characters to bytes and back as the code does (`ByteOf`,
`HitByte`, `CharAt`). A search forward starts one byte behind the cursor; before
a character of several bytes that is a slice inside it, which panics in a window
procedure and ends the process (`aborted`). A character whose lower case is
several characters (U+0130) or depends on its place (the final sigma) is left
out. The preferred column, the dirty mark (all that a save changes), scrolling
and painting are left out; strings and comments are below what the characters
distinguish, and the words that open a block at the end of a line are one (`DO`).
A pattern and a replacement have no line end, as their fields take none. Loops of the code that
look for a place (the moves by word, the searches) are the least or greatest
offset with the property; `replace_all` is a recursive function of its rounds.
FlatTextProofs, RopeProofs and EditorProofs hold the proofs.

The code keeps its journal sound only up to three steps, after which `strayed`
is set and the window is followed no further: redoing a deletion (it inserts the
text a second time), replacing by nothing while something can be redone (the
redo stack stays), and pasting a lone carriage return (a line to the rope, a
column to the cursor). A rope built from five leaves at once is out of balance
from the start (`lopsided`); `Balanced` is claimed for the others.

## 3. The runs

Several properties are conjunctions of named parts that concern one hazard; the
parts are defined beside them.

| run | question | bounds |
|---|---|---|
| `heap` | invariants of the byte-level runtime under any calls, double, foreign and stale frees included; memory all accounted for (`NothingUnaccounted`); the refinement of ScopedStore (`StoreSpec`) | two regions, four pointers, small chunks, two arenas: enough for an arena of two chunks, reuse of freed memory by both tiers and every order of their release |
| `scopes` | all nestings of three constructs around each exit: reference counts and nothing owned lost (`ReferencesCounted`), USING once and innermost first (`UsingDisposed`), vectors, arenas, pools | 3 constructs, 5 objects, 5 vectors, 5 open scopes |
| `streams` | selections, handles, buffers (`TableConsistent`) and the order of bytes (`BytesInOrder`), with transfers that fail | buffer of 2, files of 3 bytes (no multiple of the buffer), 4 bytes written, 2 handles |
| `box` | runs follow each other cleanly, Escape ends the run it was meant for, only held locks kill the box | buffer and lines of 1, 1 handle, 2 nested arenas; the number of runs is not bounded |
| `mailbox` | nothing accepted is lost, doubled, reordered within a window or seen by a later run; a call that waits for ever is woken | channel of 2, frame and one child, 5 events: two runs, a full channel and a stash of several events occur |
| `panes` | no answer (`NoQuestionForgotten`) and no batch (`LastBatchPainted`) is lost between the threads but by a paint that gives up; the GUI thread never waits in a send (`GuiNeverBlocks`); text is applied in order and once, and seen in the end but for such a paint (`TextArrives`) | a graphics window and a text pane, a batch of 2 commands, 1 query, 2 texts: the query replaces the batch or is replaced by it before a paint, repaints answer again, a flush finds its text taken |
| `rope` | the tree answers as the flat text does after any edits, its caches and balance hold | leaves of 2 code points, texts of up to 9, pieces of 0, 1 and 9 code points with an empty line: five leaves, every rotation, merges and splits |
| `editor` | undo gives back every text and redo fits (`HistoryFits`), the cursor stays in the text, searches and Replace All, which count bytes, agree with a pass over the characters (`SearchRight`) | text and journal entries together up to 4, journal capped at 2: merging, capping, undo and redo of two edits, line ends inside every edit; one character typed, searched for in either case, before and behind one of three bytes whose lower case has one byte (the sign of the kelvin) |
| `syntax` | a tree, spelled out, is read as itself (`RereadTheSame`), has the words that were written and the grouping of the parser's ladder (`ReadAsWritten`); tokens are the longest there are (`LongestTokens`) | 23 alphabets of tokens with 3 to 8 tokens after a lead-in, four of characters up to 5: each alphabet holds a production, its followers and its synonyms |
| `classes` | the field that was checked is the word addressed (`AccessReachesOwner`); layouts extend their base's and fields do not overlap (`LayoutsExtend`); every call runs the nearest method and FINAL holds (`MethodsFound`); both registrars agree | three classes, 5 or 6 pieces in any order: a base after its subclass, a chain of three, each member at any level of it |
| `compile` | what a compiled program prints is what it means (`RunsAsWritten`), the emitter never panics, memory given back is not reached and arenas are left (`MemoryHandedBack`), programs end (`ProgramEnds`) | 323 programs: every loop and choice in every other with every exit, every operator on three operands, packs, bit fields, vectors that escape or not, shared and freed lists, recursion |
| `compile_swap` (violation) | the manual's parallel assignment: `a, b := b, a` | one program |

Deadlock is not checked where the system may stop: in `scopes` after the
routine's return or at a bound on objects, vectors or depth; in `box` when a
lock left held hangs or aborts the box (`DiesOnlyOfLocks` says when); in
`mailbox` and `panes` when the bounds on events, batches and texts are
used up and every window is closed; in `editor` when the bounds leave no step or
a search has ended the process; in
`syntax` and `classes` when the program is as long as its scenario allows; in
`compile` when the program has ended, which `ProgramEnds` says it does. Three
constructs are enough for an outer scope, the frame an exit targets and a scope
between them; both orders of every pair occur.

Three runs (`mailbox`, `panes`, `compile`) check liveness and so assume fairness. Mailbox has weak fairness of
`receive` only: a thread blocked in `recv` on a channel that holds an event is
woken. IGuiPanes has weak fairness of the steps the GUI thread has begun, a
paint that gives up among the ways to finish it, and of
the rest of a call of the language thread; and strong fairness of `flush` and
of each text pane's paint, because the pump returns to its queue for ever and a
posted message is taken before any later one, while a paint is made when no
message is left; in between the pump is busy, hence strong. Compiled has weak
fairness of the next instruction: a processor goes on. Nothing is assumed
of the user or of the program, nor that a closed or hidden window paints.

The violation run checks one sentence of the manual; the finding in
`PROJECT.json` quotes it. Where the code departs from a document in other ways
the models take the code as it is, and section 6 lists it.

## 4. What is proved

`RuntimeHeapProofs` proves, for every set of regions, pointers, capacities
and sizes allowed by the named assumptions, that RuntimeHeap's
specification implies `TypeOK` (`TypeCorrect`), `LiveBlocksDisjoint`
(`Disjoint`), `LiveBlocksBacked` (`Backed`) and `TagsTellProvenance`
(`Provenance`). None of these is inductive alone: that two live blocks do not
share bytes needs every live block to be backed, that needs the chunks of
different arenas to be different regions and fill marks to be within capacity,
and the tag of a released block to differ from both live tags. The inductive
invariant is the conjunction of those named parts; `Invariance` proves it by one
lemma per action. The run `heap` checks the same conjuncts on its instance.

The second half of the module goes on from that invariant to what the runtime
promises. `Refinement` proves that RuntimeHeap implements ScopedStore
(`StoreSpec`): the blocks that die with the regions of some arenas' chunks are
exactly the blocks of those arenas' scopes, because no two chunks share a region
and a live block is in a chunk of the arena of its scope; and a heap region has
at most one live block, because two would overlap at offset 0. `NothingUnaccounted` is
proved in four parts and put together in `AllAccounted`: `OneAtATime`
(`FreeReleasesOne`), `NothingLost` (`NoLostMemory`, from the stronger fact
`Reached` that a heap region has a live block), `CountersBalance`
(`CountsExact`, for which a release must be known to kill a block) and
`BytesBounded` (`ByteCounterNeverWraps`). The last rests on what `BytesUsed`
adds up: a step that allocates adds the bytes of one block or chunk, a dropped
arena takes away those of its own chunks, which no other block or chunk has.

`MailboxProofs` proves for any channel capacity, windows and number of events
`WaitingIsOwed` (`EventsAreOwed`) and `InOrderPerWindow` (`TakenInOrder`). The
inductive invariant says that stash and channel together hold the queued events
and nothing else (`AllHeld`), in ascending order with the stash older than the
channel (`OldestFirst`), and that a call which looks into the channel has passed
over all of the stash (`NothingPassedOver`): without the last a call could take
a young event of a window while an older one of it is in the stash.

`BoxRunProofs` first proves of the streams alone, for any handles, buffer and
file lengths and any SWI that fails, `StreamsConsistent` (`TableConsistent`) and
`StreamsReadInOrder` (`ReadInOrder`). `StreamsInv` relates three places at once: the pointer of a
handle, its buffer and the history of its bytes. A reader's buffer is the part
of the file just before the pointer and what the program got is all before the
buffer's next byte (`Reads`); the file of a writer lacks exactly the bytes its
buffer holds (`Writes`). Each call keeps that for the stream it is made on, and
the rest of the table is other streams with other handles. `StreamsKeepBytes`
(`BytesInOrder`) assumes `~ ArgsFails`, as the runs do: after `append`, a failing
OS_Args leaves the pointer at the start and writes go over what was there
(rosbox.rs does not look at its error), so the claim is false without it.

It then proves of the box, for any buffer, file and line lengths and any sets of
locks a fault may leave held that Escape is obeyed (`EscapeObeyed`) and that no
run uses memory of an earlier one (`RunsApart`). The first needs that the stop
flag of a running program is exactly what was asked for since its reset, and
that a run asked to stop has no result yet; the second that a stale arena stack
lasts only while its borrow is held, which stops any entry. `NothingLeft`
(`RunsLeaveNothing`) and `DeathNeedsLock` (`DiesOnlyOfLocks`) follow from what a
reset does in each of its two outcomes. `RunsImplementStreams` shows that a step
of a box, runs and faults included, is a step of BoxStreams or leaves the
streams alone, so that `RunsKeepTable` needs no proof of its own.

`RopeProofs` proves for any leaf size, texts put in and edits `RopeKeepsText`
(`TextKept`), `RopeTreeSound` (`TreeSound`) and `RopeLinesAgree` (`LinesAgree`).
The inductive invariant (`RopeInvariant`) is short: the root carries the text,
that is, it is a tree built of leaves and branches (`Trees`), its leaves are
neither empty nor too long (`Filled`), and its leaves from left to right are the
text (`Holds`; the empty leaf alone carries the empty text); and it is balanced
unless a lopsided text was put in. The work is in what an edit does to a tree.
`Trees` are the levels of a construction, so that a set of trees which has every
leaf, and a branch whenever it has both halves, has all (`TreeInduction`); the
nodes below a tree are closed under going down (`NodesAre`, `NodesInduction`),
so each walk of the code is one function on them (`WalkDefined`), pinned down by
its cases (`CollectIs`, `CountIs`, `NthIs`, `CharIs`). Cached figures need no
invariant of their own: `Branch` is the only way to make a branch and computes
them from its halves (`FiguresRight`). `BalanceBalances` says that one rotation,
or two, levels a node that is out of balance by two over balanced halves;
`JoinHolds`, by induction over pairs of trees, that a join carries the
concatenation, is balanced if both its trees are, and is at most one higher than
the higher of them, which is what lets the caller above repair with one
`Balance`; `SplitCarries` that a split carries the two parts, whatever it joins
on its way up. `InsertCarries` and `DeleteCarries` follow without another
induction, and `BuildCarries` covers the leaf-pairing builder, about whose
balance nothing can be said. Every reading is then an answer about a plain
sequence (`SliceIs`, `PlaceAnswered`, `OffsetAnswered`), for which
`FlatTextProofs`, shared with the editor, has the facts about rows, columns and
offsets.

`EditorProofs` proves for any characters, clips, files, patterns, pages and
journal sizes `CursorStaysInText` (`CursorInText`), `JournalsFit`
(`HistoryFits`) and `SearchesRight` (`SearchRight`). That undoing n entries leads back through n texts says nothing
of one step; what is inductive (`EditorInv`) is that each entry fits: its place,
its characters and its kind alone turn the text before it into the text after it
and back (`Fits`), each undo entry ends at the text the next one starts from,
the last at the text that is there, and each redo entry starts from what the one
above it leaves (`UndoSound`, `RedoSound`). A splice goes through offsets while
the journal keeps lines and columns, so the entries can be trusted only because
places and offsets of a text are in one-to-one correspondence, and places before
an edit stay where they are (`PlaceByPrefix`); `EndOfPlace` is the arithmetic of
`splice_in`, which finds the new cursor from the inserted characters and never
looks at the text. Merged typing and erasing needs that the entry merged into
has no lone carriage return. The steps between which an edit's parts leave the
redo stack behind keep the weaker `Sound`. `SearchesRight` is an argument about
a loop: however far Replace All has come there is a place of the text given such
that what stands before the next search is what a pass makes of the characters up
to that place, and what stands behind is what was behind it (`Partial`); each
round moves the place on (`PartialGrows`), so that a round for each character is
enough, and where no occurrence is left the whole text is what the pass makes
(`PartialEnds`). Bytes enter by three facts: offsets in bytes and in characters are in
one-to-one correspondence; where lower case keeps the width of each character
(`Placed`, the condition `find_substring` takes for granted) a hit of the lowered
copy is at the byte of the character (`HitPlaced`); and the width of the pattern is
that of what it selects (`FoundSelected`). Of a search forward nothing is claimed
where it slices a character (`SlicesInside`), because it fails there, nor of one
without regard to case in a text that is not `Placed`. The theorems
hold for any characters, among them those the run has no room for: DEL, block
openers, characters whose lower case has as many bytes as they have.
It is about the states from which the editor takes another key (`Ready`); of a text whose journal has strayed, which the model
follows no further, the run `editor` checks the same.

`IGuiPanesProofs` proves for any windows, batch lengths and numbers of batches
and queries `NoQuestionForgotten` (`NoLostWakeUp`), `GuiNeverBlocks`
(`SendNeverBlocks`), `LastBatchPainted` (`LastBatchShown`) and the types
(`PanesTypes`). The inductive invariant `PanesInv` adds: a request not given out
has no reply; a query in progress is awaited in the table or answered, and its
window shows it as long as it is open (`AskInv`); no batch mixes drawings with
queries, so that the failing drawing which ends a GDI paint has no query behind
it, and what is left to paint belongs to the batch (`BatchInv`). The batch of a window
that can be seen is on its way (`OnItsWay`): it is on the screen, it is what is
being painted (`BeingPainted`), a paint is due or asked for next, or the last one
gave up; only the exits named in section 2 lead to that last case. While another
batch is being painted one of the other cases must hold already, which the
property alone does not say. `TextNeverGarbled`
proves `TextInOrder`; it must say the same of windows not yet opened (`TextInv`).

The assumptions are the named ones on constants, and nothing else: each bound
is any natural number, so the theorems hold without the runs' bounds.

`Recursion` is what these proofs use in the place of induction theorems that
take an operator: a set of numbers with 0 and the successor of each of its
elements has all numbers (`NatInductiveSet`); a recursive function over a set
with ranks exists (`RecursionDefines`); so does one that repeats a step
(`Iteration`). All are stated of sets and functions, and rest on the library's
well-founded order of finite sets. With them the recursive functions of the
models (chunks of a write, sums of bytes, repeated undo, rounds of Replace All,
walks over a rope) can be reasoned about, which is why Rope declares no
RECURSIVE operator.

Only model-checked: what is made of operators declared RECURSIVE, which the
prover cannot use: lowered and compiled programs, the parser and the lexer,
and classes; and liveness, which is beyond the prover (`ProgramEnds`,
the mailbox's `ArrivedEventWakes`, the panes' promises).

## 5. What is not modelled, and the plan

Left out for good: linking, optimisation and code generation inside LLVM; text
output and drawing, which are pure; stubs (audio, iGui on macOS, loader,
assembler); the command line. Left out of the compiler's models: strings and
WRITEF, Objective-C messages to Cocoa classes, ASM procedures, SYS, the selector
database, messages and positions of errors. USING, owned objects and FINISH are
in ScopeLowering and not in Codegen; the two share the loop and switch frames.
The removal of unused arenas after lowering is in ScopeLowering only. Programs of
`compile` avoid what section 6 lists, because there the code is known to differ
from the manual.

Work that remains, in order:

1. Shell jobs and the string memo of `objc.rs` (a memo keyed by address and
   length against strings that are freed and reissued); the crash symbol table
   (two words published to a signal handler).
2. The text grid (scrolling, resizing, the cursor at the margin) and the log's
   ring; the list of editor windows.
3. The code reservation of `jit_mm.rs`; the legacy collector's protocol.
4. Proofs: the layouts of classes, with chains of bases as recursive functions
   in the way of Rope's walks; the frames and cleanups of ScopeLowering, whose
   statement trees could be treated as ropes are.

## 6. Where the code departs from its documents

Found while modelling. `manual` is `docs/the_new_bcpl_programming_language.md`.

Memory and scopes
- A second FREEVEC of a pointer whose memory was reissued frees a stranger's
  block (heap.rs:159 against its comment, heap.rs:152-155); it is at most one
  block, which `FreeReleasesOne` says.
- `live_bytes` counts only the block that makes a chunk but subtracts whole
  chunks, so it can fall below the heap's bytes (heap.rs:200).
- RESULTIS leaves a USING without disposing its binding (lower.rs:939 against
  README.md:94-97).
- A reclaim block in a loop may release the object of an earlier turn again
  (lower.rs:2044 against memory_model.md:99-100).

Compiled programs
- Assignments of several targets are made one by one (lower.rs:2065; run
  `compile_swap`).
- FOR computes its limit and step on every turn (lower.rs:1408; manual:516 says
  once). A step that is negative but no literal compares with `<=`. A FOR up to
  the greatest integer does not end.
- BREAK in a SWITCHON in a loop leaves the switch only, and ENDCASE in a loop in
  a switch leaves the loop: both take the innermost frame (lower.rs:245).
- EQV compares two words (manual:408: bitwise). `x %% (0, 64)` loses its top bit,
  as widths are cut to 63.
- Arithmetic on PAIR, QUAD and OCT works on the whole word (manual, section 5.6:
  lane by lane); on FPAIR it converts the word.
- Assigning a lane or a bit field of a GLOBAL does nothing; an assignment to an
  unknown name neither.
- STATIC is not lowered (lower.rs:52, 883; manual, section 4.4).
- Integer and float operands mixed take the float's bits for an integer. Further
  places where hint, slot and value disagree: assignment to an `AS FLOAT`
  parameter; elements of a FVEC in FOREACH; `LET x AS FLOAT = 1`; conditionals
  and VALOFs with arms of both kinds; a float function called before it is
  declared, or by itself; `f!0` of a FVEC; FWRITE, FSQRT of an integer; FLOAT of
  a float; a plain RETURN in a float function.
- `GLOBAL g = -1` or `= 1.5` starts at 0; a MANIFEST float is not resolved;
  VEC and TABLE with one constant take it for a size, and VEC with one other
  expression makes a vector of one element.
- Negating a pointer, indexing by a float and an FPAIR with an integer lane end
  the compiler in the emitter, as does a local of a SWITCHON case that a nested
  IF comes before, used in the next case.
- AND and OR evaluate both sides. A list passed through a parameter without AS
  is walked by FOREACH as a vector. FREEVEC called as a function frees nothing.

Classes
- A field declared again in a subclass: the analysis finds the subclass's, the
  lowering the ancestor's (lower.rs:2298, 2369). `AccessReachesOwner` leaves
  shadowed fields out.
- A CREATE made for initialisers overrides a FINAL CREATE unnoticed (lib.rs:631
  of sema; manual:978, 1016); `FinalKept` leaves it out.
- Bare field names in a method pass visibility by (lower.rs:2683-2700); so does a
  receiver whose class becomes known only later.
- EXTENDS in a circle does not end the analysis. SUPER.m needs m in the immediate
  base. Initialisers of a base are not run if the subclass's CREATE does not call
  SUPER.CREATE. Method B_C of A and method C of A_B have one symbol, against the
  comment at lower.rs:3636-3641. An unknown base is NSObject to the JIT and nil
  to an executable's registrar.

Syntax
- Prefix operators take whole postfix chains: `-x()` is `-(x())`, `!x!x` is
  `!(x!x)` (parser.rs:2160-2161, 2281-2282). The manual's ladder (440-441) has
  them the other way round.
- The AND of `LET x = 1 AND y = 2` (manual:365) is read as the operator, so that
  y is not declared: only procedures have an AND chain (parser.rs:1018).
- `a!i!j` is `a!(i!j)` (parser.rs:2386; manual:741 says subscripts chain).
- A second DEFAULT takes the place of the first; an AS that no type follows is
  passed over; an AND chain leaves its tail to the program's top level; tagged
  brackets are cut but never accepted; `|` cannot stand in a lane's index.
- `LET f() = ASM {...}` in a class panics (parser.rs:695-698). The least integer
  cannot be written.

Box and GUI
- A fault that strikes while the runtime holds a lock hangs or aborts the box at
  its recovery (rosbox.rs:564, against BOX_PORT.md:21-22).
- RDCH still gives bytes of a buffered line or file after Escape (rosbox.rs:142).
- A render target that cannot be made or resized ends a paint without GDI and
  without answers (child.rs:104 against child.rs:14-17, 1493-1496). A text view without target or format, or whose EndDraw fails,
  shows nothing and asks for no other paint (text_view.rs:590-597, 737).
- A search forward with the cursor before a character of several bytes ends the
  process (bedit.rs:1170-1171, 3396-3397, against 1150-1154). One without regard
  to case may select other text where lower case changes a width
  (bedit.rs:3401-3410, 3425-3427).
- Keys of the prompt reach the text as well (bedit.rs:2830). Typing over a
  selection is two undo entries, not one (bedit.rs:28-29). Redoing a deletion
  inserts the text again (bedit.rs:1386 against bedit.rs:468-471); `strayed` ends
  the claims there.
