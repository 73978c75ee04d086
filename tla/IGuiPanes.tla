----------------------------- MODULE IGuiPanes -----------------------------
(***************************************************************************)
(* How a program's output reaches iGui's windows: the draw batches of      *)
(* batch.rs with the blocking text queries of replies.rs, painted by       *)
(* child.rs, and the command queues of text_view.rs with their flushes.    *)
(*                                                                         *)
(* The language thread and the GUI thread run side by side; each action is *)
(* what one of them does between two points where the other can see a      *)
(* change.  A draw command is named for the batch it was drawn in, a query  *)
(* for its request, a text command by its place in the order written.      *)
(***************************************************************************)
EXTENDS Naturals, SequencesExt

CONSTANTS
    Graphics, TextPanes,  \* the windows opened with OpenChild, OpenText
    MaxCmds,              \* bound: commands in a batch
    MaxBatches,           \* bound: batches begun by the program
    MaxRequests,          \* bound: queries asked
    MaxText               \* bound: text commands to a pane

Nobody == "nobody"

ASSUME PanesAssumption ==
    /\ Graphics \cap TextPanes = {}
    /\ MaxCmds \in Nat /\ MaxBatches \in Nat
    /\ MaxRequests \in Nat /\ MaxText \in Nat
    /\ Nobody \notin Graphics \cup TextPanes

Children == Graphics \cup TextPanes
Requests == 1..MaxRequests
Cmds == [kind : {"draw", "ask"}, id : Nat]
Asks(cmds) == {cmds[i].id : i \in {k \in DOMAIN cmds : cmds[k].kind = "ask"}}

VARIABLES
    life,         \* a window is "unopened", "open", "closing" or "gone"
    shown,        \* whether a window's client area is not empty
    dirty,        \* whether a WM_PAINT is due for the window
    CURRENT,      \* the batch being built by the language thread
    PANE_STATES,  \* the batch that a paint of a window shows, if it has one
    batches,      \* the number of batches begun
    SLOTS,        \* the requests whose reply is awaited by a slot
    reply,        \* what lies in the reply channel of a request
    requests,     \* the number of request ids given out
    lang,         \* where the language thread is
    subject,      \* the window and
    request,      \*   the request of its call, 0 for none
    gui,          \* where the GUI thread is
    target,       \* the window it paints or closes
    batch, rest,  \* the batch it paints and the commands still to come
    queue,        \* the text commands waiting for a flush
    posts,        \* the WM_IGUI_TEXT_FLUSH messages posted to the frame
    written,      \* the number of text commands queued for a pane so far
    grid,         \* history: the text commands applied to a pane
    screen,       \* history: the batch, or the text, last painted to the end
    missed        \* history: the windows whose last paint gave up, with no
                  \*   paint asked for since

pane == <<CURRENT, PANE_STATES, batches>>
ask  == <<SLOTS, reply, requests>>
text == <<queue, posts, written, grid>>
win  == <<life, shown, dirty, missed>>
langs == <<lang, subject, request>>
guis == <<gui, target, batch, rest>>
vars == <<win, pane, ask, text, screen, langs, guis>>

NoBatch == [open |-> FALSE, child |-> Nobody, cmds |-> <<>>]

Init ==
    /\ life = [c \in Children |-> "unopened"]
    /\ shown = [c \in Children |-> FALSE]
    /\ dirty = [c \in Children |-> FALSE] /\ missed = {}
    /\ CURRENT = NoBatch /\ PANE_STATES = [c \in {} |-> <<>>] /\ batches = 0
    /\ SLOTS = {} /\ reply = [r \in Requests |-> "none"] /\ requests = 0
    /\ queue = [c \in TextPanes |-> <<>>] /\ posts = <<>>
    /\ written = [c \in TextPanes |-> 0] /\ grid = [c \in TextPanes |-> <<>>]
    /\ screen = [c \in Children |-> <<>>]
    /\ lang = "free" /\ subject = Nobody /\ request = 0
    /\ gui = "pump" /\ target = Nobody /\ batch = <<>> /\ rest = <<>>

\* The language thread goes on in the program, or to a step of a call.
Free == lang' = "free" /\ subject' = Nobody /\ request' = 0
Goes(at, c, r) == lang' = at /\ subject' = c /\ request' = r

\* The GUI thread goes back to its pump, or to a step with window c.
Pump == gui' = "pump" /\ target' = Nobody /\ batch' = <<>> /\ rest' = <<>>
Turns(at, c, b, r) == gui' = at /\ target' = c /\ batch' = b /\ rest' = r

(***************************************************************************)
(* Windows.  The registry knows a graphics child until its WM_NCDESTROY    *)
(* has dropped its batch; a text view leaves the registry first and drops  *)
(* its queue and grid then.                                                *)
(***************************************************************************)
Registered(c) == life[c] = "open" \/ (c \in Graphics /\ life[c] = "closing")
HasQueue(c) == c \in TextPanes /\ life[c] \in {"open", "closing"}

\* InvalidateRect: a paint is due, whatever became of the last one.
Invalidate(c) ==
    /\ dirty' = [dirty EXCEPT ![c] = TRUE]
    /\ missed' = missed \ {c}

\* OpenChild and OpenText wait for the GUI thread to make the window.
open(c) ==
    /\ lang = "free" /\ gui = "pump" /\ life[c] = "unopened"
    /\ life' = [life EXCEPT ![c] = "open"]
    /\ shown' = [shown EXCEPT ![c] = TRUE]
    /\ Invalidate(c)
    /\ UNCHANGED <<pane, ask, text, screen, langs, guis>>

\* The user minimises a window or brings it back, which repaints it.
resize(c) ==
    /\ gui = "pump" /\ life[c] = "open"
    /\ shown' = [shown EXCEPT ![c] = ~shown[c]]
    /\ IF shown[c] THEN UNCHANGED <<dirty, missed>> ELSE Invalidate(c)
    /\ UNCHANGED <<life, pane, ask, text, screen, langs, guis>>

\* Another window uncovers this one.
expose(c) ==
    /\ gui = "pump" /\ life[c] = "open" /\ shown[c] /\ ~dirty[c]
    /\ Invalidate(c)
    /\ UNCHANGED <<life, shown, pane, ask, text, screen, langs, guis>>

\* WM_NCDESTROY, whoever closes the window: forget then unregister for a
\* graphics child, unregister then forget_pane for a text view.
ncdestroy(c) ==
    /\ gui = "pump" /\ life[c] = "open"
    /\ life' = [life EXCEPT ![c] = "closing"]
    /\ PANE_STATES' = IF c \in Graphics
                      THEN [x \in DOMAIN PANE_STATES \ {c} |-> PANE_STATES[x]]
                      ELSE PANE_STATES
    /\ Turns("closing", c, <<>>, <<>>)
    /\ UNCHANGED <<shown, dirty, missed, CURRENT, batches, ask, text, screen, langs>>

destroyed(c) ==
    /\ gui = "closing" /\ target = c
    /\ life' = [life EXCEPT ![c] = "gone"]
    /\ dirty' = [dirty EXCEPT ![c] = FALSE]
    /\ queue' = IF c \in TextPanes THEN [queue EXCEPT ![c] = <<>>] ELSE queue
    /\ Pump
    /\ UNCHANGED <<shown, missed, pane, ask, posts, written, grid, screen, langs>>

(***************************************************************************)
(* The language thread draws.                                              *)
(***************************************************************************)
begin(c) ==
    /\ lang = "free" /\ life[c] # "unopened" /\ batches < MaxBatches
    /\ CURRENT' = [open |-> TRUE, child |-> c, cmds |-> <<>>]
    /\ batches' = batches + 1
    /\ UNCHANGED <<win, PANE_STATES, ask, text, screen, langs, guis>>

push ==
    /\ lang = "free" /\ CURRENT.open /\ Len(CURRENT.cmds) < MaxCmds
    /\ CURRENT' = [open |-> TRUE, child |-> CURRENT.child,
                   cmds |-> Append(CURRENT.cmds, [kind |-> "draw", id |-> batches])]
    /\ UNCHANGED <<win, PANE_STATES, batches, ask, text, screen, langs, guis>>

\* submit in two steps: the batch becomes the one to show, then the window,
\* if it is still registered, is to be painted.
Insert(c, cmds, r) ==
    /\ PANE_STATES' = [x \in DOMAIN PANE_STATES \cup {c} |->
                           IF x = c THEN cmds ELSE PANE_STATES[x]]
    /\ CURRENT' = NoBatch
    /\ Goes("invalidate", c, r)

submit_batch ==
    /\ lang = "free" /\ CURRENT.open
    /\ Insert(CURRENT.child, CURRENT.cmds, 0)
    /\ UNCHANGED <<win, batches, ask, text, screen, guis>>

\* MeasureTextRun, CharIndexAtPoint, PointAtCharIndex: a slot for the reply and
\* a batch of one query, begun over whatever batch was being built.
AllocId == requests + 1

query(c) ==
    /\ lang = "free" /\ life[c] # "unopened" /\ requests < MaxRequests
    /\ requests' = requests + 1
    /\ SLOTS' = SLOTS \cup {AllocId}
    /\ Insert(c, <<[kind |-> "ask", id |-> AllocId]>>, AllocId)
    /\ UNCHANGED <<win, batches, reply, text, screen, guis>>

\* Without a window a query fails at once and leaves its slot behind.
invalidate_waits_only ==  \* fault: a drawn batch does not ask for a paint
    /\ lang = "invalidate"
    /\ IF request # 0 /\ Registered(subject)
       THEN Invalidate(subject) /\ Goes("wait", subject, request)
       ELSE Free /\ UNCHANGED <<dirty, missed>>
    /\ UNCHANGED <<life, shown, pane, ask, text, screen, guis>>

invalidate ==
    /\ lang = "invalidate"
    /\ IF Registered(subject) THEN Invalidate(subject) ELSE UNCHANGED <<dirty, missed>>
    /\ IF Registered(subject) /\ request # 0
       THEN Goes("wait", subject, request) ELSE Free
    /\ UNCHANGED <<life, shown, pane, ask, text, screen, guis>>

\* wait: the reply, or after five seconds none.
wait ==
    /\ lang = "wait" /\ reply[request] # "none"
    /\ Free
    /\ UNCHANGED <<win, pane, ask, text, screen, guis>>

wait_times_out ==
    /\ lang = "wait"
    /\ Free
    /\ UNCHANGED <<win, pane, ask, text, screen, guis>>

(***************************************************************************)
(* The GUI thread paints a graphics child: BeginPaint settles that a paint *)
(* was due, the render target is made or resized, the batch is read after  *)
(* that, and its commands are executed.                                    *)
(***************************************************************************)
begin_paint(c) ==
    /\ gui = "pump" /\ c \in Graphics /\ life[c] = "open" /\ dirty[c]
    /\ dirty' = [dirty EXCEPT ![c] = FALSE]
    /\ missed' = missed \ {c}
    /\ IF shown[c] THEN Turns("snapshot", c, <<>>, <<>>) ELSE Pump
    /\ UNCHANGED <<life, shown, pane, ask, text, screen, langs>>

\* A paint that was due ends and shows nothing new.
GivesUp ==
    /\ missed' = missed \cup {target}
    /\ Pump
    /\ UNCHANGED <<life, shown, dirty, pane, ask, text, screen, langs>>

\* No device context, client rectangle or render target, or one that cannot be
\* resized: render returns before it has read the batch, and GDI is not tried.
\* The error may strike any paint here, also one whose target is at hand.
render_fails == gui = "snapshot" /\ GivesUp

snapshot ==
    /\ gui = "snapshot"
    /\ LET cmds == IF target \in DOMAIN PANE_STATES THEN PANE_STATES[target] ELSE <<>>
       IN Turns("d2d", target, cmds, cmds)
    /\ UNCHANGED <<win, pane, ask, text, screen, langs>>

\* deliver: the first answer takes the slot away; it goes nowhere when the
\* language thread has stopped waiting for it.
Receiver(r) == request = r /\ lang \in {"invalidate", "wait"}

deliver_peeks(r, answer) ==  \* fault: the slot stays
    /\ UNCHANGED SLOTS
    /\ reply' = IF r \in SLOTS /\ Receiver(r) THEN [reply EXCEPT ![r] = answer] ELSE reply

deliver(r, answer) ==
    /\ SLOTS' = SLOTS \ {r}
    /\ reply' = IF r \in SLOTS /\ Receiver(r) THEN [reply EXCEPT ![r] = answer] ELSE reply

Painting == gui \in {"d2d", "gdi"}
AtDrawing == rest # <<>> /\ Head(rest).kind = "draw"

draw ==
    /\ Painting /\ AtDrawing
    /\ Turns(gui, target, batch, Tail(rest))
    /\ UNCHANGED <<win, pane, ask, text, screen, langs>>

\* A layout may fail to build; GDI answers no query.
answer ==
    /\ Painting /\ rest # <<>> /\ ~AtDrawing
    /\ Turns(gui, target, batch, Tail(rest))
    /\ \E a \in {"found", "failed"} :
          /\ a = "failed" \/ gui = "d2d"
          /\ deliver(Head(rest).id, a)
    /\ UNCHANGED <<win, pane, requests, text, screen, langs>>

\* A drawing, or EndDraw, fails in Direct2D once the target is there: the whole
\* batch again with GDI.
d2d_fails ==
    /\ gui = "d2d" /\ (AtDrawing \/ rest = <<>>)
    /\ Turns("gdi", target, batch, batch)
    /\ UNCHANGED <<win, pane, ask, text, screen, langs>>

end_paint_validates ==  \* fault: the window is valid only now
    /\ Painting /\ rest = <<>>
    /\ dirty' = [dirty EXCEPT ![target] = FALSE]
    /\ screen' = [screen EXCEPT ![target] = batch]
    /\ Pump
    /\ UNCHANGED <<life, shown, missed, pane, ask, text, langs>>

end_paint ==
    /\ Painting /\ rest = <<>>
    /\ screen' = [screen EXCEPT ![target] = batch]
    /\ Pump
    /\ UNCHANGED <<win, pane, ask, text, langs>>

\* A drawing that fails in GDI too ends the paint part of the way.
gdi_fails == gui = "gdi" /\ AtDrawing /\ GivesUp

(***************************************************************************)
(* Text.  Writing never waits: the language thread queues a command, then  *)
(* posts a flush; a flush applies everything queued by then.               *)
(***************************************************************************)
enqueue(c) ==
    /\ lang = "free" /\ HasQueue(c) /\ written[c] < MaxText
    /\ written' = [written EXCEPT ![c] = @ + 1]
    /\ queue' = [queue EXCEPT ![c] = Append(@, written[c] + 1)]
    /\ Goes("post", c, 0)
    /\ UNCHANGED <<win, pane, ask, posts, grid, screen, guis>>

post_text_flush ==
    /\ lang = "post"
    /\ posts' = Append(posts, subject)
    /\ Free
    /\ UNCHANGED <<win, pane, ask, queue, written, grid, screen, guis>>

Drained_copy(c) == queue             \* fault: the queue is copied, not taken
Drained(c) == [queue EXCEPT ![c] = <<>>]

flush_invalidates_none(c) == UNCHANGED <<dirty, missed>>   \* fault: no paint is asked for
Flushed(c) == IF Registered(c) THEN Invalidate(c) ELSE UNCHANGED <<dirty, missed>>

flush ==
    /\ gui = "pump" /\ posts # <<>>
    /\ posts' = Tail(posts)
    /\ LET c == Head(posts) IN
       IF HasQueue(c)
       THEN /\ grid' = [grid EXCEPT ![c] = @ \o queue[c]]
            /\ queue' = Drained(c)
            /\ Flushed(c)
       ELSE UNCHANGED <<grid, queue, dirty, missed>>
    /\ UNCHANGED <<life, shown, pane, ask, written, screen, langs, guis>>

\* The paint shows the grid, or nothing where the client rectangle, the target,
\* the text format or the pane's lock cannot be had or EndDraw fails: each is
\* passed over in silence.
paint_text(c) ==
    /\ gui = "pump" /\ c \in TextPanes /\ life[c] = "open" /\ dirty[c]
    /\ dirty' = [dirty EXCEPT ![c] = FALSE]
    /\ \/ shown[c] /\ screen' = [screen EXCEPT ![c] = grid[c]] /\ missed' = missed \ {c}
       \/ shown[c] /\ missed' = missed \cup {c} /\ UNCHANGED screen
       \/ ~shown[c] /\ missed' = missed \ {c} /\ UNCHANGED screen
    /\ UNCHANGED <<life, shown, pane, ask, queue, posts, written, grid, langs, guis>>

Language == push \/ submit_batch \/ invalidate \/ wait \/ wait_times_out
            \/ post_text_flush
            \/ \E c \in Children : open(c) \/ begin(c) \/ query(c) \/ enqueue(c)

GuiThread == snapshot \/ render_fails \/ draw \/ answer \/ d2d_fails \/ gdi_fails
             \/ end_paint \/ flush
             \/ \E c \in Children : \/ resize(c) \/ expose(c) \/ ncdestroy(c)
                                    \/ destroyed(c) \/ begin_paint(c) \/ paint_text(c)

Next == Language \/ GuiThread

\* The GUI thread finishes what it has begun and its pump starves no message;
\* the language thread finishes a call once begun.
Spec == /\ Init /\ [][Next]_vars
        /\ WF_vars(snapshot \/ render_fails \/ draw \/ answer \/ end_paint \/ gdi_fails
                   \/ \E c \in Children : destroyed(c))
        /\ SF_vars(flush)
        /\ \A c \in TextPanes : SF_vars(paint_text(c))
        /\ WF_vars(invalidate \/ post_text_flush)

-----------------------------------------------------------------------------

\* Every variable keeps its type, a slot is for a request given out, and a call
\* or a paint in progress has a window.
PanesTypeOK ==
    /\ life \in [Children -> {"unopened", "open", "closing", "gone"}]
    /\ shown \in [Children -> BOOLEAN] /\ dirty \in [Children -> BOOLEAN]
    /\ missed \subseteq Children
    /\ CURRENT \in [open : BOOLEAN, child : Children \cup {Nobody}, cmds : Seq(Cmds)]
    /\ DOMAIN PANE_STATES \subseteq Children
    /\ \A c \in DOMAIN PANE_STATES : PANE_STATES[c] \in Seq(Cmds)
    /\ batches \in 0..MaxBatches /\ requests \in 0..MaxRequests
    /\ SLOTS \subseteq 1..requests
    /\ reply \in [Requests -> {"none", "found", "failed"}]
    /\ queue \in [TextPanes -> Seq(Nat)] /\ posts \in Seq(TextPanes)
    /\ written \in [TextPanes -> 0..MaxText] /\ grid \in [TextPanes -> Seq(Nat)]
    /\ DOMAIN screen = Children
    /\ \A c \in Graphics : screen[c] \in Seq(Cmds)
    /\ \A c \in TextPanes : screen[c] \in Seq(Nat)
    /\ lang \in {"free", "invalidate", "wait", "post"}
    /\ subject \in Children \cup {Nobody} /\ request \in 0..requests
    /\ gui \in {"pump", "closing", "snapshot", "d2d", "gdi"}
    /\ target \in Children \cup {Nobody}
    /\ batch \in Seq(Cmds) /\ rest \in Seq(Cmds)
    /\ CURRENT.open => CURRENT.child \in Children
    /\ lang # "free" => subject \in Children
    /\ lang = "post" => subject \in TextPanes
    /\ gui = "closing" => target \in Children
    /\ gui \in {"snapshot", "d2d", "gdi"} => target \in Graphics

Visible(c) == c \in Graphics /\ life[c] = "open" /\ shown[c]

AnswerIsComing ==
    \/ reply[request] # "none"
    \/ dirty[subject]
    \/ gui = "snapshot" /\ target = subject
    \/ Painting /\ request \in Asks(rest)

\* While a program waits for a query, the answer has come or will come with a
\* paint that is due or going on, unless the window is a text view, cannot be
\* seen, or has just had a paint that gave up: no wake-up is lost between the
\* submit and the paint (replies.rs:8, child.rs:1741).
NoQuestionForgotten ==
    lang = "wait" /\ Visible(subject) => AnswerIsComing \/ subject \in missed

\* The one place in a reply channel is free when the GUI thread sends into it,
\* although every repaint answers the queries of its batch again (replies.rs:70).
GuiNeverBlocks == \A r \in SLOTS : reply[r] = "none"

\* The batch a window is to show has been painted to its end, or a paint that
\* reads it is due or going on, or the submit is about to ask for one, or the
\* paint that was due gave up: the last of several quick batches is never the
\* one that is missed (batch.rs:12).
LastBatchPainted ==
    \A c \in DOMAIN PANE_STATES :
        Visible(c) =>
            \/ screen[c] = PANE_STATES[c]
            \/ dirty[c]
            \/ gui = "snapshot" /\ target = c
            \/ Painting /\ target = c /\ batch = PANE_STATES[c]
            \/ lang = "invalidate" /\ subject = c
            \/ c \in missed

\* A text view's grid and queue hold what was written, in order and once.
TextInOrder ==
    \A c \in TextPanes : HasQueue(c) =>
        grid[c] \o queue[c] = [i \in 1..written[c] |-> i]

\* What is written to a text view that stays open and visible is seen, unless
\* the paint that was to show it gave up and none has been asked for since.
TextSeen ==
    \A c \in TextPanes : \A k \in 1..MaxText :
        (k <= written[c]) ~>
            \/ Len(screen[c]) >= k
            \/ life[c] # "open" \/ ~shown[c]
            \/ c \in missed /\ Len(grid[c]) >= k

\* A text view never garbles its text and in the end shows all of it.
TextArrives == []TextInOrder /\ TextSeen

=============================================================================
