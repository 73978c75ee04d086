-------------------------- MODULE IGuiPanesProofs --------------------------
(***************************************************************************)
(* Proofs about IGuiPanes for every set of windows and every bound: the    *)
(* hand-over of batches, queries and replies between the two threads loses *)
(* no wake-up and never makes the GUI thread wait.                         *)
(***************************************************************************)
EXTENDS IGuiPanes, SequenceTheorems, TLAPS

\* The type invariant holds in every reachable state.
LEMMA TypeInit == Init => PanesTypeOK
BY PanesAssumption DEF Init, PanesTypeOK, NoBatch, Requests, Children, Cmds

\* What submit and the queries have in common keeps the types.
InsertTyped(r) ==
    /\ CURRENT' \in [open : BOOLEAN, child : Children \cup {Nobody}, cmds : Seq(Cmds)]
    /\ CURRENT'.open => CURRENT'.child \in Children
    /\ DOMAIN PANE_STATES' \subseteq Children
    /\ \A c \in DOMAIN PANE_STATES' : PANE_STATES'[c] \in Seq(Cmds)
    /\ lang' = "invalidate" /\ subject' \in Children /\ request' = r

\* Inserting a batch of typed commands for a window gives typed pane states.
LEMMA InsertType ==
    ASSUME PanesTypeOK, NEW c \in Children, NEW cmds \in Seq(Cmds), NEW r,
           Insert(c, cmds, r)
    PROVE  InsertTyped(r)
<1>1. NoBatch \in [open : BOOLEAN, child : Children \cup {Nobody}, cmds : Seq(Cmds)]
      /\ ~NoBatch.open
  <2>1. <<>> \in Seq(Cmds)
    OBVIOUS
  <2> QED
    BY <2>1 DEF NoBatch
<1>2. /\ DOMAIN PANE_STATES' = DOMAIN PANE_STATES \cup {c}
      /\ \A x \in DOMAIN PANE_STATES' :
             PANE_STATES'[x] = IF x = c THEN cmds ELSE PANE_STATES[x]
  BY DEF Insert
<1>3. DOMAIN PANE_STATES \subseteq Children
      /\ \A x \in DOMAIN PANE_STATES : PANE_STATES[x] \in Seq(Cmds)
  BY DEF PanesTypeOK
<1>4. DOMAIN PANE_STATES' \subseteq Children
      /\ \A x \in DOMAIN PANE_STATES' : PANE_STATES'[x] \in Seq(Cmds)
  BY <1>2, <1>3
<1> QED
  BY <1>1, <1>4 DEF Insert, Goes, InsertTyped

\* Every step keeps the types.
LEMMA TypeStep == PanesTypeOK /\ [Next]_vars => PanesTypeOK'
<1> SUFFICES ASSUME PanesTypeOK, [Next]_vars PROVE PanesTypeOK'
  OBVIOUS
<1> USE PanesAssumption DEF PanesTypeOK, Children, Requests, Cmds
<1>0. <<>> \in Seq(Cmds) /\ <<>> \in Seq(Nat)
  OBVIOUS
<1>1. ASSUME NEW c \in Children, open(c) PROVE PanesTypeOK'
  BY <1>1 DEF open, Invalidate, pane, ask, text, langs, guis
<1>2. ASSUME NEW c \in Children, resize(c) PROVE PanesTypeOK'
  BY <1>2 DEF resize, Invalidate, pane, ask, text, langs, guis
<1>3. ASSUME NEW c \in Children, expose(c) PROVE PanesTypeOK'
  BY <1>3 DEF expose, Invalidate, pane, ask, text, langs, guis
<1>4. ASSUME NEW c \in Children, ncdestroy(c) PROVE PanesTypeOK'
  <2>1. life' \in [Children -> {"unopened", "open", "closing", "gone"}]
    BY <1>4 DEF ncdestroy
  <2>2. /\ DOMAIN PANE_STATES' \subseteq Children
        /\ \A x \in DOMAIN PANE_STATES' : PANE_STATES'[x] \in Seq(Cmds)
    BY <1>4 DEF ncdestroy
  <2>3. /\ gui' = "closing" /\ target' \in Children
        /\ batch' \in Seq(Cmds) /\ rest' \in Seq(Cmds)
    BY <1>0, <1>4 DEF ncdestroy, Turns
  <2> QED
    BY <1>4, <2>1, <2>2, <2>3 DEF ncdestroy, ask, text, langs
<1>5. ASSUME NEW c \in Children, destroyed(c) PROVE PanesTypeOK'
  <2>1. /\ life' \in [Children -> {"unopened", "open", "closing", "gone"}]
        /\ dirty' \in [Children -> BOOLEAN]
    BY <1>5 DEF destroyed
  <2>2. queue' \in [TextPanes -> Seq(Nat)]
    BY <1>0, <1>5 DEF destroyed
  <2>3. /\ gui' = "pump" /\ target' = Nobody
        /\ batch' \in Seq(Cmds) /\ rest' \in Seq(Cmds)
    BY <1>0, <1>5 DEF destroyed, Pump
  <2> QED
    BY <1>5, <2>1, <2>2, <2>3 DEF destroyed, pane, ask, langs
<1>6. ASSUME NEW c \in Children, begin(c) PROVE PanesTypeOK'
  <2>1. <<>> \in Seq(Cmds)
    OBVIOUS
  <2>2. CURRENT' \in [open : BOOLEAN, child : Children \cup {Nobody}, cmds : Seq(Cmds)]
        /\ (CURRENT'.open => CURRENT'.child \in Children)
    BY <1>6, <2>1 DEF begin
  <2>3. batches' \in 0..MaxBatches
    BY <1>6 DEF begin
  <2> QED
    BY <1>6, <2>2, <2>3 DEF begin, win, ask, text, langs, guis
<1>7. CASE push
  <2>1. [kind |-> "draw", id |-> batches] \in Cmds
    OBVIOUS
  <2>2. Append(CURRENT.cmds, [kind |-> "draw", id |-> batches]) \in Seq(Cmds)
    BY <2>1
  <2>3. CURRENT' \in [open : BOOLEAN, child : Children \cup {Nobody}, cmds : Seq(Cmds)]
        /\ (CURRENT'.open => CURRENT'.child \in Children)
    BY <1>7, <2>2 DEF push
  <2> QED
    BY <1>7, <2>3 DEF push, win, ask, text, langs, guis
<1>8. CASE submit_batch
  <2>1. CURRENT.child \in Children /\ CURRENT.cmds \in Seq(Cmds)
    BY <1>8 DEF submit_batch
  <2>2. Insert(CURRENT.child, CURRENT.cmds, 0)
    BY <1>8 DEF submit_batch
  <2>3. InsertTyped(0)
    BY <2>1, <2>2, InsertType
  <2> QED
    BY <1>8, <2>1, <2>2, <2>3
    DEF submit_batch, InsertTyped, Insert, Goes, win, ask, text, guis
<1>9. ASSUME NEW c \in Children, query(c) PROVE PanesTypeOK'
  <2>1. AllocId \in 1..requests' /\ requests' \in 0..MaxRequests
        /\ SLOTS' \subseteq 1..requests'
    BY <1>9 DEF query, AllocId
  <2>2. [kind |-> "ask", id |-> AllocId] \in Cmds
    BY <2>1
  <2>3. <<[kind |-> "ask", id |-> AllocId]>> \in Seq(Cmds)
    BY <2>2
  <2>4. Insert(c, <<[kind |-> "ask", id |-> AllocId]>>, AllocId)
    BY <1>9 DEF query
  <2>5. InsertTyped(AllocId)
    BY <2>3, <2>4, InsertType
  <2> QED
    <3>1. request' \in 0..requests'
      BY <2>1, <2>5 DEF InsertTyped
    <3> QED
      BY <1>9, <2>1, <2>5, <3>1 DEF query, InsertTyped, win, text, guis
<1>10. CASE invalidate
  <2>1. dirty' \in [Children -> BOOLEAN] /\ missed' \subseteq Children
    BY <1>10 DEF invalidate, Invalidate
  <2>2. /\ lang' \in {"free", "wait"} /\ request' \in 0..requests
        /\ subject' \in Children \cup {Nobody}
        /\ lang' # "free" => subject' \in Children
    BY <1>10 DEF invalidate, Goes, Free
  <2> QED
    BY <1>10, <2>1, <2>2 DEF invalidate, pane, ask, text, guis
<1>11. CASE wait \/ wait_times_out
  <2>1. lang' = "free" /\ subject' = Nobody /\ request' \in 0..requests
    BY <1>11 DEF wait, wait_times_out, Free
  <2> QED
    BY <1>11, <2>1 DEF wait, wait_times_out, win, pane, ask, text, guis
<1>12. ASSUME NEW c \in Children, begin_paint(c) PROVE PanesTypeOK'
  <2>1. dirty' \in [Children -> BOOLEAN] /\ missed' \subseteq Children
    BY <1>12 DEF begin_paint
  <2>2. /\ gui' \in {"snapshot", "pump"} /\ target' \in Children \cup {Nobody}
        /\ gui' = "snapshot" => target' \in Graphics
        /\ batch' \in Seq(Cmds) /\ rest' \in Seq(Cmds)
    BY <1>0, <1>12 DEF begin_paint, Turns, Pump
  <2> QED
    BY <1>12, <2>1, <2>2 DEF begin_paint, pane, ask, text, langs
<1>13. CASE snapshot
  <2> DEFINE read == IF target \in DOMAIN PANE_STATES THEN PANE_STATES[target] ELSE <<>>
  <2>1. target \in Graphics /\ gui' = "d2d" /\ target' = target
        /\ batch' = read /\ rest' = read
    BY <1>13 DEF snapshot, Turns
  <2>2. read \in Seq(Cmds)
    OBVIOUS
  <2> HIDE DEF read
  <2> QED
    BY <1>13, <2>1, <2>2 DEF snapshot, win, pane, ask, text, langs
<1>14. CASE draw
  <2>1. Tail(rest) \in Seq(Cmds)
    BY <1>14 DEF draw, AtDrawing
  <2> QED
    BY <1>14, <2>1 DEF draw, Turns, Painting, win, pane, ask, text, langs
<1>15. CASE answer
  <2>1. Tail(rest) \in Seq(Cmds)
    BY <1>15 DEF answer
  <2>2. SLOTS' \subseteq SLOTS /\ reply' \in [Requests -> {"none", "found", "failed"}]
    BY <1>15 DEF answer, deliver
  <2> QED
    BY <1>15, <2>1, <2>2 DEF answer, Turns, Painting, win, pane, text, langs
<1>16. CASE d2d_fails
  BY <1>16 DEF d2d_fails, Turns, win, pane, ask, text, langs
<1>17. CASE end_paint
  <2>1. target \in Graphics /\ screen' = [screen EXCEPT ![target] = batch]
    BY <1>17 DEF end_paint, Painting
  <2>2. /\ DOMAIN screen' = Children
        /\ \A c \in Graphics : screen'[c] \in Seq(Cmds)
        /\ \A c \in TextPanes : screen'[c] \in Seq(Nat)
    BY <2>1
  <2> QED
    BY <1>0, <1>17, <2>2 DEF end_paint, Pump, win, pane, ask, text, langs
<1>23. CASE render_fails \/ gdi_fails
  <2>1. target \in Children /\ GivesUp
    BY <1>23 DEF render_fails, gdi_fails
  <2> QED
    BY <1>0, <2>1 DEF GivesUp, Pump, pane, ask, text, langs
<1>18. ASSUME NEW c \in Children, enqueue(c) PROVE PanesTypeOK'
  <2>1. c \in TextPanes /\ written[c] + 1 \in Nat /\ written[c] + 1 \in 0..MaxText
    BY <1>18 DEF enqueue, HasQueue
  <2>2. Append(queue[c], written[c] + 1) \in Seq(Nat)
    BY <2>1
  <2>3. queue' \in [TextPanes -> Seq(Nat)]
    BY <1>18, <2>1, <2>2 DEF enqueue
  <2>4. written' \in [TextPanes -> 0..MaxText]
    BY <1>18, <2>1 DEF enqueue
  <2> QED
    <3>1. lang' = "post" /\ subject' \in TextPanes /\ request' \in 0..requests
      BY <1>18, <2>1 DEF enqueue, Goes
    <3> QED
      BY <1>18, <2>3, <2>4, <3>1 DEF enqueue, win, pane, ask, guis
<1>19. CASE post_text_flush
  <2>1. Append(posts, subject) \in Seq(TextPanes)
    BY <1>19 DEF post_text_flush
  <2> QED
    BY <1>19, <2>1 DEF post_text_flush, Free, win, pane, ask, guis
<1>20. CASE flush
  <2> DEFINE c == Head(posts)
  <2>1. c \in TextPanes /\ posts' \in Seq(TextPanes)
    BY <1>20 DEF flush
  <2>2. CASE HasQueue(c)
    <3>1. /\ grid' = [grid EXCEPT ![c] = @ \o queue[c]]
          /\ queue' = [queue EXCEPT ![c] = <<>>] /\ Flushed(c)
      BY <1>20, <2>2 DEF flush, Drained
    <3> HIDE DEF c
    <3>2. grid[c] \o queue[c] \in Seq(Nat)
      BY <2>1
    <3>3. grid' \in [TextPanes -> Seq(Nat)]
      BY <3>1, <3>2, <2>1
    <3>4. queue' \in [TextPanes -> Seq(Nat)]
      BY <3>1, <2>1
    <3>5. dirty' \in [Children -> BOOLEAN] /\ missed' \subseteq Children
      BY <3>1, <2>1 DEF Flushed, Invalidate
    <3> QED
      BY <1>20, <2>1, <3>3, <3>4, <3>5 DEF flush, pane, ask, langs, guis
  <2>3. CASE ~HasQueue(c)
    BY <1>20, <2>1, <2>3 DEF flush, pane, ask, langs, guis
  <2> QED
    BY <2>2, <2>3
<1>21. ASSUME NEW c \in Children, paint_text(c) PROVE PanesTypeOK'
  <2>1. c \in TextPanes /\ dirty' \in [Children -> BOOLEAN] /\ missed' \subseteq Children
    BY <1>21 DEF paint_text
  <2>2. /\ DOMAIN screen' = Children
        /\ \A x \in Graphics : screen'[x] \in Seq(Cmds)
        /\ \A x \in TextPanes : screen'[x] \in Seq(Nat)
    <3>1. screen' = screen \/ screen' = [screen EXCEPT ![c] = grid[c]]
      BY <1>21 DEF paint_text
    <3>2. grid[c] \in Seq(Nat) /\ c \notin Graphics
      BY <2>1
    <3> QED
      BY <2>1, <3>1, <3>2
  <2> QED
    BY <1>21, <2>1, <2>2 DEF paint_text, pane, ask, langs, guis
<1>22. CASE UNCHANGED vars
  BY <1>22 DEF vars, win, pane, ask, text, langs, guis
<1> QED
  BY <1>1, <1>2, <1>3, <1>4, <1>5, <1>6, <1>7, <1>8, <1>9, <1>10, <1>11, <1>12,
     <1>13, <1>14, <1>15, <1>16, <1>17, <1>18, <1>19, <1>20, <1>21, <1>22, <1>23
  DEF Next, Language, GuiThread

-----------------------------------------------------------------------------
\* The GUI thread never waits for the language thread.

\* A request not given out has no reply, and an awaited slot none yet.
SlotsInv ==
    /\ GuiNeverBlocks
    /\ \A r \in Requests : r > requests => reply[r] = "none"

\* Every step keeps the reply channels of awaited slots empty.
LEMMA SlotsStep ==
    ASSUME PanesTypeOK, SlotsInv, [Next]_vars
    PROVE  SlotsInv'
<1> USE DEF SlotsInv, GuiNeverBlocks, Requests
<1>1. CASE UNCHANGED ask
  BY <1>1 DEF ask
<1>2. ASSUME NEW c \in Children, query(c) PROVE SlotsInv'
  <2>1. /\ requests \in Nat /\ MaxRequests \in Nat /\ requests < MaxRequests
        /\ requests' = requests + 1 /\ SLOTS' = SLOTS \cup {requests + 1}
        /\ reply' = reply
    BY <1>2, PanesAssumption DEF query, AllocId, PanesTypeOK
  <2>2. requests + 1 \in Requests /\ requests + 1 > requests
    BY <2>1, PanesAssumption
  <2> QED
    BY <2>1, <2>2
<1>3. CASE answer
  <2>1. PICK r, a : deliver(r, a)
    BY <1>3 DEF answer
  <2>2. requests' = requests /\ SLOTS' = SLOTS \ {r} /\ SLOTS \subseteq 1..requests
    BY <1>3, <2>1 DEF answer, deliver, PanesTypeOK
  <2>3. \A x \in Requests : x # r => reply'[x] = reply[x]
    BY <2>1 DEF deliver, PanesTypeOK
  <2>4. r \notin SLOTS => reply' = reply
    BY <2>1 DEF deliver
  <2>5. requests \in Nat /\ SLOTS \subseteq Requests
    BY <2>2, PanesAssumption DEF PanesTypeOK
  <2> QED
    BY <2>2, <2>3, <2>4, <2>5, PanesAssumption
<1> QED
  BY <1>1, <1>2, <1>3
  DEF Next, Language, GuiThread, vars, ask, open, resize, expose, ncdestroy, destroyed,
      begin, push, submit_batch, invalidate, wait, wait_times_out, begin_paint,
      snapshot, draw, d2d_fails, end_paint, render_fails, gdi_fails, GivesUp, enqueue,
      post_text_flush, flush, paint_text

-----------------------------------------------------------------------------
\* The last batch is painted.

\* While a window is being painted only that paint, or the next one, counts: the
\* screen may hold the batch to show and be about to lose it to an older one.
BeingPainted(c) == Painting /\ target = c

OnItsWay(c) ==
    \/ BeingPainted(c) /\ batch = PANE_STATES[c]
    \/ ~BeingPainted(c) /\ (screen[c] = PANE_STATES[c] \/ c \in missed)
    \/ dirty[c]
    \/ gui = "snapshot" /\ target = c
    \/ lang = "invalidate" /\ subject = c

LastBatchInv == \A c \in DOMAIN PANE_STATES : Visible(c) => OnItsWay(c)

\* Every step that makes a batch the one to show, shows the window or takes the
\* due paint away leaves another reason for it to reach the screen.
LEMMA LastBatchStep ==
    ASSUME PanesTypeOK, LastBatchInv, [Next]_vars
    PROVE  LastBatchInv'
<1> SUFFICES ASSUME NEW w \in Graphics, w \in DOMAIN PANE_STATES', Visible(w)'
             PROVE  OnItsWay(w)'
  BY DEF LastBatchInv, Visible
<1>0. /\ w \in Children
      /\ w \in DOMAIN PANE_STATES /\ Visible(w) => OnItsWay(w)
      /\ life \in [Children -> {"unopened", "open", "closing", "gone"}]
      /\ shown \in [Children -> BOOLEAN] /\ dirty \in [Children -> BOOLEAN]
      /\ DOMAIN screen = Children
      /\ w \notin TextPanes
  BY PanesAssumption DEF LastBatchInv, PanesTypeOK, Children
<1>1. /\ w \in DOMAIN PANE_STATES'
      /\ life'[w] = "open" /\ shown'[w]
  BY DEF Visible
<1>2. ASSUME NEW c \in Children, open(c) PROVE OnItsWay(w)'
  <2>1. CASE c = w
    BY <1>0, <1>2, <2>1 DEF open, Invalidate, OnItsWay, BeingPainted
  <2>2. CASE c # w
    BY <1>0, <1>1, <1>2, <2>2 DEF open, Invalidate, Visible, Painting, OnItsWay, BeingPainted, pane, langs, guis
  <2> QED
    BY <2>1, <2>2
<1>3. ASSUME NEW c \in Children, resize(c) \/ expose(c) PROVE OnItsWay(w)'
  <2>1. CASE c = w
    BY <1>0, <1>1, <1>3, <2>1 DEF resize, expose, Invalidate, OnItsWay, BeingPainted
  <2>2. CASE c # w
    BY <1>0, <1>1, <1>3, <2>2 DEF resize, expose, Invalidate, Visible, Painting, OnItsWay, BeingPainted,
                                         pane, langs, guis
  <2> QED
    BY <2>1, <2>2
<1>4. ASSUME NEW c \in Children, ncdestroy(c) \/ destroyed(c) PROVE OnItsWay(w)'
  <2>1. life[w] = "open" /\ shown[w] /\ c # w /\ dirty'[w] = dirty[w] /\ missed' = missed
    BY <1>0, <1>1, <1>4 DEF ncdestroy, destroyed
  <2>2. w \in DOMAIN PANE_STATES /\ PANE_STATES'[w] = PANE_STATES[w]
    BY <1>1, <1>4, <2>1 DEF ncdestroy, destroyed, pane
  <2>3. OnItsWay(w)
    BY <1>0, <2>1, <2>2 DEF Visible
  <2>4. /\ gui # "snapshot" /\ ~Painting /\ ~Painting'
        /\ screen' = screen /\ lang' = lang /\ subject' = subject
    BY <1>4 DEF ncdestroy, destroyed, Turns, Pump, Painting, langs
  <2> QED
    BY <2>1, <2>2, <2>3, <2>4 DEF OnItsWay, BeingPainted
<1>5. ASSUME NEW c, NEW cmds, NEW r, Insert(c, cmds, r), lang = "free",
             UNCHANGED <<win, screen, guis>>
      PROVE  OnItsWay(w)'
  <2>1. CASE c = w
    BY <1>5, <2>1 DEF Insert, Goes, OnItsWay, BeingPainted
  <2>2. CASE c # w
    <3>1. w \in DOMAIN PANE_STATES /\ PANE_STATES'[w] = PANE_STATES[w]
      BY <1>1, <1>5, <2>2 DEF Insert
    <3>2. OnItsWay(w)
      BY <1>0, <1>1, <1>5, <3>1 DEF win, Visible
    <3> QED
      BY <1>5, <3>1, <3>2 DEF OnItsWay, BeingPainted, Painting, win, guis
  <2> QED
    BY <2>1, <2>2
<1>6. CASE invalidate
  <2>1. OnItsWay(w)
    BY <1>0, <1>1, <1>6 DEF invalidate, Visible, pane
  <2>2. CASE subject = w
    BY <1>0, <1>1, <1>6, <2>2 DEF invalidate, Invalidate, Registered, OnItsWay, BeingPainted
  <2>3. CASE subject # w
    BY <1>0, <1>6, <2>1, <2>3 DEF invalidate, Invalidate, Painting, OnItsWay, BeingPainted, pane, guis
  <2> QED
    BY <2>2, <2>3
<1>7. ASSUME NEW c \in Children, begin_paint(c) \/ paint_text(c) PROVE OnItsWay(w)'
  <2>1. OnItsWay(w)
    BY <1>0, <1>1, <1>7 DEF begin_paint, paint_text, Visible, pane
  <2>2. CASE c = w
    BY <1>0, <1>1, <1>7, <2>2 DEF begin_paint, paint_text, Turns, OnItsWay, BeingPainted
  <2>3. CASE c # w
    <3>1. /\ screen'[w] = screen[w] /\ dirty'[w] = dirty[w]
          /\ w \in missed => w \in missed'
          /\ PANE_STATES' = PANE_STATES /\ lang' = lang /\ subject' = subject
      BY <1>0, <1>7, <2>3 DEF begin_paint, paint_text, pane, langs
    <3>2. gui = "pump" /\ ~Painting /\ ~Painting'
      BY <1>7 DEF begin_paint, paint_text, Turns, Pump, Painting, guis
    <3> QED
      BY <2>1, <3>1, <3>2 DEF OnItsWay, BeingPainted
  <2> QED
    BY <2>2, <2>3
<1>8. CASE snapshot
  <2>1. OnItsWay(w)
    BY <1>0, <1>1, <1>8 DEF snapshot, Visible, pane, win
  <2>2. CASE target = w
    <3>1. Painting' /\ target' = w /\ batch' = PANE_STATES[w] /\ PANE_STATES' = PANE_STATES
      BY <1>1, <1>8, <2>2 DEF snapshot, Turns, Painting, pane
    <3> QED
      BY <3>1 DEF OnItsWay, BeingPainted
  <2>3. CASE target # w
    BY <1>8, <2>1, <2>3 DEF snapshot, Turns, Painting, OnItsWay, BeingPainted, pane, win, langs
  <2> QED
    BY <2>2, <2>3
<1>9. ASSUME UNCHANGED <<win, PANE_STATES, screen>>,
             \/ UNCHANGED guis
             \/ UNCHANGED <<target, batch>> /\ Painting /\ Painting',
             lang # "invalidate" \/ UNCHANGED langs
      PROVE  OnItsWay(w)'
  <2>1. OnItsWay(w)
    BY <1>0, <1>1, <1>9 DEF Visible, win
  <2> QED
    BY <1>9, <2>1 DEF OnItsWay, BeingPainted, Painting, win, guis, langs
<1>10. CASE flush
  <2>1. OnItsWay(w)
    BY <1>0, <1>1, <1>10 DEF flush, Visible, pane
  <2>2. (dirty[w] => dirty'[w]) /\ (w \in missed => w \in missed')
    BY <1>0, <1>10 DEF flush, HasQueue, Flushed, Invalidate
  <2> QED
    BY <1>10, <2>1, <2>2 DEF flush, Painting, OnItsWay, BeingPainted, pane, langs, guis
<1>11. CASE Language
  <2>1. ASSUME NEW c \in Children, query(c) PROVE OnItsWay(w)'
    BY <1>5, <2>1 DEF query
  <2>2. CASE submit_batch
    BY <1>5, <2>2 DEF submit_batch, OnItsWay, BeingPainted
  <2>3. ASSUME NEW c \in Children, begin(c) PROVE OnItsWay(w)'
    BY <1>9, <2>3 DEF begin
  <2>4. ASSUME NEW c \in Children, enqueue(c) PROVE OnItsWay(w)'
    BY <1>9, <2>4 DEF enqueue, pane
  <2>5. CASE push \/ wait \/ wait_times_out \/ post_text_flush
    BY <1>9, <2>5 DEF push, wait, wait_times_out, post_text_flush, pane, OnItsWay, BeingPainted
  <2> QED
    BY <1>2, <1>6, <1>11, <2>1, <2>2, <2>3, <2>4, <2>5 DEF Language, OnItsWay, BeingPainted
<1>12. CASE draw \/ answer \/ d2d_fails
  BY <1>9, <1>12 DEF draw, answer, d2d_fails, Turns, Painting, pane, OnItsWay, BeingPainted
<1>14. CASE end_paint
  <2>1. OnItsWay(w)
    BY <1>0, <1>1, <1>14 DEF end_paint, Visible, pane, win
  <2>2. CASE target = w
    <3>1. screen'[w] = batch /\ gui # "snapshot"
      BY <1>0, <1>14, <2>2 DEF end_paint, Painting
    <3>2. UNCHANGED <<win, pane, langs>>
      BY <1>14 DEF end_paint
    <3>3. BeingPainted(w) /\ ~BeingPainted(w)'
      BY <1>14, <2>2 DEF end_paint, Pump, Painting, BeingPainted
    <3> QED
      BY <2>1, <3>1, <3>2, <3>3 DEF OnItsWay, pane, win, langs
  <2>3. CASE target # w
    <3>1. screen'[w] = screen[w]
      BY <1>0, <1>14, <2>3 DEF end_paint
    <3> QED
      BY <1>14, <2>1, <2>3, <3>1
      DEF end_paint, Pump, Painting, OnItsWay, BeingPainted, pane, win, langs
  <2> QED
    BY <2>2, <2>3
<1>15. CASE render_fails \/ gdi_fails
  <2>1. /\ UNCHANGED <<life, shown, dirty, PANE_STATES, screen, lang, subject>>
        /\ missed' = missed \cup {target} /\ gui' = "pump" /\ ~Painting'
    BY <1>15 DEF render_fails, gdi_fails, GivesUp, Pump, Painting, pane, langs
  <2>2. OnItsWay(w)
    BY <1>0, <1>1, <2>1 DEF Visible
  <2> QED
    BY <2>1, <2>2 DEF OnItsWay, BeingPainted
<1>13. CASE UNCHANGED vars
  BY <1>9, <1>13 DEF vars, pane, OnItsWay, BeingPainted
<1> QED
  BY <1>3, <1>4, <1>7, <1>8, <1>10, <1>11, <1>12, <1>13, <1>14, <1>15
  DEF Next, GuiThread

-----------------------------------------------------------------------------
\* The program that waits for an answer gets it.

Drawings(cmds) == \A i \in DOMAIN cmds : cmds[i].kind = "draw"
Queries(cmds)  == \A i \in DOMAIN cmds : cmds[i].kind = "ask"

\* No batch mixes drawings with queries, so the failing drawing that ends a GDI
\* paint has no query behind it, and what is left to paint is of the batch.
BatchInv ==
    /\ Drawings(CURRENT.cmds)
    /\ \A c \in DOMAIN PANE_STATES : Drawings(PANE_STATES[c]) \/ Queries(PANE_STATES[c])
    /\ (Drawings(batch) /\ Drawings(rest)) \/ (Queries(batch) /\ Queries(rest))
    /\ Asks(rest) \subseteq Asks(batch)

\* What the rest of a batch asks when its first command is done.
LEMMA TailOfBatch ==
    ASSUME NEW s \in Seq(Cmds), s # <<>>
    PROVE  /\ Asks(Tail(s)) \subseteq Asks(s)
           /\ \A r \in Asks(s) : Head(s) # [kind |-> "ask", id |-> r] => r \in Asks(Tail(s))
           /\ Drawings(s) => Drawings(Tail(s))
           /\ Queries(s) => Queries(Tail(s))
<1>1. Tail(s) \in Seq(Cmds) /\ Len(s) \in Nat /\ Len(s) > 0
      /\ Len(Tail(s)) = Len(s) - 1 /\ DOMAIN s = 1..Len(s)
      /\ DOMAIN Tail(s) = 1..(Len(s) - 1) /\ Head(s) = s[1]
  OBVIOUS
<1>2. \A i \in 1..(Len(s) - 1) : Tail(s)[i] = s[i + 1] /\ i + 1 \in 1..Len(s)
  BY <1>1
<1>3. \A i \in 1..Len(s) : i = 1 \/ (i - 1 \in 1..(Len(s) - 1) /\ s[i] = Tail(s)[i - 1])
  BY <1>1
<1>4. \A c \in Cmds : c.kind = "ask" => c = [kind |-> "ask", id |-> c.id]
  BY DEF Cmds
<1>5. Asks(Tail(s)) \subseteq Asks(s)
  BY <1>1, <1>2 DEF Asks
<1>6. ASSUME NEW r \in Asks(s), Head(s) # [kind |-> "ask", id |-> r]
      PROVE  r \in Asks(Tail(s))
  <2>1. PICK i \in 1..Len(s) : s[i].kind = "ask" /\ s[i].id = r
    BY <1>1, <1>6 DEF Asks
  <2>2. i # 1
    BY <1>1, <1>4, <1>6, <2>1
  <2>3. i - 1 \in DOMAIN Tail(s) /\ Tail(s)[i - 1].kind = "ask" /\ Tail(s)[i - 1].id = r
    BY <1>1, <1>3, <2>1, <2>2
  <2> QED
    BY <2>3 DEF Asks
<1>7. (Drawings(s) => Drawings(Tail(s))) /\ (Queries(s) => Queries(Tail(s)))
  BY <1>1, <1>2 DEF Drawings, Queries
<1> QED
  BY <1>5, <1>6, <1>7

\* A batch of drawings asks nothing.
LEMMA DrawingsAskNothing ==
    ASSUME NEW s, Drawings(s) PROVE Asks(s) = {}
BY DEF Drawings, Asks

\* Every step keeps drawings and queries apart.
LEMMA BatchStep ==
    ASSUME PanesTypeOK, BatchInv, [Next]_vars
    PROVE  BatchInv'
<1>0. Drawings(<<>>) /\ Queries(<<>>) /\ Asks(<<>>) = {}
  BY DEF Drawings, Queries, Asks
<1>1. CASE UNCHANGED pane /\ batch' = <<>> /\ rest' = <<>>
  BY <1>0, <1>1 DEF BatchInv, pane
<1>2. CASE UNCHANGED <<pane, guis>>
  BY <1>2 DEF BatchInv, pane, guis, Drawings, Queries, Asks
<1>3. ASSUME NEW c \in Children, ncdestroy(c) PROVE BatchInv'
  BY <1>0, <1>3 DEF ncdestroy, Turns, BatchInv
<1>4. ASSUME NEW c \in Children, begin(c) PROVE BatchInv'
  BY <1>0, <1>4 DEF begin, guis, BatchInv
<1>5. CASE push
  <2>1. CURRENT.cmds \in Seq(Cmds) /\ [kind |-> "draw", id |-> batches] \in Cmds
    BY PanesAssumption DEF PanesTypeOK, Cmds
  <2>2. Drawings(CURRENT'.cmds)
    BY <1>5, <2>1 DEF push, BatchInv, Drawings
  <2> QED
    BY <1>5, <2>2 DEF push, guis, BatchInv
<1>6. ASSUME NEW c, NEW cmds, NEW r, Drawings(cmds) \/ Queries(cmds),
             Insert(c, cmds, r), UNCHANGED guis
      PROVE  BatchInv'
  BY <1>0, <1>6 DEF Insert, NoBatch, guis, BatchInv
<1>7. CASE submit_batch
  BY <1>6, <1>7 DEF submit_batch, BatchInv
<1>8. ASSUME NEW c \in Children, query(c) PROVE BatchInv'
  <2> DEFINE q == <<[kind |-> "ask", id |-> AllocId]>>
  <2>1. Queries(q)
    BY DEF Queries
  <2>2. Insert(c, q, AllocId) /\ UNCHANGED guis
    BY <1>8 DEF query
  <2> QED
    BY <1>6, <2>1, <2>2
<1>9. CASE snapshot
  <2> DEFINE read == IF target \in DOMAIN PANE_STATES THEN PANE_STATES[target] ELSE <<>>
  <2>1. batch' = read /\ rest' = read /\ UNCHANGED pane
    BY <1>9 DEF snapshot, Turns
  <2>2. Drawings(read) \/ Queries(read)
    BY <1>0 DEF BatchInv
  <2> HIDE DEF read
  <2> QED
    <3>1. Drawings(CURRENT.cmds)'
          /\ (\A c \in DOMAIN PANE_STATES : Drawings(PANE_STATES[c]) \/ Queries(PANE_STATES[c]))'
      BY <2>1 DEF BatchInv, pane, Drawings, Queries
    <3>2. ((Drawings(batch) /\ Drawings(rest)) \/ (Queries(batch) /\ Queries(rest)))'
      BY <2>1, <2>2
    <3>3. (Asks(rest) \subseteq Asks(batch))'
      BY <2>1
    <3> QED
      BY <3>1, <3>2, <3>3 DEF BatchInv
<1>10. CASE draw \/ answer
  <2>1. rest # <<>> /\ rest \in Seq(Cmds) /\ UNCHANGED pane
        /\ batch' = batch /\ rest' = Tail(rest)
    BY <1>10 DEF draw, answer, AtDrawing, Turns, PanesTypeOK
  <2> QED
    BY <2>1, TailOfBatch DEF BatchInv, pane
<1>11. CASE d2d_fails
  <2>1. UNCHANGED pane /\ batch' = batch /\ rest' = batch
    BY <1>11 DEF d2d_fails, Turns
  <2> QED
    <3>1. Drawings(CURRENT.cmds)'
          /\ (\A c \in DOMAIN PANE_STATES : Drawings(PANE_STATES[c]) \/ Queries(PANE_STATES[c]))'
      BY <2>1 DEF BatchInv, pane, Drawings, Queries
    <3>2. ((Drawings(batch) /\ Drawings(rest)) \/ (Queries(batch) /\ Queries(rest)))'
      BY <2>1 DEF BatchInv
    <3>3. (Asks(rest) \subseteq Asks(batch))'
      BY <2>1
    <3> QED
      BY <3>1, <3>2, <3>3 DEF BatchInv
<1>12. ASSUME NEW c \in Children,
              open(c) \/ resize(c) \/ expose(c) \/ enqueue(c) \/ paint_text(c)
       PROVE  BatchInv'
  BY <1>2, <1>12 DEF open, resize, expose, enqueue, paint_text
<1>13. ASSUME NEW c \in Children, destroyed(c) \/ begin_paint(c) PROVE BatchInv'
  BY <1>1, <1>13 DEF destroyed, begin_paint, Turns, Pump
<1>14. CASE invalidate \/ wait \/ wait_times_out \/ post_text_flush \/ flush
            \/ end_paint \/ render_fails \/ gdi_fails \/ UNCHANGED vars
  BY <1>1, <1>2, <1>14 DEF invalidate, wait, wait_times_out, post_text_flush, flush,
                           end_paint, render_fails, gdi_fails, GivesUp, Pump, vars
<1> QED
  BY <1>3, <1>4, <1>5, <1>7, <1>8, <1>9, <1>10, <1>11, <1>12, <1>13, <1>14
  DEF Next, Language, GuiThread

\* The language thread's query, if it is in one: its request is awaited or
\* answered, and its window, unless that is going, shows the query.
Asking == lang \in {"invalidate", "wait"} /\ request # 0
Shows(c) == c \in DOMAIN PANE_STATES
            /\ PANE_STATES[c] = <<[kind |-> "ask", id |-> request]>>

AskInv ==
    /\ NoQuestionForgotten
    /\ lang = "wait" => request # 0
    /\ Asking => request \in Requests /\ (request \in SLOTS \/ reply[request] # "none")
    /\ Asking /\ subject \in Graphics /\ life[subject] = "open" => Shows(subject)

\* A batch of one query asks it.
LEMMA QueryAsks ==
    ASSUME NEW r PROVE r \in Asks(<<[kind |-> "ask", id |-> r]>>)
BY DEF Asks

\* Every step keeps the answer on its way.
LEMMA AskStep ==
    ASSUME PanesTypeOK, BatchInv, AskInv, [Next]_vars
    PROVE  AskInv'
<1> DEFINE Coming == \/ reply[request] # "none"
                     \/ dirty[subject]
                     \/ gui = "snapshot" /\ target = subject
                     \/ Painting /\ request \in Asks(rest)
                     \/ subject \in missed
           Needed == lang = "wait" /\ Visible(subject)
           Awaited == request \in Requests /\ (request \in SLOTS \/ reply[request] # "none")
           Shown == subject \in Graphics /\ life[subject] = "open" => Shows(subject)
<1>0. /\ Needed => Coming
      /\ lang = "wait" => request # 0
      /\ Asking => Awaited /\ Shown
  BY DEF AskInv, NoQuestionForgotten, AnswerIsComing
<1>q. ASSUME Needed' => Coming', (lang = "wait" => request # 0)', (Asking => Awaited /\ Shown)'
      PROVE  AskInv'
  BY <1>q DEF AskInv, NoQuestionForgotten, AnswerIsComing
<1>1. ASSUME lang' = "free" \/ lang' = "post" PROVE AskInv'
  BY <1>1 DEF AskInv, NoQuestionForgotten, AnswerIsComing, Asking
<1>2. CASE UNCHANGED <<win, pane, ask, langs, guis>>
  BY <1>2 DEF AskInv, NoQuestionForgotten, AnswerIsComing, Visible, Painting, Asking, Shows, Asks,
              win, pane, ask, langs, guis
\* The language thread begins to ask.
<1>3. ASSUME NEW c \in Children, query(c) PROVE AskInv'
  <2>1. /\ lang' = "invalidate" /\ subject' = c /\ request' = requests + 1
        /\ SLOTS' = SLOTS \cup {requests + 1}
        /\ c \in DOMAIN PANE_STATES'
        /\ PANE_STATES'[c] = <<[kind |-> "ask", id |-> requests + 1]>>
    BY <1>3 DEF query, AllocId, Insert, Goes
  <2>2. requests + 1 \in Requests
    BY <1>3, PanesAssumption DEF query, PanesTypeOK, Requests
  <2> QED
    BY <1>q, <2>1, <2>2 DEF Shows
<1>4. CASE invalidate
  <2>1. CASE lang' = "free"
    BY <1>1, <2>1
  <2>2. CASE lang' # "free"
    <3>1. /\ lang = "invalidate" /\ request # 0 /\ Registered(subject)
          /\ lang' = "wait" /\ subject' = subject /\ request' = request
          /\ dirty' = [dirty EXCEPT ![subject] = TRUE]
          /\ UNCHANGED <<life, pane, ask>>
      BY <1>4, <2>2 DEF invalidate, Invalidate, Goes, Free
    <3>2. dirty'[subject']
      BY <3>1 DEF PanesTypeOK
    <3> QED
      BY <1>q, <1>0, <3>1, <3>2 DEF Asking, Shows, pane, ask
  <2> QED
    BY <2>1, <2>2
\* Windows come, go, shrink and grow while it waits.
<1>5. ASSUME NEW c \in Children, open(c) PROVE AskInv'
  BY <1>1, <1>5 DEF open, langs
<1>6. ASSUME NEW c \in Children, resize(c) \/ expose(c) PROVE AskInv'
  <2>1. UNCHANGED <<life, pane, ask, langs, guis>>
    BY <1>6 DEF resize, expose
  <2>2. \A x \in Children : /\ dirty[x] => dirty'[x]
                            /\ shown'[x] => shown[x] \/ dirty'[x]
                            /\ x \in missed => x \in missed' \/ dirty'[x]
    BY <1>6 DEF resize, expose, Invalidate, PanesTypeOK
  <2>3. Needed' => Coming'
    <3> SUFFICES ASSUME Needed' PROVE Coming'
      OBVIOUS
    <3>1. lang = "wait" /\ subject' = subject /\ subject \in Children
          /\ life[subject] = "open" /\ subject \in Graphics /\ shown'[subject]
      BY <2>1 DEF Visible, langs, PanesTypeOK
    <3>2. dirty'[subject] \/ Coming
      BY <1>0, <2>2, <3>1 DEF Visible
    <3> QED
      BY <2>1, <2>2, <3>1, <3>2 DEF Painting, Asks, ask, langs, guis
  <2>4. (Asking => Awaited /\ Shown)'
    BY <1>0, <2>1 DEF Asking, Shows, pane, ask, langs
  <2> QED
    BY <1>q, <1>0, <2>1, <2>3, <2>4 DEF langs
<1>7. ASSUME NEW c \in Children, ncdestroy(c) \/ destroyed(c) PROVE AskInv'
  <2>1. UNCHANGED <<shown, missed, ask, langs>> /\ gui \notin {"snapshot", "d2d", "gdi"}
    BY <1>7 DEF ncdestroy, destroyed
  <2>2. \A x \in Children : life'[x] = "open" =>
           /\ x # c /\ life[x] = "open" /\ dirty'[x] = dirty[x]
           /\ x \in DOMAIN PANE_STATES => x \in DOMAIN PANE_STATES'
                                          /\ PANE_STATES'[x] = PANE_STATES[x]
    BY <1>7 DEF ncdestroy, destroyed, pane, PanesTypeOK
  <2>3. Needed' => Coming'
    BY <1>0, <2>1, <2>2 DEF Visible, Painting, Children, ask, langs
  <2>4. (Asking => Awaited /\ Shown)'
    BY <1>0, <2>1, <2>2 DEF Asking, Shows, Children, ask, langs
  <2> QED
    BY <1>q, <1>0, <2>1, <2>3, <2>4 DEF langs
\* The GUI thread paints and answers.
<1>8. ASSUME NEW c \in Children, begin_paint(c) \/ paint_text(c) PROVE AskInv'
  <2>1. UNCHANGED <<life, shown, pane, ask, langs>> /\ gui = "pump"
    BY <1>8 DEF begin_paint, paint_text
  <2>2. \A x \in Graphics : shown[x] /\ (dirty[x] \/ x \in missed) =>
           dirty'[x] \/ x \in missed' \/ (gui' = "snapshot" /\ target' = x)
    BY <1>8, PanesAssumption DEF begin_paint, paint_text, Turns, PanesTypeOK, Children
  <2>3. Needed' => Coming'
    BY <1>0, <2>1, <2>2 DEF Visible, Painting, ask, langs
  <2>4. (Asking => Awaited /\ Shown)'
    BY <1>0, <2>1 DEF Asking, Shows, pane, ask, langs
  <2> QED
    BY <1>q, <1>0, <2>1, <2>3, <2>4 DEF langs
<1>9. CASE snapshot
  <2>1. /\ UNCHANGED <<win, pane, ask, langs>> /\ gui = "snapshot" /\ gui' = "d2d"
        /\ target \in DOMAIN PANE_STATES => rest' = PANE_STATES[target]
    BY <1>9 DEF snapshot, Turns
  <2>2. ASSUME Needed' PROVE Coming'
    <3>1. Needed /\ Asking /\ subject \in Graphics /\ life[subject] = "open"
      BY <1>0, <2>1, <2>2 DEF Visible, Asking, win, langs
    <3>2. CASE target = subject
      <4>1. rest' = <<[kind |-> "ask", id |-> request]>>
        BY <1>0, <2>1, <3>1, <3>2 DEF Shows
      <4>2. request \in Asks(rest')
        BY <4>1, QueryAsks
      <4> QED
        BY <2>1, <4>2 DEF Painting, langs
    <3>3. CASE target # subject
      BY <1>0, <2>1, <3>1, <3>3 DEF Painting, win, ask, langs
    <3> QED
      BY <3>2, <3>3
  <2>3. (Asking => Awaited /\ Shown)'
    BY <1>0, <2>1 DEF Asking, Shows, win, pane, ask, langs
  <2> QED
    BY <1>q, <1>0, <2>1, <2>2, <2>3 DEF langs
<1>10. CASE draw
  <2>1. /\ UNCHANGED <<win, pane, ask, langs>> /\ gui' = gui /\ Painting
        /\ rest \in Seq(Cmds) /\ rest # <<>> /\ Head(rest).kind = "draw" /\ rest' = Tail(rest)
    BY <1>10 DEF draw, AtDrawing, Turns, PanesTypeOK
  <2>2. \A r \in Asks(rest) : r \in Asks(rest')
    <3>1. \A r : Head(rest) # [kind |-> "ask", id |-> r]
      BY <2>1
    <3> QED
      BY <2>1, <3>1, TailOfBatch
  <2>3. Needed' => Coming'
    BY <1>0, <2>1, <2>2 DEF Visible, Painting, win, ask, langs
  <2>4. (Asking => Awaited /\ Shown)'
    BY <1>0, <2>1 DEF Asking, Shows, win, pane, ask, langs
  <2> QED
    BY <1>q, <1>0, <2>1, <2>3, <2>4 DEF langs
<1>11. CASE answer
  <2>1. /\ UNCHANGED <<win, pane, requests, langs>> /\ gui' = gui /\ Painting
        /\ rest \in Seq(Cmds) /\ rest # <<>> /\ rest' = Tail(rest)
    BY <1>11 DEF answer, Turns, PanesTypeOK
  <2>2. PICK a \in {"found", "failed"} : deliver(Head(rest).id, a)
    BY <1>11 DEF answer
  <2>3. ASSUME Asking PROVE Awaited' /\ (reply[request] # "none" => reply'[request] # "none")
                            /\ (Head(rest).id = request => reply'[request] # "none")
    <3>1. Awaited /\ request' = request /\ lang \in {"invalidate", "wait"}
      BY <1>0, <2>1, <2>3 DEF Asking, langs
    <3>2. CASE Head(rest).id = request
      BY <2>2, <3>1, <3>2 DEF deliver, Receiver, PanesTypeOK
    <3>3. CASE Head(rest).id # request
      BY <2>2, <3>1, <3>3 DEF deliver, PanesTypeOK
    <3> QED
      BY <3>2, <3>3
  <2>4. \A r \in Asks(rest) : Head(rest).id # r => r \in Asks(rest')
    <3>1. \A r : Head(rest).id # r => Head(rest) # [kind |-> "ask", id |-> r]
      OBVIOUS
    <3> QED
      BY <2>1, <3>1, TailOfBatch
  <2>5. ASSUME Needed' PROVE Coming'
    <3>1. Needed /\ Asking
      BY <1>0, <2>1, <2>5 DEF Visible, Asking, win, langs
    <3>2. Coming
      BY <1>0, <3>1
    <3> QED
      BY <2>1, <2>3, <2>4, <3>1, <3>2 DEF Painting, win, langs
  <2>6. (Asking => Awaited /\ Shown)'
    BY <1>0, <2>1, <2>3 DEF Asking, Shows, win, pane, langs
  <2> QED
    BY <1>q, <1>0, <2>1, <2>5, <2>6 DEF langs
<1>12. CASE d2d_fails
  <2>1. UNCHANGED <<win, pane, ask, langs>> /\ gui = "d2d" /\ gui' = "gdi" /\ rest' = batch
    BY <1>12 DEF d2d_fails, Turns
  <2>2. \A r \in Asks(rest) : r \in Asks(rest')
    BY <2>1 DEF BatchInv
  <2>3. Needed' => Coming'
    BY <1>0, <2>1, <2>2 DEF Visible, Painting, win, ask, langs
  <2>4. (Asking => Awaited /\ Shown)'
    BY <1>0, <2>1 DEF Asking, Shows, win, pane, ask, langs
  <2> QED
    BY <1>q, <1>0, <2>1, <2>3, <2>4 DEF langs
<1>13. CASE end_paint
  <2>1. UNCHANGED <<win, pane, ask, langs>> /\ gui # "snapshot" /\ rest = <<>>
    BY <1>13 DEF end_paint, Painting
  <2>2. Asks(rest) = {}
    BY <2>1 DEF Asks
  <2>3. Needed' => Coming'
    BY <1>0, <2>1, <2>2 DEF Visible, win, ask, langs
  <2>4. (Asking => Awaited /\ Shown)'
    BY <1>0, <2>1 DEF Asking, Shows, win, pane, ask, langs
  <2> QED
    BY <1>q, <1>0, <2>1, <2>3, <2>4 DEF langs
<1>14. CASE flush
  <2>1. UNCHANGED <<life, shown, pane, ask, langs, guis>>
    BY <1>14 DEF flush
  <2>2. \A x \in Children : (dirty[x] => dirty'[x])
                            /\ (x \in missed => x \in missed' \/ dirty'[x])
    BY <1>14 DEF flush, HasQueue, Flushed, Invalidate, PanesTypeOK
  <2>3. ASSUME Needed' PROVE Coming'
    <3>1. Coming /\ subject \in Children
      BY <1>0, <2>1, <2>3 DEF Visible, Children, langs
    <3> QED
      BY <2>1, <2>2, <3>1 DEF Painting, Asks, ask, langs, guis
  <2>4. (Asking => Awaited /\ Shown)'
    BY <1>0, <2>1 DEF Asking, Shows, pane, ask, langs
  <2> QED
    BY <1>q, <1>0, <2>1, <2>3, <2>4 DEF langs
\* A paint gives up: its window is missed, and no other window's answer was in it.
<1>19. CASE render_fails \/ gdi_fails
  <2>1. /\ UNCHANGED <<life, shown, dirty, pane, ask, langs>>
        /\ missed' = missed \cup {target} /\ gui' = "pump"
        /\ gui = "snapshot" \/ (rest \in Seq(Cmds) /\ rest # <<>> /\ Head(rest).kind = "draw")
    BY <1>19 DEF render_fails, gdi_fails, GivesUp, Pump, AtDrawing, PanesTypeOK
  <2>2. gui = "snapshot" \/ Asks(rest) = {}
    <3>1. gui = "snapshot" \/ ~Queries(rest)
      BY <2>1 DEF Queries
    <3>2. gui = "snapshot" \/ Drawings(rest)
      BY <3>1 DEF BatchInv
    <3> QED
      BY <3>2, DrawingsAskNothing
  <2>3. Needed' => Coming'
    BY <1>0, <2>1, <2>2 DEF Visible, Painting, ask, langs
  <2>4. (Asking => Awaited /\ Shown)'
    BY <1>0, <2>1 DEF Asking, Shows, pane, ask, langs
  <2> QED
    BY <1>q, <1>0, <2>1, <2>3, <2>4 DEF langs
\* The language thread is not in a query.
<1>15. CASE submit_batch
  BY <1>15 DEF submit_batch, Insert, Goes, AskInv, NoQuestionForgotten, AnswerIsComing, Asking
<1>16. ASSUME NEW c \in Children, begin(c) \/ enqueue(c) PROVE AskInv'
  BY <1>1, <1>16 DEF begin, enqueue, Goes, langs
<1>17. CASE push \/ wait \/ wait_times_out \/ post_text_flush
  BY <1>1, <1>17 DEF push, wait, wait_times_out, post_text_flush, Free, langs
<1>18. CASE UNCHANGED vars
  BY <1>2, <1>18 DEF vars
<1> QED
  BY <1>3, <1>4, <1>5, <1>6, <1>7, <1>8, <1>9, <1>10, <1>11, <1>12, <1>13, <1>14,
     <1>15, <1>16, <1>17, <1>18, <1>19
  DEF Next, Language, GuiThread

-----------------------------------------------------------------------------
\* The whole, at the start and for ever.

PanesInv == PanesTypeOK /\ SlotsInv /\ LastBatchInv /\ BatchInv /\ AskInv

LEMMA PanesInvInit == Init => PanesInv
<1> SUFFICES ASSUME Init PROVE PanesInv
  OBVIOUS
<1>1. PanesTypeOK
  BY TypeInit
<1>2. SlotsInv
  BY DEF Init, SlotsInv, GuiNeverBlocks
<1>3. LastBatchInv
  BY DEF Init, LastBatchInv
<1>4. BatchInv
  BY DEF Init, NoBatch, BatchInv, Drawings, Asks
<1>5. AskInv
  BY DEF Init, AskInv, NoQuestionForgotten, Asking
<1> QED
  BY <1>1, <1>2, <1>3, <1>4, <1>5 DEF PanesInv

LEMMA PanesInvStep == PanesInv /\ [Next]_vars => PanesInv'
BY TypeStep, SlotsStep, LastBatchStep, BatchStep, AskStep DEF PanesInv

LEMMA PanesInvAlways == Spec => []PanesInv
BY PanesInvInit, PanesInvStep, PTL DEF Spec

\* Every window, batch, request and queue keeps its type.
THEOREM PanesTypes == Spec => []PanesTypeOK
BY PanesInvAlways, PTL DEF PanesInv

\* A waiting program's answer has come, or a due or running paint brings it.
THEOREM NoLostWakeUp == Spec => []NoQuestionForgotten
<1>1. PanesInv => NoQuestionForgotten
  BY DEF PanesInv, AskInv
<1> QED
  BY <1>1, PanesInvAlways, PTL

\* However often a query is painted, the GUI thread sends into an empty channel.
THEOREM SendNeverBlocks == Spec => []GuiNeverBlocks
<1>1. PanesInv => GuiNeverBlocks
  BY DEF PanesInv, SlotsInv
<1> QED
  BY <1>1, PanesInvAlways, PTL

\* The batch to show has been painted, or a paint due or going on reads it, or
\* the paint that was due gave up.
THEOREM LastBatchShown == Spec => []LastBatchPainted
<1>1. PanesInv => LastBatchPainted
  BY DEF PanesInv, LastBatchInv, OnItsWay, BeingPainted, LastBatchPainted
<1> QED
  BY <1>1, PanesInvAlways, PTL

-----------------------------------------------------------------------------
\* Text.

\* The numbers from 1 to n, and what a text view was sent before it is gone.
UpTo(n) == [i \in 1..n |-> i]

TextInv ==
    \A c \in TextPanes : life[c] # "gone" => grid[c] \o queue[c] = UpTo(written[c])

\* Appending the next number counts one further.
LEMMA NextNumber ==
    ASSUME NEW n \in Nat
    PROVE  Append(UpTo(n), n + 1) = UpTo(n + 1)
<1>1. /\ UpTo(n) \in Seq(Nat) /\ Len(UpTo(n)) = n
      /\ UpTo(n + 1) \in Seq(Nat) /\ Len(UpTo(n + 1)) = n + 1
  BY DEF UpTo
<1>2. /\ Append(UpTo(n), n + 1) \in Seq(Nat)
      /\ Len(Append(UpTo(n), n + 1)) = n + 1
      /\ \A i \in 1..n : Append(UpTo(n), n + 1)[i] = UpTo(n)[i]
      /\ Append(UpTo(n), n + 1)[n + 1] = n + 1
  BY <1>1, AppendProperties
<1>3. \A i \in 1..n + 1 : Append(UpTo(n), n + 1)[i] = UpTo(n + 1)[i]
  <2>1. \A i \in 1..n + 1 : i \in 1..n \/ i = n + 1
    OBVIOUS
  <2>2. \A i \in 1..n + 1 : UpTo(n + 1)[i] = i
    BY DEF UpTo
  <2>3. \A i \in 1..n : UpTo(n)[i] = i
    BY DEF UpTo
  <2> QED
    BY <1>2, <2>1, <2>2, <2>3
<1> QED
  BY <1>1, <1>2, <1>3, SeqEqual

\* A number appended to the queue is appended to what grid and queue hold.
LEMMA AppendToQueue ==
    ASSUME NEW g \in Seq(Nat), NEW q \in Seq(Nat), NEW n \in Nat
    PROVE  g \o Append(q, n) = Append(g \o q, n)
BY SMT

\* A queue that is applied leaves nothing behind.
LEMMA EmptyQueue ==
    ASSUME NEW s \in Seq(Nat)
    PROVE  s \o <<>> = s
BY SMT

\* Every step keeps the text.
LEMMA TextStep == PanesTypeOK /\ TextInv /\ [Next]_vars => TextInv'
<1> SUFFICES ASSUME PanesTypeOK, TextInv, [Next]_vars PROVE TextInv'
  OBVIOUS
<1>t. /\ \A c \in TextPanes : queue[c] \in Seq(Nat) /\ grid[c] \in Seq(Nat) /\ written[c] \in Nat
      /\ queue \in [TextPanes -> Seq(Nat)] /\ grid \in [TextPanes -> Seq(Nat)]
      /\ written \in [TextPanes -> 0..MaxText] /\ posts \in Seq(TextPanes)
      /\ life \in [Children -> {"unopened", "open", "closing", "gone"}]
      /\ TextPanes \subseteq Children
  BY PanesAssumption DEF PanesTypeOK, Children
\* Windows that open, or begin to close, keep what they were sent.
<1>1. ASSUME UNCHANGED text, \A c \in TextPanes : life'[c] # "gone" => life[c] # "gone"
      PROVE  TextInv'
  BY <1>1 DEF TextInv, text
<1>2. ASSUME UNCHANGED text, UNCHANGED life
      PROVE  TextInv'
  BY <1>1, <1>2
<1>3. ASSUME NEW c \in Children, open(c) \/ ncdestroy(c)
      PROVE  TextInv'
  <2>1. UNCHANGED text /\ life[c] # "gone" /\ \A x \in Children : x # c => life'[x] = life[x]
    BY <1>3, <1>t DEF open, ncdestroy
  <2> QED
    BY <1>1, <1>t, <2>1
<1>4. ASSUME NEW c \in Children, destroyed(c)
      PROVE  TextInv'
  <2>1. /\ life'[c] = "gone" /\ \A x \in Children : x # c => life'[x] = life[x]
        /\ \A x \in TextPanes : x # c => queue'[x] = queue[x]
        /\ grid' = grid /\ written' = written
    BY <1>4, <1>t DEF destroyed
  <2> QED
    BY <1>t, <2>1 DEF TextInv
<1>5. ASSUME NEW c \in Children, enqueue(c)
      PROVE  TextInv'
  <2>1. c \in TextPanes /\ life[c] # "gone"
    BY <1>5 DEF enqueue, HasQueue
  <2>2. /\ written'[c] = written[c] + 1 /\ queue'[c] = Append(queue[c], written[c] + 1)
        /\ \A x \in TextPanes : x # c => written'[x] = written[x] /\ queue'[x] = queue[x]
        /\ grid' = grid /\ life' = life
    BY <1>5, <1>t, <2>1 DEF enqueue, win
  <2>3. grid[c] \o queue'[c] = UpTo(written[c] + 1)
    <3>1. grid[c] \o Append(queue[c], written[c] + 1)
            = Append(grid[c] \o queue[c], written[c] + 1)
      BY <1>t, <2>1, AppendToQueue
    <3>2. grid[c] \o queue[c] = UpTo(written[c])
      BY <2>1 DEF TextInv
    <3> QED
      BY <1>t, <2>1, <2>2, <3>1, <3>2, NextNumber
  <2> QED
    BY <2>2, <2>3 DEF TextInv
<1>6. CASE flush
  <2> DEFINE c == Head(posts)
  <2>1. CASE ~HasQueue(c)
    BY <1>2, <1>6, <2>1 DEF flush, TextInv
  <2>2. CASE HasQueue(c)
    <3>1. c \in TextPanes /\ life[c] # "gone"
      BY <2>2 DEF HasQueue
    <3>2. /\ grid' = [grid EXCEPT ![c] = @ \o queue[c]]
          /\ queue' = [queue EXCEPT ![c] = <<>>]
          /\ written' = written /\ life' = life
      BY <1>6, <2>2 DEF flush, Drained
    <3> HIDE DEF c
    <3>3. /\ grid'[c] = grid[c] \o queue[c] /\ queue'[c] = <<>>
          /\ \A x \in TextPanes : x # c => grid'[x] = grid[x] /\ queue'[x] = queue[x]
      BY <1>t, <3>1, <3>2
    <3>4. grid'[c] \o queue'[c] = grid[c] \o queue[c]
      <4>1. grid[c] \o queue[c] \in Seq(Nat)
        BY <1>t, <3>1
      <4> QED
        BY <3>3, <4>1, EmptyQueue
    <3> QED
      BY <3>2, <3>3, <3>4 DEF TextInv
  <2> QED
    BY <2>1, <2>2
<1>7. CASE \/ push \/ submit_batch \/ invalidate \/ wait \/ wait_times_out \/ post_text_flush
           \/ snapshot \/ draw \/ answer \/ d2d_fails \/ end_paint \/ render_fails \/ gdi_fails
           \/ UNCHANGED vars
  BY <1>7 DEF TextInv, push, submit_batch, invalidate, wait, wait_times_out,
     post_text_flush, snapshot, draw, answer, d2d_fails, end_paint, render_fails,
     gdi_fails, GivesUp, vars, win, text
<1>8. ASSUME NEW c \in Children,
             \/ begin(c) \/ query(c) \/ resize(c) \/ expose(c) \/ begin_paint(c) \/ paint_text(c)
      PROVE  TextInv'
  BY <1>8 DEF TextInv, begin, query, resize, expose, begin_paint, paint_text, win, text
<1> QED
  BY <1>3, <1>4, <1>5, <1>6, <1>7, <1>8 DEF Next, Language, GuiThread

\* The grid and the queue of a text view hold what was written, in order and
\* once, however writes, flushes and paints of two threads interleave.
THEOREM TextNeverGarbled == Spec => []TextInOrder
<1>1. Init => TextInv
  <2> SUFFICES ASSUME Init PROVE TextInv
    OBVIOUS
  <2>1. UpTo(0) = <<>>
    BY DEF UpTo
  <2>2. ASSUME NEW c \in TextPanes
        PROVE  grid[c] \o queue[c] = <<>> /\ written[c] = 0
    <3>1. grid[c] = <<>> /\ queue[c] = <<>> /\ written[c] = 0
      BY DEF Init
    <3> QED
      BY <3>1
  <2> QED
    BY <2>1, <2>2 DEF TextInv
<1>2. TextInv => TextInOrder
  BY DEF TextInv, TextInOrder, HasQueue, UpTo
<1>3. PanesTypeOK /\ TextInv /\ [Next]_vars => TextInv'
  BY TextStep
<1> QED
  BY <1>1, <1>2, <1>3, PanesTypes, PTL DEF Spec

=============================================================================
