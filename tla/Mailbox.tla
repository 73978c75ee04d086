------------------------------ MODULE Mailbox ------------------------------
(***************************************************************************)
(* The event mailbox of iGui (channels.rs) between the GUI thread, which   *)
(* pushes, and the language thread, which takes: the bounded channel, the  *)
(* stash of events that a call passed over, the set of windows a program   *)
(* is interested in, and the driver's worker loop that runs a program each *)
(* time the user asks for it.                                              *)
(*                                                                         *)
(* An event is abstracted to its destination and its kind; "log" records   *)
(* every event ever pushed with what became of it, so that the channel and *)
(* the stash are sequences of positions in it.                             *)
(***************************************************************************)
EXTENDS Naturals, FiniteSets, SequencesExt

CONSTANTS
    Capacity,      \* CAPACITY, the bound of the channel
    MaxChildren,   \* bound: child windows opened in a behaviour
    MaxEvents      \* bound: events pushed in a behaviour

ASSUME MailboxAssumption ==
    Capacity \in Nat \ {0} /\ MaxChildren \in Nat /\ MaxEvents \in Nat

Frame == 1                            \* FRAME_CHILD_ID
Windows == Frame..(MaxChildren + 1)
Everyone == 0                         \* destination of events without child_id
Destinations == Windows \cup {Everyone}
Kinds == {"input", "close", "run", "menu", "quit"}
Fates == {"queued", "taken", "discarded", "refused"}

VARIABLES
    log,       \* history: every event pushed, with its fate
    channel,   \* positions of the events in the channel, oldest first
    stash,     \* EVENT_STASH
    filter,    \* EVENT_FILTER
    call,      \* the language thread's call waiting at the channel, or NoCall
    program,   \* "idle" in the worker's loop, "running", or "exited"
    since,     \* history: the position of the event that began the last run
    opened,    \* child ids given out: 2..opened+1, never again
    open,      \* the windows that exist
    frame      \* "up", "closing", "gone"

gui == <<opened, open, frame>>
vars == <<log, channel, stash, filter, call, program, since, gui>>

Waits == {"now", "until", "forever"}  \* timeout_ms = 0, > 0, < 0
NoCall == [want |-> {}, wait |-> "none"]

Init ==
    /\ log = <<>> /\ channel = <<>> /\ stash = <<>>
    /\ filter = {} /\ call = NoCall
    /\ program = "idle" /\ since = 0
    /\ opened = 0 /\ open = {Frame} /\ frame = "up"

(***************************************************************************)
(* The GUI thread.  push never blocks: what does not fit is lost.          *)
(***************************************************************************)
Room == Len(channel) < Capacity

push(to, kind) ==
    /\ Len(log) < MaxEvents
    /\ log' = Append(log, [to |-> to, kind |-> kind,
                           fate |-> IF Room THEN "queued" ELSE "refused"])
    /\ channel' = IF Room THEN Append(channel, Len(log) + 1) ELSE channel

unread == <<stash, filter, call, program, since>>

\* A key, mouse, focus, size, DPI or timer message of a window.
input(w) ==
    /\ w \in open /\ frame # "gone"
    /\ push(w, "input")
    /\ UNCHANGED <<unread, gui>>

\* WM_COMMAND of a menu: Run or another item.
menu ==
    /\ frame = "up"
    /\ \E kind \in {"run", "menu"} : push(Everyone, kind)
    /\ UNCHANGED <<unread, gui>>

\* A child goes, by its close box, by CloseChild or with the frame.
ncdestroy(w) ==
    /\ w \in open \ {Frame} /\ frame # "gone"
    /\ push(w, "close")
    /\ open' = open \ {w}
    /\ UNCHANGED <<unread, opened, frame>>

\* WM_CLOSE of the frame tells the language thread and closes every child.
frame_close ==
    /\ frame = "up"
    /\ push(Everyone, "quit")
    /\ frame' = "closing"
    /\ UNCHANGED <<unread, opened, open>>

frame_destroy ==
    /\ frame = "closing" /\ open = {Frame}
    /\ open' = {} /\ frame' = "gone"
    /\ UNCHANGED <<log, channel, unread, opened>>

(***************************************************************************)
(* The language thread.                                                    *)
(***************************************************************************)
\* matches_filter, matches_target: events without a window concern everyone.
matches(n, want) == log[n].to \in want \cup {Everyone}

\* The windows next_event asks for: those of the filter if there is one.
Wanted == IF filter = {} THEN Windows ELSE filter

\* The log with event n taken and the events of "dropped" discarded.
Settled(n, dropped) == [m \in DOMAIN log |->
    CASE m = n -> [log[m] EXCEPT !.fate = "taken"]
      [] m \in dropped -> [log[m] EXCEPT !.fate = "discarded"]
      [] OTHER -> log[m]]

run_keeps_stash(n, rest) ==  \* fault: only the filter is cleared
    /\ filter' = {} /\ stash' = rest
    /\ log' = Settled(n, {})
    /\ program' \in {"idle", "running"}
    /\ since' = n

\* gui_run_program: no filter and no stash of an earlier run is left.  There may
\* be no buffer to run, or a program that does not compile.
gui_run_program(n, rest) ==
    /\ filter' = {} /\ stash' = <<>>
    /\ log' = Settled(n, Range(rest))
    /\ program' \in {"idle", "running"}
    /\ since' = n

\* A call returns event n, "rest" stays in the stash.  A program takes events
\* as they are; the worker exits on FrameClose and runs the program on Run.
Return(n, rest) ==
    /\ call' = NoCall
    /\ \/ /\ program = "idle" /\ log[n].kind = "run"
          /\ gui_run_program(n, rest)
       \/ /\ program = "running" \/ log[n].kind # "run"
          /\ stash' = rest /\ log' = Settled(n, {})
          /\ program' = IF program = "idle" /\ log[n].kind = "quit"
                        THEN "exited" ELSE program
          /\ UNCHANGED <<filter, since>>

Take_channel_only(want, wait) ==  \* fault: the stash is forgotten
    /\ program # "exited" /\ call = NoCall
    /\ call' = [want |-> want, wait |-> wait]
    /\ UNCHANGED <<log, channel, stash, filter, program, since, gui>>

\* The stash is looked through first; without a match the call goes on to the
\* channel, where one with timeout 0 finds its deadline passed.
Take(want, wait) ==
    LET found == {i \in DOMAIN stash : matches(stash[i], want)} IN
    /\ program # "exited" /\ call = NoCall
    /\ IF found = {}
       THEN /\ call' = [want |-> want, wait |-> wait]
            /\ UNCHANGED <<log, stash, filter, program, since>>
       ELSE \E i \in found :
              /\ \A j \in found : i <= j
              /\ Return(stash[i], RemoveAt(stash, i))
    /\ UNCHANGED <<channel, gui>>

next_event(wait) == Take(Wanted, wait)
next_event_for(target, wait) == Take({target}, wait)

Parked_in_front(n) == <<n>> \o stash  \* fault: at the wrong end
Parked_nowhere(n) == stash             \* fault: a passed-over event is lost
Parked(n) == Append(stash, n)

\* recv: the oldest event in the channel, returned or parked.
receive ==
    /\ call.wait \in {"until", "forever"} /\ channel # <<>>
    /\ channel' = Tail(channel)
    /\ LET n == Head(channel) IN
       \/ /\ matches(n, call.want)
          /\ Return(n, stash)
       \/ /\ ~matches(n, call.want)
          /\ stash' = Parked(n)
          /\ UNCHANGED <<log, filter, call, program, since>>
    /\ UNCHANGED gui

timeout ==
    /\ call.wait \in {"now", "until"}
    /\ call' = NoCall
    /\ UNCHANGED <<log, channel, stash, filter, program, since, gui>>

\* The worker waits for whatever comes next.
gui_language_worker == program = "idle" /\ next_event("forever")

\* A running program between two calls.
InProgram == program = "running" /\ call = NoCall

program_event ==
    /\ InProgram
    /\ \E wait \in Waits :
          next_event(wait) \/ \E w \in Windows : next_event_for(w, wait)

SetFilter(f) ==
    /\ InProgram
    /\ filter' = f
    /\ UNCHANGED <<log, channel, stash, call, program, since, gui>>

filter_on_window(w) == SetFilter(filter \cup {w})
unfilter_window(w) == w \in filter /\ SetFilter(filter \ {w})
clear_filter == filter # {} /\ SetFilter({})

discard_stashed_events ==
    /\ InProgram /\ stash # <<>>
    /\ stash' = <<>>
    /\ log' = Settled(0, Range(stash))
    /\ UNCHANGED <<channel, filter, call, program, since, gui>>

\* OpenChild waits for the GUI thread to make the window, which announces its
\* DPI to the program before the call returns.
open_child ==
    /\ InProgram /\ frame = "up" /\ opened < MaxChildren
    /\ opened' = opened + 1
    /\ open' = open \cup {opened + 2}
    /\ push(opened + 2, "input")
    /\ UNCHANGED <<unread, frame>>

program_ends ==
    /\ InProgram
    /\ program' = "idle"
    /\ UNCHANGED <<log, channel, stash, filter, call, since, gui>>

Gui == menu \/ frame_close \/ frame_destroy
       \/ \E w \in Windows : input(w) \/ ncdestroy(w)

Program == program_event \/ clear_filter \/ discard_stashed_events
           \/ open_child \/ program_ends
           \/ \E w \in Windows : filter_on_window(w) \/ unfilter_window(w)

Next == Gui \/ Program \/ gui_language_worker \/ receive \/ timeout

\* A thread that waits at the channel is woken when an event is there.
Spec == Init /\ [][Next]_vars /\ WF_vars(receive)

-----------------------------------------------------------------------------

\* Every variable keeps its type, the channel its capacity.
MailboxTypeOK ==
    /\ log \in Seq([to : Destinations, kind : Kinds, fate : Fates])
    /\ channel \in Seq(DOMAIN log) /\ Len(channel) <= Capacity
    /\ stash \in Seq(DOMAIN log)
    /\ filter \subseteq Windows
    /\ call \in [want : SUBSET Windows, wait : Waits] \cup {NoCall}
    /\ program \in {"idle", "running", "exited"}
    /\ since \in 0..Len(log)
    /\ opened \in 0..MaxChildren
    /\ open \subseteq Frame..(opened + 1)
    /\ frame \in {"up", "closing", "gone"}

Queued == {n \in DOMAIN log : log[n].fate = "queued"}
Waiting == stash \o channel

\* An event that was accepted is in the channel or in the stash, in one place
\* only, until a call returns it or the stash is discarded (channels.rs:163); the
\* channel keeps its capacity.
NothingLostOrDoubled ==
    /\ MailboxTypeOK
    /\ Range(Waiting) = Queued /\ Len(Waiting) = Cardinality(Queued)

\* However calls for one window, for several and for all alternate, the events
\* of each window are returned in the order they were pushed.
InOrderPerWindow ==
    [][\A n \in Queued : log'[n].fate = "taken" =>
          \A m \in Queued : m < n /\ log[m].to = log[n].to =>
              log'[m].fate # "queued"]_vars

\* A run sees nothing pushed before the user asked for it (main.rs:517).
RunStartsClean == program = "running" => \A n \in Queued : n > since

\* What waits is what was accepted since the run was asked for, each once.
WaitingIsOwed == NothingLostOrDoubled /\ RunStartsClean

\* A call that waits for ever returns once an event it accepts has arrived,
\* wherever that event waits.
ArrivedEventWakes ==
    \A n \in 1..MaxEvents :
        (/\ call.wait = "forever" /\ n \in Queued
         /\ matches(n, call.want)) ~> (call = NoCall)

=============================================================================
