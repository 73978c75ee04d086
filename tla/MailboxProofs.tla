--------------------------- MODULE MailboxProofs ---------------------------
(***************************************************************************)
(* Proofs about Mailbox for every capacity of the channel and every number *)
(* of windows and events: what was accepted waits in one place until it is *)
(* taken or discarded, is taken in order, and never reaches a later run.   *)
(***************************************************************************)
EXTENDS Mailbox, FunctionTheorems, SequenceTheorems, FiniteSetTheorems, TLAPS

Event == [to : Destinations, kind : Kinds, fate : Fates]
Elements(s) == {s[i] : i \in 1 .. Len(s)}

(* The types of what the two threads share, and of the windows.             *)
MailTypes ==
  /\ log \in Seq(Event)
  /\ channel \in Seq(1 .. Len(log)) /\ Len(channel) <= Capacity
  /\ stash \in Seq(1 .. Len(log))
  /\ filter \subseteq Windows
  /\ call \in [want : SUBSET Windows, wait : Waits] \cup {NoCall}
  /\ program \in {"idle", "running", "exited"}
  /\ since \in 0 .. Len(log)
WindowTypes ==
  /\ opened \in 0 .. MaxChildren
  /\ open \subseteq Frame .. (opened + 1)
  /\ frame \in {"up", "closing", "gone"}

(* What is in the stash and in the channel is what was accepted ...         *)
AllHeld == Queued = Elements(stash) \cup Elements(channel)

(* ... oldest first, and the stash is older than the channel: events are    *)
(* parked in the order they left it.                                        *)
Ascends(s) == \A i, j \in 1 .. Len(s) : i < j => s[i] < s[j]
Before(s, t) == \A i \in 1 .. Len(s), j \in 1 .. Len(t) : s[i] < t[j]
OldestFirst == Ascends(stash) /\ Ascends(channel) /\ Before(stash, channel)

(* A call that waits at the channel has passed over all of the stash.       *)
NothingPassedOver ==
  call # NoCall => \A i \in 1 .. Len(stash) : ~matches(stash[i], call.want)

(* The inductive invariant.  WaitingIsOwed says only that nothing is lost,  *)
(* doubled or of an earlier run; that a run discards all that is older than *)
(* it needs OldestFirst, and the order of each window NothingPassedOver.    *)
IInv ==
  /\ MailTypes
  /\ AllHeld
  /\ OldestFirst
  /\ NothingPassedOver
  /\ RunStartsClean

----------------------------------------------------------------------------
(* Sequences and the log *)

(* The elements that are left keep their order.                             *)
LEMMA Removed ==
  ASSUME NEW S, NEW s \in Seq(S), NEW i \in 1 .. Len(s)
  PROVE  /\ RemoveAt(s, i) \in Seq(S)
         /\ Len(RemoveAt(s, i)) = Len(s) - 1
         /\ \A k \in 1 .. Len(s) - 1 : RemoveAt(s, i)[k] = IF k < i THEN s[k] ELSE s[k + 1]
<1> DEFINE a == SubSeq(s, 1, i - 1)
           b == SubSeq(s, i + 1, Len(s))
<1>1. /\ a \in Seq(S) /\ Len(a) = i - 1
      /\ \A k \in 1 .. i - 1 : a[k] = s[k]
  OBVIOUS
<1>2. /\ b \in Seq(S) /\ Len(b) = Len(s) - i
      /\ \A k \in 1 .. Len(s) - i : b[k] = s[k + i]
  OBVIOUS
<1> HIDE DEF a, b
<1>3. /\ a \o b \in Seq(S) /\ Len(a \o b) = Len(s) - 1
      /\ \A k \in 1 .. Len(s) - 1 : (a \o b)[k] = IF k < i THEN a[k] ELSE b[k - (i - 1)]
  <2>1. /\ a \o b \in Seq(S) /\ Len(a \o b) = Len(a) + Len(b)
        /\ \A k \in 1 .. Len(a) + Len(b) :
             (a \o b)[k] = IF k <= Len(a) THEN a[k] ELSE b[k - Len(a)]
    BY <1>1, <1>2, ConcatProperties
  <2>2. Len(a) + Len(b) = Len(s) - 1
    BY <1>1, <1>2
  <2>3. \A k \in 1 .. Len(s) - 1 : k < i <=> k <= Len(a)
    BY <1>1
  <2> QED
    BY <1>1, <2>1, <2>2, <2>3
<1>4. ASSUME NEW k \in 1 .. Len(s) - 1, ~(k < i)
      PROVE  b[k - (i - 1)] = s[k + 1]
  <2>1. k - (i - 1) \in 1 .. Len(s) - i /\ (k - (i - 1)) + i = k + 1
    BY <1>4
  <2> QED
    BY <2>1, <1>2
<1>5. RemoveAt(s, i) = a \o b
  BY DEF RemoveAt, a, b
<1>6. QED
  BY <1>1, <1>3, <1>4, <1>5

(* What is appended is one more element, the last.                          *)
LEMMA Appended ==
  ASSUME NEW S, NEW s \in Seq(S), NEW e \in S
  PROVE  /\ Append(s, e) \in Seq(S) /\ Len(Append(s, e)) = Len(s) + 1
         /\ Elements(Append(s, e)) = Elements(s) \cup {e}
         /\ S \subseteq Nat /\ Ascends(s) /\ (\A i \in 1 .. Len(s) : s[i] < e) => Ascends(Append(s, e))
<1> DEFINE t == Append(s, e)
           n == Len(s)
<1>1. /\ t \in Seq(S) /\ Len(t) = n + 1 /\ t[n + 1] = e /\ n \in Nat
      /\ \A i \in 1 .. n : t[i] = s[i]
  BY AppendProperties
<1> HIDE DEF t, n
<1>2. 1 .. n + 1 = 1 .. n \cup {n + 1}
  BY <1>1
<1>3. {t[i] : i \in 1 .. n + 1} = {s[i] : i \in 1 .. n} \cup {e}
  BY <1>1, <1>2
<1>4. ASSUME Ascends(s), \A i \in 1 .. n : s[i] < e, NEW i \in 1 .. n + 1, NEW j \in 1 .. n + 1, i < j
      PROVE  t[i] < t[j]
  <2>1. i \in 1 .. n
    BY <1>1, <1>4
  <2>2. CASE j = n + 1
    BY <1>1, <1>4, <2>1, <2>2
  <2>3. CASE j \in 1 .. n
    BY <1>1, <1>4, <2>1, <2>3 DEF Ascends, n
  <2> QED
    BY <1>2, <2>2, <2>3
<1>5. QED
  BY <1>1, <1>3, <1>4 DEF t, n, Elements, Ascends

(* Without one of its elements a sequence that ascends still does.          *)
LEMMA RemovedOne ==
  ASSUME NEW b \in Nat, NEW s \in Seq(1 .. b), Ascends(s), NEW i \in 1 .. Len(s)
  PROVE  /\ RemoveAt(s, i) \in Seq(1 .. b)
         /\ Ascends(RemoveAt(s, i))
         /\ Elements(RemoveAt(s, i)) = Elements(s) \ {s[i]}
         /\ \A t : Before(s, t) => Before(RemoveAt(s, i), t)
<1> DEFINE r == RemoveAt(s, i)
           from(k) == IF k < i THEN k ELSE k + 1
<1>1. /\ r \in Seq(1 .. b) /\ Len(r) = Len(s) - 1
      /\ \A k \in 1 .. Len(r) : from(k) \in 1 .. Len(s) /\ r[k] = s[from(k)]
  <2>1. /\ r \in Seq(1 .. b) /\ Len(r) = Len(s) - 1
        /\ \A k \in 1 .. Len(s) - 1 : r[k] = IF k < i THEN s[k] ELSE s[k + 1]
    BY Removed
  <2> HIDE DEF r
  <2>2. \A k \in 1 .. Len(s) - 1 : from(k) \in 1 .. Len(s)
    OBVIOUS
  <2>3. \A k \in 1 .. Len(s) - 1 : r[k] = s[from(k)]
    BY <2>1
  <2> QED
    BY <2>1, <2>2, <2>3
<1> HIDE DEF r
<1>2. Ascends(r)
  <2>1. \A k, l \in 1 .. Len(r) : k < l => from(k) < from(l)
    BY <1>1
  <2> HIDE DEF from
  <2> QED
    BY <1>1, <2>1 DEF Ascends
<1>3. \A k \in 1 .. Len(s) : k # i => s[k] # s[i]
  BY DEF Ascends
<1>4. \A k \in 1 .. Len(s) : k # i => \E l \in 1 .. Len(r) : from(l) = k
  <2> TAKE k \in 1 .. Len(s)
  <2> HAVE k # i
  <2> DEFINE l == IF k < i THEN k ELSE k - 1
  <2>1. l \in 1 .. Len(r) /\ from(l) = k
    BY <1>1
  <2> QED
    BY <2>1
<1>5. \A k \in 1 .. Len(r) : from(k) # i
  BY <1>1
<1> HIDE DEF from
<1>6. Elements(r) = Elements(s) \ {s[i]}
  <2>1. ASSUME NEW x \in Elements(r) PROVE x \in Elements(s) \ {s[i]}
    BY <2>1, <1>1, <1>3, <1>5 DEF Elements
  <2>2. ASSUME NEW x \in Elements(s) \ {s[i]} PROVE x \in Elements(r)
    <3>1. PICK k \in 1 .. Len(s) : x = s[k] /\ k # i
      BY <2>2 DEF Elements
    <3>2. PICK l \in 1 .. Len(r) : from(l) = k
      BY <3>1, <1>4
    <3> QED
      BY <3>1, <3>2, <1>1 DEF Elements
  <2> QED
    BY <2>1, <2>2
<1>7. ASSUME NEW t, Before(s, t) PROVE Before(r, t)
  BY <1>1, <1>7 DEF Before
<1>8. QED
  BY <1>1, <1>2, <1>6, <1>7 DEF r

(* The tail of a sequence that ascends is above its head.                   *)
LEMMA TailAbove ==
  ASSUME NEW b \in Nat, NEW s \in Seq(1 .. b), Ascends(s), s # <<>>
  PROVE  /\ Tail(s) \in Seq(1 .. b) /\ Len(Tail(s)) = Len(s) - 1
         /\ Head(s) = s[1] /\ 1 \in 1 .. Len(s)
         /\ Ascends(Tail(s))
         /\ Elements(Tail(s)) = Elements(s) \ {Head(s)}
         /\ \A j \in 1 .. Len(Tail(s)) : Head(s) < Tail(s)[j]
         /\ \A t : Before(t, s) => Before(t, Tail(s))
<1> DEFINE r == Tail(s)
<1>1. /\ r \in Seq(1 .. b) /\ Len(r) = Len(s) - 1 /\ Head(s) = s[1] /\ 1 \in 1 .. Len(s)
      /\ \A k \in 1 .. Len(r) : r[k] = s[k + 1] /\ k + 1 \in 1 .. Len(s)
  BY HeadTailProperties
<1> HIDE DEF r
<1>2. ASSUME NEW k \in 1 .. Len(r), NEW l \in 1 .. Len(r), k < l
      PROVE  r[k] < r[l]
  <2>1. k + 1 < l + 1
    BY <1>1, <1>2
  <2>2. s[k + 1] < s[l + 1]
    BY <1>1, <2>1 DEF Ascends
  <2> QED
    BY <1>1, <2>2
<1>3. ASSUME NEW j \in 1 .. Len(r)
      PROVE  Head(s) < r[j]
  <2>1. 1 < j + 1
    BY <1>1
  <2>2. s[1] < s[j + 1]
    BY <1>1, <2>1 DEF Ascends
  <2> QED
    BY <1>1, <2>2
<1>4. Elements(r) = Elements(s) \ {Head(s)}
  <2>1. ASSUME NEW x \in Elements(r) PROVE x \in Elements(s) \ {Head(s)}
    <3>1. PICK k \in 1 .. Len(r) : x = r[k]
      BY <2>1 DEF Elements
    <3>2. x # Head(s)
      BY <3>1, <1>1, <1>3
    <3> QED
      BY <3>1, <3>2, <1>1 DEF Elements
  <2>2. ASSUME NEW x \in Elements(s) \ {Head(s)} PROVE x \in Elements(r)
    <3>1. PICK k \in 1 .. Len(s) : x = s[k] /\ k # 1
      BY <2>2, <1>1 DEF Elements
    <3>2. k - 1 \in 1 .. Len(r) /\ r[k - 1] = s[k]
      BY <3>1, <1>1
    <3> QED
      BY <3>1, <3>2 DEF Elements
  <2> QED
    BY <2>1, <2>2
<1>5. ASSUME NEW t, Before(t, s) PROVE Before(t, r)
  BY <1>1, <1>5 DEF Before
<1>6. QED
  BY <1>1, <1>2, <1>3, <1>4, <1>5 DEF r, Ascends

(* Taking one event and discarding others changes their fates, no more.     *)
LEMMA SettledLog ==
  ASSUME NEW n, NEW dropped, n \notin dropped, log \in Seq(Event)
  PROVE  /\ Settled(n, dropped) \in Seq(Event)
         /\ Len(Settled(n, dropped)) = Len(log)
         /\ \A m \in 1 .. Len(log) :
              /\ Settled(n, dropped)[m].to = log[m].to
              /\ Settled(n, dropped)[m].fate =
                   IF m = n THEN "taken" ELSE IF m \in dropped THEN "discarded" ELSE log[m].fate
<1> DEFINE new(m) == CASE m = n -> [log[m] EXCEPT !.fate = "taken"]
                       [] m \in dropped -> [log[m] EXCEPT !.fate = "discarded"]
                       [] OTHER -> log[m]
<1>1. ASSUME NEW m \in 1 .. Len(log)
      PROVE  /\ new(m) \in Event /\ new(m).to = log[m].to
             /\ new(m).fate = IF m = n THEN "taken" ELSE IF m \in dropped THEN "discarded" ELSE log[m].fate
  <2>1. log[m] \in [to : Destinations, kind : Kinds, fate : Fates]
    <3>1. log[m] \in Event
      OBVIOUS
    <3> QED
      BY <3>1 DEF Event
  <2>2. CASE m = n
    <3>1. new(m) = [log[m] EXCEPT !.fate = "taken"]
      BY <2>2
    <3> QED
      BY <2>1, <2>2, <3>1 DEF Event, Fates
  <2>3. CASE m # n /\ m \in dropped
    <3>1. new(m) = [log[m] EXCEPT !.fate = "discarded"]
      BY <2>3
    <3> QED
      BY <2>1, <2>3, <3>1 DEF Event, Fates
  <2>4. CASE m # n /\ m \notin dropped
    <3>1. new(m) = log[m]
      BY <2>4
    <3> QED
      BY <2>1, <2>4, <3>1 DEF Event
  <2> QED
    BY <2>2, <2>3, <2>4
<1> HIDE DEF new
<1>2. Settled(n, dropped) = [m \in 1 .. Len(log) |-> new(m)]
  BY DEF Settled, new
<1>3. QED
  BY <1>1, <1>2

----------------------------------------------------------------------------
(* The windows *)

LEMMA WindowsTyped ==
  ASSUME WindowTypes, [Next]_vars
  PROVE  WindowTypes'
<1> USE MailboxAssumption DEF WindowTypes, Frame
<1>1. CASE UNCHANGED gui
  BY <1>1 DEF gui
<1>2. ASSUME NEW w \in Windows, ncdestroy(w) PROVE WindowTypes'
  BY <1>2 DEF ncdestroy
<1>3. CASE frame_close
  BY <1>3 DEF frame_close
<1>4. CASE frame_destroy
  BY <1>4 DEF frame_destroy
<1>5. CASE open_child
  BY <1>5 DEF open_child
<1>6. QED
  BY <1>1, <1>2, <1>3, <1>4, <1>5
  DEF Next, Gui, Program, vars, gui, menu, input, receive, timeout, gui_language_worker, program_event, next_event,
      next_event_for, Take, clear_filter, filter_on_window, unfilter_window, SetFilter, discard_stashed_events, program_ends

----------------------------------------------------------------------------
(* The steps of the mailbox *)

(* An event arrives.                                                        *)
LEMMA Pushed ==
  ASSUME IInv, NEW to \in Destinations, NEW kind \in Kinds, push(to, kind), UNCHANGED unread
  PROVE  IInv'
<1> DEFINE n == Len(log) + 1
           e == [to |-> to, kind |-> kind, fate |-> IF Room THEN "queued" ELSE "refused"]
<1>1. e \in Event /\ log' = Append(log, e)
  BY DEF push, Event, Fates
<1>2. /\ log' \in Seq(Event) /\ Len(log') = n /\ log'[n] = e
      /\ \A m \in 1 .. Len(log) : log'[m] = log[m]
  BY <1>1 DEF IInv, MailTypes
<1>3. Queued' = IF Room THEN Queued \cup {n} ELSE Queued
  BY <1>1, <1>2 DEF Queued, IInv, MailTypes
<1>4. /\ channel' \in Seq(1 .. n) /\ Len(channel') <= Capacity
      /\ Elements(channel') = IF Room THEN Elements(channel) \cup {n} ELSE Elements(channel)
      /\ Ascends(channel') /\ Before(stash, channel')
  <2>1. CASE ~Room
    BY <2>1, <1>2 DEF push, IInv, MailTypes, OldestFirst
  <2>2. CASE Room
    <3>1. channel' = Append(channel, n) /\ Len(channel) < Capacity
      BY <2>2 DEF push, Room
    <3>2. channel \in Seq(1 .. n) /\ n \in 1 .. n /\ (\A i \in 1 .. Len(channel) : channel[i] < n)
      BY DEF IInv, MailTypes
    <3>3. /\ channel' \in Seq(1 .. n) /\ Len(channel') = Len(channel) + 1
          /\ Elements(channel') = Elements(channel) \cup {n}
          /\ Ascends(channel')
      BY <3>1, <3>2, Appended DEF IInv, OldestFirst
    <3>4. ASSUME NEW i \in 1 .. Len(stash), NEW j \in 1 .. Len(channel')
          PROVE  stash[i] < channel'[j]
      <4>1. stash[i] < n
        BY DEF IInv, MailTypes
      <4>2. CASE j = Len(channel) + 1
        BY <4>1, <4>2, <3>1, <3>2, AppendProperties
      <4>3. CASE j \in 1 .. Len(channel)
        BY <4>3, <3>1, <3>2, AppendProperties DEF IInv, OldestFirst, Before
      <4> QED
        BY <3>2, <3>3, <4>2, <4>3
    <3>5. Before(stash, channel')
      BY <3>4 DEF Before
    <3> QED
      BY <2>2, <3>1, <3>3, <3>5, MailboxAssumption DEF IInv, MailTypes
  <2> QED
    BY <2>1, <2>2
<1>5. UNCHANGED <<stash, filter, call, program, since>>
  BY DEF unread
<1>6. MailTypes'
  BY <1>2, <1>4, <1>5 DEF IInv, MailTypes
<1>7. AllHeld'
  BY <1>3, <1>4, <1>5 DEF IInv, AllHeld
<1>8. OldestFirst'
  BY <1>4, <1>5 DEF IInv, OldestFirst
<1>9. NothingPassedOver'
  <2>1. ASSUME NEW i \in 1 .. Len(stash) PROVE log'[stash[i]] = log[stash[i]]
    <3>1. stash[i] \in 1 .. Len(log)
      BY DEF IInv, MailTypes
    <3> QED
      BY <3>1, <1>2
  <2> QED
    BY <2>1, <1>5 DEF IInv, NothingPassedOver, matches
<1>10. RunStartsClean'
  BY <1>3, <1>5 DEF IInv, MailTypes, RunStartsClean
<1>11. QED
  BY <1>6, <1>7, <1>8, <1>9, <1>10 DEF IInv

(* A call returns event n; what is left waits as before, or is discarded    *)
(* when a run begins.                                                       *)
LEMMA Returned ==
  ASSUME IInv, NEW n \in Queued, NEW rest \in Seq(1 .. Len(log)), Return(n, rest),
         channel' \in Seq(1 .. Len(log)), Len(channel') <= Capacity,
         Ascends(rest), Ascends(channel'), Before(rest, channel'),
         Elements(rest) \cup Elements(channel') = Queued \ {n},
         \A j \in 1 .. Len(channel') : n < channel'[j]
  PROVE  IInv'
<1>1. /\ log \in Seq(Event) /\ n \in 1 .. Len(log) /\ log[n].fate = "queued"
      /\ Len(log) \in Nat /\ DOMAIN log = 1 .. Len(log)
  BY DEF IInv, MailTypes, Queued
<1>2. Range(rest) = Elements(rest) /\ n \notin Elements(rest)
  BY DEF Range, Elements
<1>3. Elements(rest) \cap Elements(channel') = {}
  BY DEF Elements, Before
<1>4. /\ call' = NoCall
      /\ \/ /\ filter' = {} /\ stash' = <<>> /\ program' \in {"idle", "running"} /\ since' = n
            /\ log' = Settled(n, Elements(rest))
         \/ /\ filter' = filter /\ stash' = rest /\ program' \in {program, "exited"} /\ since' = since
            /\ log' = Settled(n, {})
  BY <1>2 DEF Return, gui_run_program
<1>5. NothingPassedOver'
  BY <1>4 DEF NothingPassedOver
<1>6. CASE stash' = <<>> /\ filter' = {} /\ program' \in {"idle", "running"} /\ since' = n /\ log' = Settled(n, Elements(rest))
  <2>1. /\ log' \in Seq(Event) /\ Len(log') = Len(log) /\ DOMAIN log' = 1 .. Len(log)
        /\ \A m \in 1 .. Len(log) : log'[m].fate = IF m = n THEN "taken" ELSE
                                     IF m \in Elements(rest) THEN "discarded" ELSE log[m].fate
    BY <1>1, <1>2, <1>6, SettledLog
  <2>2. Queued' = (Queued \ {n}) \ Elements(rest)
    BY <2>1, <1>1 DEF Queued
  <2>3. Queued' = Elements(channel')
    BY <2>2, <1>3
  <2>4. MailTypes'
    BY <1>1, <1>4, <1>6, <2>1 DEF MailTypes, IInv
  <2>5. AllHeld'
    BY <2>3, <1>6 DEF AllHeld, Elements
  <2>6. OldestFirst'
    BY <1>6 DEF OldestFirst, Ascends, Before
  <2>7. RunStartsClean'
    BY <2>3, <1>6 DEF RunStartsClean, Elements
  <2> QED
    BY <2>4, <2>5, <2>6, <2>7, <1>5 DEF IInv
<1>7. CASE filter' = filter /\ stash' = rest /\ program' \in {program, "exited"} /\ since' = since /\ log' = Settled(n, {})
  <2>1. /\ log' \in Seq(Event) /\ Len(log') = Len(log) /\ DOMAIN log' = 1 .. Len(log)
        /\ \A m \in 1 .. Len(log) : log'[m].fate = IF m = n THEN "taken" ELSE log[m].fate
    BY <1>1, <1>7, SettledLog
  <2>2. Queued' = Queued \ {n}
    BY <2>1, <1>1 DEF Queued
  <2>3. MailTypes'
    BY <1>1, <1>4, <1>7, <2>1 DEF MailTypes, IInv
  <2>4. AllHeld'
    BY <2>2, <1>7 DEF AllHeld
  <2>5. OldestFirst'
    BY <1>7 DEF OldestFirst
  <2>6. RunStartsClean'
    BY <2>2, <1>7 DEF RunStartsClean, IInv
  <2> QED
    BY <2>3, <2>4, <2>5, <2>6, <1>5 DEF IInv
<1>8. QED
  BY <1>4, <1>6, <1>7

(* A call finds its event in the stash, or goes on to wait for it.          *)
LEMMA Took ==
  ASSUME IInv, NEW want \in SUBSET Windows, NEW wait \in Waits, Take(want, wait)
  PROVE  IInv'
<1> DEFINE found == {i \in DOMAIN stash : matches(stash[i], want)}
<1>1. stash \in Seq(1 .. Len(log)) /\ Len(log) \in Nat /\ DOMAIN stash = 1 .. Len(stash)
  BY DEF IInv, MailTypes
<1>2. CASE found = {}
  <2>1. UNCHANGED <<log, channel, stash, filter, program, since>> /\ call' = [want |-> want, wait |-> wait]
    BY <1>2 DEF Take
  <2>2. NothingPassedOver'
    BY <2>1, <1>1, <1>2 DEF NothingPassedOver, matches
  <2>3. MailTypes'
    BY <2>1 DEF IInv, MailTypes
  <2>4. AllHeld' /\ OldestFirst' /\ RunStartsClean'
    BY <2>1 DEF IInv, AllHeld, OldestFirst, RunStartsClean, Queued
  <2> QED
    BY <2>2, <2>3, <2>4 DEF IInv
<1>3. CASE found # {}
  <2>1. PICK i \in found : Return(stash[i], RemoveAt(stash, i)) /\ channel' = channel
    BY <1>3 DEF Take
  <2> DEFINE n == stash[i]
             rest == RemoveAt(stash, i)
  <2>2. i \in 1 .. Len(stash)
    BY <1>1
  <2>3. /\ rest \in Seq(1 .. Len(log)) /\ Ascends(rest) /\ Elements(rest) = Elements(stash) \ {n}
        /\ Before(rest, channel)
    BY <1>1, <2>2, RemovedOne DEF IInv, OldestFirst
  <2>4. n \in Queued /\ (\A j \in 1 .. Len(channel) : n < channel[j])
    BY <2>2 DEF IInv, AllHeld, Elements, OldestFirst, Before
  <2>5. n \notin Elements(channel)
    BY <2>4, <1>1 DEF Elements, IInv, MailTypes
  <2>6. Elements(rest) \cup Elements(channel') = Queued \ {n}
    BY <2>1, <2>3, <2>5 DEF IInv, AllHeld
  <2>7. channel' \in Seq(1 .. Len(log)) /\ Len(channel') <= Capacity /\ Ascends(channel')
    BY <2>1 DEF IInv, MailTypes, OldestFirst
  <2> HIDE DEF n, rest
  <2>8. Return(n, rest)
    BY <2>1 DEF n, rest
  <2> QED
    BY <2>1, <2>3, <2>4, <2>6, <2>7, <2>8, Returned
<1>4. QED
  BY <1>2, <1>3

(* The oldest event leaves the channel, for the program or for the stash.   *)
LEMMA Received ==
  ASSUME IInv, receive
  PROVE  IInv'
<1> DEFINE n == Head(channel)
<1>1. channel \in Seq(1 .. Len(log)) /\ Len(log) \in Nat /\ Ascends(channel) /\ channel # <<>>
  BY DEF IInv, MailTypes, OldestFirst, receive
<1>2. /\ channel' = Tail(channel) /\ channel' \in Seq(1 .. Len(log)) /\ Len(channel') = Len(channel) - 1
      /\ n = channel[1] /\ 1 \in 1 .. Len(channel) /\ Ascends(channel')
      /\ Elements(channel') = Elements(channel) \ {n}
      /\ \A j \in 1 .. Len(channel') : n < channel'[j]
  BY <1>1, TailAbove DEF receive
<1>3. Before(stash, channel')
  BY <1>1, <1>2, TailAbove DEF IInv, OldestFirst
<1>4. n \in Queued /\ n \in Elements(channel) /\ n \in 1 .. Len(log)
  BY <1>1, <1>2 DEF IInv, AllHeld, Elements
<1>5. /\ stash \in Seq(1 .. Len(log)) /\ Ascends(stash)
      /\ \A i \in 1 .. Len(stash) : stash[i] < n
  BY <1>2 DEF IInv, MailTypes, OldestFirst, Before
<1>6. n \notin Elements(stash)
  BY <1>1, <1>4, <1>5 DEF Elements
<1>7. Len(channel') <= Capacity
  BY <1>1, <1>2, MailboxAssumption DEF IInv, MailTypes
<1> HIDE DEF n
<1>8. CASE Return(n, stash)
  <2>1. Elements(stash) \cup Elements(channel') = Queued \ {n}
    BY <1>2, <1>6 DEF IInv, AllHeld
  <2> QED
    BY <1>2, <1>3, <1>4, <1>5, <1>7, <1>8, <2>1, Returned
<1>9. CASE ~matches(n, call.want) /\ stash' = Parked(n) /\ UNCHANGED <<log, filter, call, program, since>>
  <2>1. /\ stash' \in Seq(1 .. Len(log)) /\ Len(stash') = Len(stash) + 1
        /\ Elements(stash') = Elements(stash) \cup {n} /\ Ascends(stash')
    <3>1. 1 .. Len(log) \subseteq Nat /\ stash' = Append(stash, n)
      BY <1>1, <1>9 DEF Parked
    <3> QED
      BY <3>1, <1>4, <1>5, Appended
  <2>2. ASSUME NEW i \in 1 .. Len(stash') PROVE stash'[i] \in Elements(stash) \cup {n}
    BY <2>1 DEF Elements
  <2>3. Before(stash', channel')
    BY <1>2, <1>3, <2>2 DEF Before, Elements
  <2>4. MailTypes'
    BY <1>2, <1>7, <1>9, <2>1 DEF IInv, MailTypes
  <2>5. AllHeld'
    BY <1>2, <1>4, <1>9, <2>1 DEF IInv, AllHeld, Queued
  <2>6. OldestFirst'
    BY <1>2, <2>1, <2>3 DEF OldestFirst
  <2>7. NothingPassedOver'
    BY <1>9, <2>2 DEF IInv, NothingPassedOver, matches, Elements
  <2>8. RunStartsClean'
    BY <1>9 DEF IInv, RunStartsClean, Queued
  <2> QED
    BY <2>4, <2>5, <2>6, <2>7, <2>8 DEF IInv
<1>10. QED
  BY <1>8, <1>9 DEF receive, n

(* The stash is discarded, or the call gives up, the program changes its    *)
(* filter or ends.                                                          *)
LEMMA Discarded ==
  ASSUME IInv, discard_stashed_events
  PROVE  IInv'
<1>1. /\ log \in Seq(Event) /\ Len(log) \in Nat /\ DOMAIN log = 1 .. Len(log)
      /\ stash \in Seq(1 .. Len(log)) /\ 0 \notin Elements(stash) /\ Range(stash) = Elements(stash)
  BY DEF IInv, MailTypes, Range, Elements
<1>2. /\ log' \in Seq(Event) /\ Len(log') = Len(log) /\ DOMAIN log' = 1 .. Len(log)
      /\ \A m \in 1 .. Len(log) : /\ log'[m].to = log[m].to
                                   /\ log'[m].fate = IF m \in Elements(stash) THEN "discarded" ELSE log[m].fate
  <2>1. log' = Settled(0, Elements(stash))
    BY <1>1 DEF discard_stashed_events
  <2> QED
    BY <1>1, <2>1, SettledLog
<1>3. stash' = <<>> /\ UNCHANGED <<channel, filter, call, program, since>>
  BY DEF discard_stashed_events
<1>4. Elements(stash) \cap Elements(channel) = {}
  BY <1>1 DEF IInv, MailTypes, OldestFirst, Before, Elements
<1>5. Queued' = Elements(channel)
  <2>1. Queued' = Queued \ Elements(stash)
    BY <1>1, <1>2 DEF Queued
  <2> QED
    BY <2>1, <1>4 DEF IInv, AllHeld
<1>6. MailTypes'
  BY <1>1, <1>2, <1>3 DEF IInv, MailTypes
<1>7. AllHeld' /\ OldestFirst' /\ NothingPassedOver'
  BY <1>3, <1>5 DEF IInv, AllHeld, OldestFirst, NothingPassedOver, Elements, Ascends, Before
<1>8. RunStartsClean'
  BY <1>3, <1>5 DEF IInv, RunStartsClean, AllHeld
<1>9. QED
  BY <1>6, <1>7, <1>8 DEF IInv

LEMMA LeftAlone ==
  ASSUME IInv, UNCHANGED <<log, channel, stash, since>>, call' \in {call, NoCall},
         filter' \subseteq Windows, program' \in {program, "idle"}
  PROVE  IInv'
<1>1. MailTypes'
  BY DEF IInv, MailTypes
<1>2. AllHeld' /\ OldestFirst' /\ NothingPassedOver' /\ RunStartsClean'
  BY DEF IInv, AllHeld, OldestFirst, NothingPassedOver, RunStartsClean, Queued, matches
<1>3. QED
  BY <1>1, <1>2 DEF IInv

----------------------------------------------------------------------------
(* The invariant *)

LEMMA InvInit == Init => IInv /\ WindowTypes
BY MailboxAssumption DEF Init, IInv, MailTypes, WindowTypes, AllHeld, OldestFirst, NothingPassedOver, RunStartsClean,
  Queued, Elements, Ascends, Before, Frame, Windows, NoCall

(* What the steps of Next do, by their effect on the mailbox.               *)
LEMMA StepKinds ==
  ASSUME IInv, WindowTypes, [Next]_vars
  PROVE  \/ \E to \in Destinations, kind \in Kinds : push(to, kind) /\ UNCHANGED unread
         \/ \E want \in SUBSET Windows, wait \in Waits : Take(want, wait)
         \/ receive
         \/ discard_stashed_events
         \/ /\ UNCHANGED <<log, channel, stash, since>> /\ call' \in {call, NoCall}
            /\ filter' \subseteq Windows /\ program' \in {program, "idle"}
<1> DEFINE Push == \E to \in Destinations, kind \in Kinds : push(to, kind) /\ UNCHANGED unread
           Taking == \E want \in SUBSET Windows, wait \in Waits : Take(want, wait)
           Alone == /\ UNCHANGED <<log, channel, stash, since>> /\ call' \in {call, NoCall}
                    /\ filter' \subseteq Windows /\ program' \in {program, "idle"}
<1>1. Wanted \in SUBSET Windows /\ filter \subseteq Windows
  BY DEF Wanted, IInv, MailTypes
<1>2. CASE menu \/ frame_close
  BY <1>2 DEF menu, frame_close, Destinations, Kinds
<1>3. CASE \E w \in Windows : input(w) \/ ncdestroy(w)
  BY <1>3 DEF input, ncdestroy, Destinations, Kinds
<1>4. CASE open_child
  <2>1. opened + 2 \in Windows
    BY <1>4, MailboxAssumption DEF open_child, WindowTypes, Windows, Frame
  <2> QED
    BY <1>4, <2>1 DEF open_child, Destinations, Kinds
<1>5. CASE frame_destroy
  BY <1>1, <1>5 DEF frame_destroy, unread
<1>6. CASE program_event \/ gui_language_worker
  <2>1. "forever" \in Waits
    BY DEF Waits
  <2> QED
    BY <1>1, <1>6, <2>1 DEF program_event, gui_language_worker, next_event, next_event_for
<1>7. CASE clear_filter \/ \E w \in Windows : filter_on_window(w) \/ unfilter_window(w)
  BY <1>1, <1>7 DEF clear_filter, filter_on_window, unfilter_window, SetFilter
<1>8. CASE program_ends \/ timeout \/ UNCHANGED vars
  BY <1>1, <1>8 DEF program_ends, timeout, vars
<1>9. QED
  BY <1>2, <1>3, <1>4, <1>5, <1>6, <1>7, <1>8 DEF Next, Gui, Program

LEMMA InvStep == IInv /\ WindowTypes /\ [Next]_vars => IInv'
<1> SUFFICES ASSUME IInv, WindowTypes, [Next]_vars PROVE IInv'
  OBVIOUS
<1> QED
  BY StepKinds, Pushed, Took, Received, Discarded, LeftAlone

(* A sequence that ascends has as many places as elements.                  *)
LEMMA EachOnce ==
  ASSUME NEW b \in Nat, NEW s \in Seq(1 .. b), Ascends(s)
  PROVE  Len(s) = Cardinality(Elements(s))
<1> DEFINE S == 1 .. Len(s)
           T == Elements(s)
<1>1. s \in [S -> T] /\ Len(s) \in Nat
  BY DEF Elements
<1>2. \A i, j \in S : s[i] = s[j] => i = j
  BY DEF Ascends
<1>3. \A x \in T : \E i \in S : s[i] = x
  BY DEF Elements
<1> HIDE DEF T
<1>4. s \in Bijection(S, T)
  BY <1>1, <1>2, <1>3 DEF Bijection, Injection, Surjection, IsInjective
<1>5. ExistsBijection(S, T)
  BY <1>4 DEF ExistsBijection
<1>6. IsFiniteSet(S) /\ Cardinality(S) = Len(s)
  <2>1. IsFiniteSet(S) /\ Cardinality(S) = IF 1 > Len(s) THEN 0 ELSE Len(s) - 1 + 1
    <3>1. 1 \in Int /\ Len(s) \in Int
      BY <1>1
    <3>2. \A a, c \in Int : IsFiniteSet(a .. c) /\ Cardinality(a .. c) = IF a > c THEN 0 ELSE c - a + 1
      BY FS_Interval
    <3> QED
      BY <3>1, <3>2
  <2> QED
    BY <1>1, <2>1
<1>7. QED
  BY <1>5, <1>6, FS_Bijection DEF T

LEMMA Joined ==
  ASSUME NEW b \in Nat, NEW s \in Seq(1 .. b), NEW t \in Seq(1 .. b), Ascends(s), Ascends(t), Before(s, t)
  PROVE  s \o t \in Seq(1 .. b) /\ Ascends(s \o t) /\ Elements(s \o t) = Elements(s) \cup Elements(t)
<1> DEFINE r == s \o t
<1>1. /\ r \in Seq(1 .. b) /\ Len(r) = Len(s) + Len(t) /\ Len(s) \in Nat /\ Len(t) \in Nat
      /\ \A i \in 1 .. Len(s) + Len(t) : r[i] = IF i <= Len(s) THEN s[i] ELSE t[i - Len(s)]
  BY ConcatProperties
<1> HIDE DEF r
<1>2. /\ \A i \in 1 .. Len(s) : i \in 1 .. Len(r) /\ r[i] = s[i]
      /\ \A j \in 1 .. Len(t) : Len(s) + j \in 1 .. Len(r) /\ r[Len(s) + j] = t[j]
  <2>1. ASSUME NEW i \in 1 .. Len(s) PROVE i \in 1 .. Len(s) + Len(t) /\ i <= Len(s)
    BY <1>1
  <2>2. ASSUME NEW j \in 1 .. Len(t)
        PROVE  Len(s) + j \in 1 .. Len(s) + Len(t) /\ ~(Len(s) + j <= Len(s)) /\ (Len(s) + j) - Len(s) = j
    BY <1>1
  <2> QED
    BY <1>1, <2>1, <2>2
<1>3. ASSUME NEW k \in 1 .. Len(r), k \notin 1 .. Len(s)
      PROVE  k - Len(s) \in 1 .. Len(t) /\ r[k] = t[k - Len(s)]
  BY <1>1, <1>3
<1>4. Elements(r) = Elements(s) \cup Elements(t)
  <2>1. ASSUME NEW x \in Elements(r) PROVE x \in Elements(s) \cup Elements(t)
    <3>1. PICK k \in 1 .. Len(r) : x = r[k]
      BY <2>1 DEF Elements
    <3>2. CASE k \in 1 .. Len(s)
      BY <1>2, <3>1, <3>2 DEF Elements
    <3>3. CASE k \notin 1 .. Len(s)
      BY <1>3, <3>1, <3>3 DEF Elements
    <3> QED
      BY <3>2, <3>3
  <2>2. ASSUME NEW x \in Elements(s) \cup Elements(t) PROVE x \in Elements(r)
    BY <1>2, <2>2 DEF Elements
  <2> QED
    BY <2>1, <2>2
<1>5. ASSUME NEW i \in 1 .. Len(r), NEW j \in 1 .. Len(r), i < j
      PROVE  r[i] < r[j]
  <2>1. CASE j \in 1 .. Len(s)
    <3>1. i \in 1 .. Len(s)
      BY <1>1, <1>5, <2>1
    <3> QED
      BY <1>2, <1>5, <2>1, <3>1 DEF Ascends
  <2>2. CASE i \in 1 .. Len(s) /\ j \notin 1 .. Len(s)
    BY <1>2, <1>3, <2>2 DEF Before
  <2>3. CASE i \notin 1 .. Len(s)
    <3>1. j \notin 1 .. Len(s) /\ i - Len(s) < j - Len(s)
      BY <1>1, <1>5, <2>3
    <3> QED
      BY <1>3, <2>3, <3>1 DEF Ascends
  <2> QED
    BY <2>1, <2>2, <2>3
<1>6. QED
  BY <1>1, <1>4, <1>5 DEF r, Ascends

LEMMA InvOwed == IInv /\ WindowTypes => WaitingIsOwed
<1> SUFFICES ASSUME IInv, WindowTypes PROVE WaitingIsOwed
  OBVIOUS
<1>1. log \in Seq(Event) /\ DOMAIN log = 1 .. Len(log) /\ Len(log) \in Nat
  BY DEF IInv, MailTypes
<1>2. MailboxTypeOK
  BY <1>1 DEF IInv, MailTypes, WindowTypes, MailboxTypeOK, Event
<1>3. /\ Waiting \in Seq(1 .. Len(log)) /\ Ascends(Waiting)
      /\ Elements(Waiting) = Queued
  BY <1>1, Joined DEF IInv, MailTypes, OldestFirst, AllHeld, Waiting
<1>4. Range(Waiting) = Queued
  BY <1>3 DEF Range, Elements
<1>5. Len(Waiting) = Cardinality(Queued)
  BY <1>1, <1>3, EachOnce
<1>6. QED
  BY <1>2, <1>4, <1>5 DEF WaitingIsOwed, NothingLostOrDoubled, IInv

LEMMA Invariance == Spec => [](IInv /\ WindowTypes)
<1>1. IInv /\ WindowTypes /\ [Next]_vars => (IInv /\ WindowTypes)'
  BY InvStep, WindowsTyped
<1>2. QED
  BY <1>1, InvInit, PTL DEF Spec

(* Every event that was accepted waits in one place only, of the stash or   *)
(* the channel, until it is taken or discarded, and no program finds one    *)
(* that is older than the request for its run (channels.rs:163, 296,        *)
(* main.rs:517).                                                            *)
THEOREM EventsAreOwed == Spec => []WaitingIsOwed
BY Invariance, InvOwed, PTL

----------------------------------------------------------------------------
(* Order *)

InOrder == \A n \in Queued : log'[n].fate = "taken" =>
             \A m \in Queued : m < n /\ log[m].to = log[n].to => log'[m].fate # "queued"

(* What a call returns is the one event it marks as taken.                  *)
LEMMA OneTaken ==
  ASSUME IInv, NEW n \in Queued, NEW rest, Return(n, rest), n \notin Range(rest),
         NEW m \in Queued, log'[m].fate = "taken"
  PROVE  m = n
<1>1. log \in Seq(Event) /\ m \in 1 .. Len(log) /\ log[m].fate = "queued"
  BY DEF IInv, MailTypes, Queued
<1>2. PICK dropped : n \notin dropped /\ log' = Settled(n, dropped)
  BY DEF Return, gui_run_program
<1>3. log'[m].fate = IF m = n THEN "taken" ELSE IF m \in dropped THEN "discarded" ELSE log[m].fate
  BY <1>1, <1>2, SettledLog
<1>4. QED
  BY <1>1, <1>3

(* From the stash: the first event there that the call accepts.             *)
LEMMA StashInOrder ==
  ASSUME IInv, NEW want \in SUBSET Windows, NEW wait \in Waits, Take(want, wait)
  PROVE  InOrder
<1> SUFFICES ASSUME NEW n \in Queued, log'[n].fate = "taken",
                    NEW m \in Queued, m < n, log[m].to = log[n].to
             PROVE  FALSE
  BY DEF InOrder
<1> DEFINE found == {i \in DOMAIN stash : matches(stash[i], want)}
<1>1. /\ log \in Seq(Event) /\ log[n].fate = "queued"
      /\ stash \in Seq(1 .. Len(log)) /\ Len(stash) \in Nat /\ DOMAIN stash = 1 .. Len(stash) /\ Len(log) \in Nat
  BY DEF IInv, MailTypes, Queued
<1>2. found # {}
  BY <1>1 DEF Take
<1>3. PICK i \in found : (\A j \in found : i <= j) /\ Return(stash[i], RemoveAt(stash, i))
  BY <1>2 DEF Take
<1>4. i \in 1 .. Len(stash)
  BY <1>1
<1>5. /\ RemoveAt(stash, i) \in Seq(1 .. Len(log))
      /\ Elements(RemoveAt(stash, i)) = Elements(stash) \ {stash[i]}
  BY <1>1, <1>4, RemovedOne DEF IInv, OldestFirst
<1>6. stash[i] \notin Range(RemoveAt(stash, i))
  BY <1>5 DEF Range, Elements
<1>7. stash[i] \in Queued
  BY <1>4 DEF IInv, AllHeld, Elements
<1>8. n = stash[i]
  BY <1>3, <1>6, <1>7, OneTaken
<1>9. PICK k \in 1 .. Len(stash) : m = stash[k]
  <2>1. ASSUME NEW j \in 1 .. Len(channel) PROVE m # channel[j]
    BY <1>1, <1>4, <1>8 DEF IInv, MailTypes, OldestFirst, Before
  <2> QED
    BY <2>1 DEF IInv, AllHeld, Elements
<1>10. k \in found
  BY <1>1, <1>8, <1>9 DEF matches
<1>11. i <= k
  BY <1>3, <1>10
<1>12. stash[i] = stash[k] \/ stash[i] < stash[k]
  BY <1>1, <1>4, <1>11 DEF IInv, OldestFirst, Ascends
<1>13. QED
  BY <1>1, <1>4, <1>8, <1>9, <1>12

(* From the channel: its oldest, when the call has passed over the stash.   *)
LEMMA ChannelInOrder ==
  ASSUME IInv, receive
  PROVE  InOrder
<1> SUFFICES ASSUME NEW n \in Queued, log'[n].fate = "taken",
                    NEW m \in Queued, m < n, log[m].to = log[n].to
             PROVE  FALSE
  BY DEF InOrder
<1> DEFINE h == Head(channel)
<1>1. /\ log \in Seq(Event) /\ log[n].fate = "queued" /\ Len(log) \in Nat
      /\ stash \in Seq(1 .. Len(log)) /\ channel \in Seq(1 .. Len(log))
      /\ Ascends(channel) /\ channel # <<>>
  BY DEF IInv, MailTypes, Queued, OldestFirst, receive
<1>2. h = channel[1] /\ 1 \in 1 .. Len(channel) /\ Len(channel) \in Nat
  BY <1>1, TailAbove
<1> HIDE DEF h
<1>3. matches(h, call.want) /\ Return(h, stash) /\ call # NoCall
  BY <1>1 DEF receive, NoCall, h
<1>4. h \in Queued
  BY <1>2 DEF IInv, AllHeld, Elements
<1>5. h \notin Range(stash)
  <2>1. ASSUME NEW i \in 1 .. Len(stash) PROVE stash[i] # h
    <3>1. stash[i] < channel[1] /\ stash[i] \in 1 .. Len(log)
      BY <1>1, <1>2 DEF IInv, OldestFirst, Before
    <3> QED
      BY <1>1, <1>2, <3>1
  <2> QED
    BY <1>1, <2>1 DEF Range
<1>6. n = h
  BY <1>3, <1>4, <1>5, OneTaken
<1>7. CASE \E k \in 1 .. Len(stash) : m = stash[k]
  <2>1. PICK k \in 1 .. Len(stash) : m = stash[k]
    BY <1>7
  <2>2. ~matches(m, call.want)
    BY <1>3, <2>1 DEF IInv, NothingPassedOver
  <2> QED
    BY <1>3, <1>6, <2>2 DEF matches
<1>8. CASE \E j \in 1 .. Len(channel) : m = channel[j]
  <2>1. PICK j \in 1 .. Len(channel) : m = channel[j]
    BY <1>8
  <2>2. j = 1 \/ channel[1] < channel[j]
    BY <1>1, <1>2, <2>1 DEF Ascends
  <2> QED
    BY <1>1, <1>2, <1>6, <2>1, <2>2
<1>9. QED
  BY <1>7, <1>8 DEF IInv, AllHeld, Elements

LEMMA StepInOrder == IInv /\ WindowTypes /\ [Next]_vars => InOrder
<1> SUFFICES ASSUME IInv, WindowTypes, [Next]_vars PROVE InOrder
  OBVIOUS
<1>1. log \in Seq(Event) /\ DOMAIN log = 1 .. Len(log)
  BY DEF IInv, MailTypes
<1>2. ASSUME NEW to, NEW kind, push(to, kind) PROVE InOrder
  <2>1. \A n \in 1 .. Len(log) : log'[n] = log[n]
    BY <1>1, <1>2 DEF push
  <2> QED
    BY <1>1, <2>1 DEF InOrder, Queued
<1>3. CASE discard_stashed_events
  <2>1. 0 \notin Range(stash) /\ log' = Settled(0, Range(stash)) /\ 0 \notin 1 .. Len(log)
    BY <1>3 DEF discard_stashed_events, IInv, MailTypes, Range
  <2>2. \A n \in 1 .. Len(log) : log'[n].fate = IF n \in Range(stash) THEN "discarded" ELSE log[n].fate
    BY <1>1, <2>1, SettledLog
  <2> QED
    BY <1>1, <2>2 DEF InOrder, Queued
<1>4. CASE UNCHANGED log
  BY <1>4 DEF InOrder, Queued
<1>5. QED
  BY <1>2, <1>3, <1>4, StepKinds, StashInOrder, ChannelInOrder

(* Whatever calls for one window, several or all alternate, the events of a *)
(* window are taken in the order they were pushed (channels.rs:253, 296).   *)
THEOREM TakenInOrder == Spec => InOrderPerWindow
<1>1. IInv /\ WindowTypes /\ [Next]_vars => [InOrder]_vars
  BY StepInOrder
<1>2. Spec => [][InOrder]_vars
  BY <1>1, Invariance, PTL DEF Spec
<1>3. QED
  BY <1>2 DEF InOrderPerWindow, InOrder
=============================================================================
