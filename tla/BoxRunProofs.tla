------------------------------ MODULE BoxRunProofs ------------------------------
(****************************************************************************)
(* For any buffer size, files, writes and number of handles the table of    *)
(* streams agrees with the selections and with RISC OS, and the bytes of a  *)
(* stream go through its buffer once and in order.  For any faults, lines   *)
(* and depths Escape then ends the run it was asked for and no other,       *)
(* nothing checked comes back to a program that was asked to stop, and no   *)
(* run uses memory of an earlier one.                                       *)
(****************************************************************************)
EXTENDS BoxRun, Recursion, SequenceTheorems

(* A stream with its handle, as the calls of RosStream take and leave them. *)
PairRecord == [stream : StreamRecord, os : HandleRecord]

Typed(p) ==
  /\ p \in PairRecord
  /\ p.stream.pos <= Len(p.stream.buf) /\ Len(p.stream.buf) <= BUF
  /\ p.os.ptr <= Len(p.os.data)

(* A reader's buffer is the part of the file before the pointer, and what   *)
(* the program got is all before the buffer's next byte.                    *)
Reads(p) ==
  /\ p.os.data = OldData /\ p.os.written = 0
  /\ Len(p.stream.buf) <= p.os.ptr
  /\ \A k \in 1 .. Len(p.stream.buf) : p.stream.buf[k] = p.os.ptr - Len(p.stream.buf) + k
  /\ Len(p.os.got) = p.os.ptr - Len(p.stream.buf) + p.stream.pos
  /\ p.stream.eof => p.os.failed \/ p.os.ptr = FileLength

GotInOrder(o) ==
  /\ \A i \in 1 .. Len(o.got) : o.got[i] = i
  /\ o.ended => o.failed \/ Len(o.got) = FileLength

(* Of the bytes that were written to a handle all but the last "waiting"   *)
(* are in the file, in order, behind what was there unless a transfer       *)
(* failed.                                                                  *)
InOrder(data, old, written, failed, waiting) ==
  /\ waiting <= written /\ old <= FileLength
  /\ \A i, j \in 1 .. Len(data) : i < j => data[i] < data[j]
  /\ \A i \in 1 .. Len(data) : data[i] <= FileLength + written - waiting
  /\ ~ failed =>
       /\ Len(data) = old + written - waiting
       /\ \A i \in 1 .. Len(data) :
            data[i] = IF i <= old THEN i ELSE FileLength + i - old

InFile(o, waiting) == InOrder(o.data, o.old, o.written, o.failed, waiting)

(* A writer's buffer holds the last bytes written, and the pointer stands   *)
(* at the file's end unless an append was not set there.                    *)
Writes(p) ==
  /\ p.os.got = <<>> /\ ~ p.os.ended /\ p.stream.pos = 0
  /\ ~ ArgsFails =>
       /\ p.os.ptr = Len(p.os.data)
       /\ \A k \in 1 .. Len(p.stream.buf) :
            p.stream.buf[k] = FileLength + p.os.written - Len(p.stream.buf) + k
       /\ InFile(p.os, Len(p.stream.buf))

Sound(p) ==
  /\ Typed(p) /\ GotInOrder(p.os)
  /\ p.stream.handle \in Handle /\ p.os.state = "open"
  /\ IF p.stream.writing THEN Writes(p) ELSE Reads(p)

(* A handle that is closed, or was never given.                             *)
Settled(o) ==
  /\ o \in HandleRecord /\ o.state # "open" /\ GotInOrder(o)
  /\ ~ ArgsFails => o.written = 0 \/ InFile(o, 0)

(* Every stream is sound with its handle, no two share one, every open      *)
(* handle has a stream, and the rest is counted and settled.                *)
OwnersInv ==
  /\ \A i \in DOMAIN files : files[i] # NoStream => Sound(Pair(files[i], os[files[i].handle]))
  /\ \A i, j \in DOMAIN files :
       files[i] # NoStream /\ files[j] # NoStream /\ files[i].handle = files[j].handle => i = j
  /\ \A h \in Handle : os[h].state = "open" =>
       \E i \in DOMAIN files : files[i] # NoStream /\ files[i].handle = h
  /\ \A h \in Handle : os[h].state # "open" => Settled(os[h])

StreamsInv ==
  /\ StreamsTypeOK
  /\ SelectionsOpen
  /\ OwnersInv
  /\ buffers = Cardinality(DOMAIN files \ Free(files))

----------------------------------------------------------------------------
(* One call on one stream *)

LEMMA OldDataIs ==
  /\ OldData \in Seq(Nat) /\ Len(OldData) = FileLength
  /\ \A i \in 1 .. FileLength : OldData[i] = i
BY StreamAssumptions DEF OldData

LEMMA PutAtProperties ==
  ASSUME NEW data \in Seq(Nat), NEW bytes \in Seq(Nat), NEW ptr \in Nat, ptr <= Len(data)
  PROVE  /\ PutAt(data, ptr, bytes) \in Seq(Nat)
         /\ Len(PutAt(data, ptr, bytes)) >= ptr + Len(bytes)
         /\ ptr = Len(data) => PutAt(data, ptr, bytes) = data \o bytes
<1> DEFINE before == SubSeq(data, 1, ptr)
           after  == SubSeq(data, ptr + Len(bytes) + 1, Len(data))
<1>1. before \in Seq(Nat) /\ Len(before) = ptr
  OBVIOUS
<1>2. after \in Seq(Nat)
  OBVIOUS
<1>3. before \o bytes \in Seq(Nat) /\ Len(before \o bytes) = ptr + Len(bytes)
  <2> HIDE DEF before
  <2>1. QED
    BY <1>1, ConcatProperties
<1>7. /\ (before \o bytes) \o after \in Seq(Nat)
      /\ Len((before \o bytes) \o after) = ptr + Len(bytes) + Len(after)
  <2> HIDE DEF before, after
  <2>1. QED
    BY <1>2, <1>3, ConcatProperties
<1>4. ptr = Len(data) => before = data /\ after = <<>>
  BY SubSeqFull, SubSeqEmpty
<1>5. data \o bytes \in Seq(Nat) /\ (data \o bytes) \o <<>> = data \o bytes
  BY ConcatProperties, ConcatEmptySeq
<1>6. PutAt(data, ptr, bytes) = (before \o bytes) \o after
  BY DEF PutAt
<1>8. QED
  <2> HIDE DEF before, after
  <2>1. Len(after) \in Nat
    BY <1>2
  <2>2. Len(PutAt(data, ptr, bytes)) >= ptr + Len(bytes)
    BY <1>6, <1>7, <2>1
  <2>3. CASE ptr = Len(data)
    <3>1. PutAt(data, ptr, bytes) = (data \o bytes) \o <<>>
      BY <1>4, <1>6, <2>3
    <3>2. QED
      BY <1>5, <1>6, <1>7, <2>2, <3>1
  <2>4. QED
    BY <1>6, <1>7, <2>2, <2>3

(* Where a stream is sound its parts have their types. *)
LEMMA SoundTypes ==
  ASSUME NEW p, Sound(p)
  PROVE  /\ p.stream \in StreamRecord /\ p.os \in HandleRecord /\ p = Pair(p.stream, p.os)
         /\ p.stream.buf \in Seq(Nat) /\ p.os.data \in Seq(Nat) /\ p.os.got \in Seq(Nat)
         /\ p.stream.pos \in Nat /\ p.os.ptr \in Nat /\ p.os.old \in Nat /\ p.os.written \in Nat
         /\ p.stream.writing \in BOOLEAN /\ p.os.failed \in BOOLEAN /\ p.os.ended \in BOOLEAN
         /\ p.stream.eof \in BOOLEAN
BY DEF Sound, Typed, PairRecord, StreamRecord, HandleRecord, Pair

LEMMA PairIs ==
  ASSUME NEW p \in PairRecord
  PROVE  p = Pair(p.stream, p.os) /\ p.stream \in StreamRecord /\ p.os \in HandleRecord
BY DEF PairRecord, Pair

LEMMA StreamChanged ==
  ASSUME NEW s \in StreamRecord, NEW b \in Seq(Nat), NEW n \in Nat, NEW e \in BOOLEAN
  PROVE  /\ [s EXCEPT !.buf = b] \in StreamRecord
         /\ [s EXCEPT !.pos = n] \in StreamRecord
         /\ [s EXCEPT !.eof = e] \in StreamRecord
BY DEF StreamRecord

LEMMA HandleChanged ==
  ASSUME NEW o \in HandleRecord, NEW d \in Seq(Nat), NEW n \in Nat, NEW e \in BOOLEAN
  PROVE  /\ [o EXCEPT !.data = d] \in HandleRecord
         /\ [o EXCEPT !.ptr = n] \in HandleRecord
         /\ [o EXCEPT !.got = d] \in HandleRecord
         /\ [o EXCEPT !.written = n] \in HandleRecord
         /\ [o EXCEPT !.ended = e] \in HandleRecord
         /\ [o EXCEPT !.failed = e] \in HandleRecord
         /\ [o EXCEPT !.state = "closed"] \in HandleRecord
BY DEF HandleRecord

LEMMA TakenFields ==
  ASSUME NEW p \in PairRecord, PutAt(p.os.data, p.os.ptr, p.stream.buf) \in Seq(Nat)
  PROVE  /\ Taken(p) \in PairRecord
         /\ Taken(p).stream = [p.stream EXCEPT !.buf = <<>>]
         /\ Taken(p).os = [p.os EXCEPT !.ptr = @ + Len(p.stream.buf),
                                      !.data = PutAt(@, p.os.ptr, p.stream.buf)]
<1> DEFINE s == [p.stream EXCEPT !.buf = <<>>]
           o == [p.os EXCEPT !.ptr = @ + Len(p.stream.buf),
                             !.data = PutAt(@, p.os.ptr, p.stream.buf)]
<1>0. p.stream \in StreamRecord /\ p.os \in HandleRecord /\ <<>> \in Seq(Nat)
  BY PairIs
<1>1. s \in StreamRecord
  BY <1>0, StreamChanged
<1>4. p.os.ptr + Len(p.stream.buf) \in Nat
  BY <1>0 DEF StreamRecord, HandleRecord
<1>2. o \in HandleRecord
  <2> DEFINE n == p.os.ptr + Len(p.stream.buf)
             d == PutAt(p.os.data, p.os.ptr, p.stream.buf)
             q == [p.os EXCEPT !.ptr = n]
  <2>1. q \in HandleRecord
    <3> HIDE DEF n
    <3>1. QED
      BY <1>0, <1>4, HandleChanged DEF n
  <2>3. q.data = p.os.data
    BY <1>0 DEF HandleRecord
  <2>2. o = [q EXCEPT !.data = d]
    BY <2>3
  <2>4. QED
    <3> HIDE DEF q, o, d
    <3>1. QED
      BY <2>1, <2>2, HandleChanged DEF d
<1>3. Taken(p) = [p EXCEPT !.stream = s, !.os = o]
  BY DEF Taken, PairRecord
<1>5. /\ Taken(p) \in PairRecord /\ Taken(p).stream = s /\ Taken(p).os = o
  <2> HIDE DEF s, o
  <2>1. QED
    BY <1>1, <1>2, <1>3 DEF PairRecord
<1>6. QED
  BY <1>5

LEMMA RefusedFields ==
  ASSUME NEW p \in PairRecord
  PROVE  /\ Refused(p) \in PairRecord
         /\ Refused(p).stream = [p.stream EXCEPT !.buf = <<>>]
         /\ Refused(p).os = [p.os EXCEPT !.failed = TRUE]
<1> DEFINE s == [p.stream EXCEPT !.buf = <<>>]
           o == [p.os EXCEPT !.failed = TRUE]
<1>0. p.stream \in StreamRecord /\ p.os \in HandleRecord /\ <<>> \in Seq(Nat)
  BY PairIs
<1>1. s \in StreamRecord /\ o \in HandleRecord
  BY <1>0, StreamChanged, HandleChanged
<1>3. Refused(p) = [p EXCEPT !.stream = s, !.os = o]
  BY DEF Refused, PairRecord
<1>5. /\ Refused(p) \in PairRecord /\ Refused(p).stream = s /\ Refused(p).os = o
  <2> HIDE DEF s, o
  <2>1. QED
    BY <1>1, <1>3 DEF PairRecord
<1>4. QED
  BY <1>5

(* What a call leaves of a stream: it is sound, with its handle and mode. *)
Keeps(p, q) ==
  /\ Sound(q)
  /\ q.stream.handle = p.stream.handle /\ q.stream.writing = p.stream.writing

LEMMA ConcatIs ==
  ASSUME NEW s \in Seq(Nat), NEW t \in Seq(Nat)
  PROVE  /\ s \o t \in Seq(Nat) /\ Len(s \o t) = Len(s) + Len(t)
         /\ \A i \in 1 .. Len(s) + Len(t) :
              (s \o t)[i] = IF i <= Len(s) THEN s[i] ELSE t[i - Len(s)]
BY ConcatProperties

(* The bytes that waited follow what is in the file. *)
LEMMA FileExtended ==
  ASSUME NEW data \in Seq(Nat), NEW buf \in Seq(Nat), NEW old \in Nat, NEW written \in Nat,
         NEW failed \in BOOLEAN, InOrder(data, old, written, failed, Len(buf)),
         \A k \in 1 .. Len(buf) : buf[k] = FileLength + written - Len(buf) + k
  PROVE  InOrder(data \o buf, old, written, failed, 0)
<1> DEFINE m == Len(data)
           n == Len(buf)
           all == data \o buf
<1>2. /\ Len(all) = m + n /\ all \in Seq(Nat)
      /\ \A i \in 1 .. m + n : all[i] = IF i <= m THEN data[i] ELSE buf[i - m]
  BY ConcatIs
<1>4. /\ m \in Nat /\ n \in Nat /\ FileLength \in Nat
      /\ \A i \in 1 .. m : data[i] \in Nat
  BY StreamAssumptions
<1>3. /\ \A k \in 1 .. n : buf[k] = FileLength + written - n + k
      /\ n <= written /\ old <= FileLength
      /\ \A i, j \in 1 .. m : i < j => data[i] < data[j]
      /\ \A i \in 1 .. m : data[i] <= FileLength + written - n
      /\ ~ failed =>
           /\ m = old + written - n
           /\ \A i \in 1 .. m : data[i] = IF i <= old THEN i ELSE FileLength + i - old
  BY DEF InOrder
<1> HIDE DEF m, n, all
<1>12. \A i \in 1 .. m + n : all[i] \in Nat
  BY <1>2, <1>4
<1>5. \A i \in m + 1 .. m + n : all[i] = FileLength + written - n + i - m
  <2>1. \A i \in m + 1 .. m + n : i \in 1 .. m + n /\ ~ (i <= m) /\ i - m \in 1 .. n
    BY <1>4
  <2>2. \A i \in m + 1 .. m + n : buf[i - m] = FileLength + written - n + (i - m)
    BY <1>3, <2>1
  <2>3. QED
    BY <1>2, <1>4, <2>1, <2>2
<1>6. \A i \in 1 .. m : all[i] = data[i]
  BY <1>2, <1>4
<1>7. \A i \in 1 .. m + n : i \in 1 .. m \/ i \in m + 1 .. m + n
  BY <1>4
<1>8. \A i, j \in 1 .. Len(all) : i < j => all[i] < all[j]
  <2>1. SUFFICES ASSUME NEW i \in 1 .. m + n, NEW j \in 1 .. m + n, i < j
                 PROVE  all[i] < all[j]
    BY <1>2
  <2>2. CASE i \in 1 .. m /\ j \in 1 .. m
    BY <2>1, <2>2, <1>3, <1>6
  <2>3. CASE i \in 1 .. m /\ j \in m + 1 .. m + n
    <3>1. /\ all[i] = data[i] /\ data[i] <= FileLength + written - n /\ data[i] \in Nat
      BY <2>3, <1>3, <1>4, <1>6
    <3>2. all[j] = FileLength + written - n + j - m
      BY <2>3, <1>5
    <3>3. QED
      BY <2>3, <3>1, <3>2, <1>4, <1>12
  <2>4. CASE i \in m + 1 .. m + n /\ j \in m + 1 .. m + n
    <3>1. /\ all[i] = FileLength + written - n + i - m
          /\ all[j] = FileLength + written - n + j - m
      BY <2>4, <1>5
    <3>2. QED
      BY <2>1, <3>1, <1>4, <1>12
  <2>5. QED
    BY <2>1, <2>2, <2>3, <2>4, <1>4, <1>7
<1>9. \A i \in 1 .. Len(all) : all[i] <= FileLength + written
  <2>1. SUFFICES ASSUME NEW i \in 1 .. m + n PROVE all[i] <= FileLength + written
    BY <1>2
  <2>2. CASE i \in 1 .. m
    <3>1. all[i] = data[i] /\ data[i] <= FileLength + written - n /\ data[i] \in Nat
      BY <2>2, <1>3, <1>4, <1>6
    <3>2. QED
      BY <3>1, <1>4
  <2>3. CASE i \in m + 1 .. m + n
    <3>1. all[i] = FileLength + written - n + i - m
      BY <2>3, <1>5
    <3>2. QED
      BY <3>1, <1>4
  <2>4. QED
    BY <2>2, <2>3, <1>7
<1>10. ASSUME ~ failed
       PROVE  /\ Len(all) = old + written
              /\ \A i \in 1 .. Len(all) :
                   all[i] = IF i <= old THEN i ELSE FileLength + i - old
  <2>1. m = old + written - n
    BY <1>3, <1>10
  <2>2. Len(all) = old + written
    BY <2>1, <1>2, <1>4
  <2>3. \A i \in 1 .. m : all[i] = IF i <= old THEN i ELSE FileLength + i - old
    BY <1>3, <1>6, <1>10
  <2>4. ASSUME NEW i \in m + 1 .. m + n PROVE ~ (i <= old) /\ all[i] = FileLength + i - old
    <3>1. all[i] = FileLength + written - n + i - m
      BY <1>5
    <3>2. QED
      BY <2>1, <3>1, <1>3, <1>4
  <2>5. QED
    BY <2>2, <2>3, <2>4, <1>2, <1>7
<1>11. QED
  BY <1>3, <1>4, <1>8, <1>9, <1>10 DEF InOrder, all

(* What a failed transfer loses leaves the file in order. *)
LEMMA FileAfterFailure ==
  ASSUME NEW data \in Seq(Nat), NEW n \in Nat, NEW old \in Nat, NEW written \in Nat,
         NEW failed, InOrder(data, old, written, failed, n)
  PROVE  InOrder(data, old, written, TRUE, 0)
<1>1. ASSUME NEW i \in 1 .. Len(data)
      PROVE  data[i] <= FileLength + written - 0
  <2>1. data[i] <= FileLength + written - n /\ data[i] \in Nat
    BY DEF InOrder
  <2>2. QED
    BY <2>1, StreamAssumptions
<1>2. QED
  BY <1>1 DEF InOrder

LEMMA TakenSound ==
  ASSUME NEW p, Sound(p), p.stream.writing
  PROVE  Keeps(p, Taken(p)) /\ Taken(p).stream.buf = <<>>
<1> DEFINE q == Taken(p)
<1>1. /\ p \in PairRecord /\ p.stream \in StreamRecord /\ p.os \in HandleRecord
      /\ p.os.data \in Seq(Nat) /\ p.stream.buf \in Seq(Nat) /\ p.os.ptr \in Nat
      /\ p.os.ptr <= Len(p.os.data)
  BY SoundTypes DEF Sound, Typed
<1>2. /\ PutAt(p.os.data, p.os.ptr, p.stream.buf) \in Seq(Nat)
      /\ Len(PutAt(p.os.data, p.os.ptr, p.stream.buf)) >= p.os.ptr + Len(p.stream.buf)
      /\ p.os.ptr = Len(p.os.data) =>
           PutAt(p.os.data, p.os.ptr, p.stream.buf) = p.os.data \o p.stream.buf
  BY <1>1, PutAtProperties
<1>3. /\ q \in PairRecord
      /\ q.stream = [p.stream EXCEPT !.buf = <<>>]
      /\ q.os = [p.os EXCEPT !.ptr = @ + Len(p.stream.buf),
                             !.data = PutAt(@, p.os.ptr, p.stream.buf)]
  BY <1>1, <1>2, TakenFields
<1> HIDE DEF q
<1>4. /\ q.stream.buf = <<>> /\ q.stream.pos = p.stream.pos
      /\ q.stream.handle = p.stream.handle /\ q.stream.writing = p.stream.writing
  BY <1>1, <1>3 DEF StreamRecord
<1>5. /\ q.os.ptr = p.os.ptr + Len(p.stream.buf)
      /\ q.os.data = PutAt(p.os.data, p.os.ptr, p.stream.buf)
      /\ q.os.written = p.os.written /\ q.os.old = p.os.old /\ q.os.failed = p.os.failed
      /\ q.os.got = p.os.got /\ q.os.ended = p.os.ended /\ q.os.state = p.os.state
  BY <1>1, <1>3 DEF HandleRecord
<1>6. Typed(q)
  BY <1>1, <1>2, <1>3, <1>4, <1>5, StreamAssumptions DEF Typed, Sound, Writes
<1>7. GotInOrder(q.os)
  BY <1>5 DEF Sound, GotInOrder
<1>8. ASSUME ~ ArgsFails
      PROVE  q.os.ptr = Len(q.os.data) /\ InFile(q.os, 0)
  <2>1. p.os.ptr = Len(p.os.data)
    BY <1>8 DEF Sound, Writes
  <2>2. q.os.data = p.os.data \o p.stream.buf
    BY <1>2, <1>5, <2>1
  <2>3. q.os.ptr = Len(q.os.data)
    <3>1. p.os.ptr + Len(p.stream.buf) = Len(p.os.data \o p.stream.buf)
      BY <1>1, <2>1, ConcatIs
    <3>2. QED
      BY <1>5, <2>2, <3>1
  <2>4. /\ InFile(p.os, Len(p.stream.buf))
        /\ \A k \in 1 .. Len(p.stream.buf) :
             p.stream.buf[k] = FileLength + p.os.written - Len(p.stream.buf) + k
    BY <1>8 DEF Sound, Writes
  <2>6. p.os.written \in Nat /\ p.os.old \in Nat /\ p.os.failed \in BOOLEAN
    BY SoundTypes
  <2>7. InOrder(p.os.data \o p.stream.buf, p.os.old, p.os.written, p.os.failed, 0)
    BY <1>1, <2>4, <2>6, FileExtended DEF InFile
  <2>8. QED
    BY <1>5, <2>2, <2>3, <2>7 DEF InFile
<1>9. Writes(q)
  BY <1>4, <1>5, <1>8 DEF Writes, Sound
<1>10. QED
  BY <1>4, <1>5, <1>6, <1>7, <1>9 DEF Sound, Keeps, q

LEMMA RefusedSound ==
  ASSUME NEW p, Sound(p), p.stream.writing
  PROVE  Keeps(p, Refused(p)) /\ Refused(p).stream.buf = <<>>
<1> DEFINE q == Refused(p)
<1>1. /\ p \in PairRecord /\ p.stream \in StreamRecord /\ p.os \in HandleRecord
      /\ p.os.data \in Seq(Nat) /\ p.stream.buf \in Seq(Nat) /\ p.os.written \in Nat
  BY SoundTypes DEF Sound, Typed
<1>3. /\ q \in PairRecord
      /\ q.stream = [p.stream EXCEPT !.buf = <<>>]
      /\ q.os = [p.os EXCEPT !.failed = TRUE]
  BY <1>1, RefusedFields
<1> HIDE DEF q
<1>4. /\ q.stream.buf = <<>> /\ q.stream.pos = p.stream.pos
      /\ q.stream.handle = p.stream.handle /\ q.stream.writing = p.stream.writing
  BY <1>1, <1>3 DEF StreamRecord
<1>5. /\ q.os.ptr = p.os.ptr /\ q.os.data = p.os.data
      /\ q.os.written = p.os.written /\ q.os.old = p.os.old /\ q.os.failed
      /\ q.os.got = p.os.got /\ q.os.ended = p.os.ended /\ q.os.state = p.os.state
  BY <1>1, <1>3 DEF HandleRecord
<1>6. Typed(q)
  BY <1>3, <1>4, <1>5, StreamAssumptions DEF Typed, Sound, Writes
<1>7. GotInOrder(q.os)
  BY <1>5 DEF Sound, GotInOrder
<1>8. ASSUME ~ ArgsFails
      PROVE  q.os.ptr = Len(q.os.data) /\ InFile(q.os, 0)
  <2>1. p.os.ptr = Len(p.os.data) /\ InFile(p.os, Len(p.stream.buf))
    BY <1>8 DEF Sound, Writes
  <2>2. \A i \in 1 .. Len(p.os.data) : p.os.data[i] \in Nat
    BY <1>1
  <2>3. Len(p.stream.buf) \in Nat /\ FileLength \in Nat
    BY <1>1, StreamAssumptions
  <2>4. InOrder(p.os.data, p.os.old, p.os.written, TRUE, 0)
    <3>1. p.os.old \in Nat
      BY SoundTypes
    <3>2. QED
      BY <1>1, <2>1, <2>3, <3>1, FileAfterFailure DEF InFile
  <2>5. QED
    BY <1>5, <2>1, <2>4 DEF InFile, InOrder
<1>9. Writes(q)
  BY <1>4, <1>5, <1>8 DEF Writes, Sound
<1>10. QED
  BY <1>4, <1>5, <1>6, <1>7, <1>9 DEF Sound, Keeps, q

LEMMA FlushSound ==
  ASSUME NEW p, Sound(p), NEW ok
  PROVE  /\ Keeps(p, flush(p, ok))
         /\ p.stream.writing => flush(p, ok).stream.buf = <<>>
<1>1. CASE ~ p.stream.writing \/ p.stream.buf = <<>>
  BY <1>1 DEF flush, Keeps
<1>2. CASE p.stream.writing /\ p.stream.buf # <<>>
  <2>1. flush(p, ok) = IF ok THEN Taken(p) ELSE Refused(p)
    BY <1>2 DEF flush
  <2>2. QED
    BY <1>2, <2>1, TakenSound, RefusedSound
<1>3. QED
  BY <1>1, <1>2

(* A writer after n more bytes were put in its buffer. *)
Buffered(q, n) == [q EXCEPT !.stream.buf = @ \o NextBytes(q, n), !.os.written = @ + n]

LEMMA BufferedSound ==
  ASSUME NEW p, Sound(p), p.stream.writing, NEW n \in Nat, Len(p.stream.buf) + n <= BUF
  PROVE  Keeps(p, Buffered(p, n))
<1> DEFINE q == Buffered(p, n)
           more == NextBytes(p, n)
           s == [p.stream EXCEPT !.buf = @ \o more]
           o == [p.os EXCEPT !.written = @ + n]
<1>1. /\ p \in PairRecord /\ p.stream \in StreamRecord /\ p.os \in HandleRecord
      /\ p.os.data \in Seq(Nat) /\ p.stream.buf \in Seq(Nat) /\ p.os.written \in Nat
  BY SoundTypes DEF Sound, Typed
<1>2. /\ more \in Seq(Nat) /\ Len(more) = n
      /\ \A i \in 1 .. n : more[i] = FileLength + p.os.written + i
  BY <1>1, StreamAssumptions DEF NextBytes
<1> HIDE DEF more
<1>3. /\ p.stream.buf \o more \in Seq(Nat)
      /\ Len(p.stream.buf \o more) = Len(p.stream.buf) + n
      /\ \A i \in 1 .. Len(p.stream.buf) + n :
           (p.stream.buf \o more)[i] = IF i <= Len(p.stream.buf) THEN p.stream.buf[i]
                                       ELSE more[i - Len(p.stream.buf)]
  BY <1>1, <1>2, ConcatIs
<1>4. s \in StreamRecord /\ o \in HandleRecord
  <2>1. p.os.written + n \in Nat
    BY <1>1
  <2>2. QED
    BY <1>1, <1>3, <2>1, StreamChanged, HandleChanged
<1>5. q = [p EXCEPT !.stream = s, !.os = o]
  BY <1>1 DEF Buffered, PairRecord, more
<1>6. q \in PairRecord /\ q.stream = s /\ q.os = o
  <2> HIDE DEF s, o, q
  <2>1. QED
    BY <1>1, <1>4, <1>5 DEF PairRecord
<1> HIDE DEF q
<1>7. /\ q.stream.buf = p.stream.buf \o more /\ q.stream.pos = p.stream.pos
      /\ q.stream.handle = p.stream.handle /\ q.stream.writing = p.stream.writing
  BY <1>1, <1>6 DEF StreamRecord
<1>8. /\ q.os.ptr = p.os.ptr /\ q.os.data = p.os.data
      /\ q.os.written = p.os.written + n /\ q.os.old = p.os.old /\ q.os.failed = p.os.failed
      /\ q.os.got = p.os.got /\ q.os.ended = p.os.ended /\ q.os.state = p.os.state
  BY <1>1, <1>6 DEF HandleRecord
<1>9. Typed(q)
  BY <1>3, <1>6, <1>7, <1>8, StreamAssumptions DEF Typed, Sound, Writes
<1>10. GotInOrder(q.os)
  BY <1>8 DEF Sound, GotInOrder
<1>11. ASSUME ~ ArgsFails
       PROVE  /\ q.os.ptr = Len(q.os.data)
              /\ \A k \in 1 .. Len(q.stream.buf) :
                   q.stream.buf[k] = FileLength + q.os.written - Len(q.stream.buf) + k
              /\ InFile(q.os, Len(q.stream.buf))
  <2> DEFINE b == Len(p.stream.buf)
             w == p.os.written
  <2>1. /\ p.os.ptr = Len(p.os.data) /\ InFile(p.os, b)
        /\ \A k \in 1 .. b : p.stream.buf[k] = FileLength + w - b + k
    BY <1>11 DEF Sound, Writes
  <2>2. b \in Nat /\ w \in Nat /\ FileLength \in Nat
    BY <1>1, StreamAssumptions
  <2>3. /\ Len(q.stream.buf) = b + n
        /\ \A k \in 1 .. b + n :
             q.stream.buf[k] = IF k <= b THEN p.stream.buf[k] ELSE more[k - b]
    BY <1>3, <1>7
  <2>4. FileLength + (w + n) - (b + n) = FileLength + w - b
    BY <2>2
  <2>5. ASSUME NEW k \in 1 .. b + n
        PROVE  q.stream.buf[k] = FileLength + (w + n) - (b + n) + k
    <3> HIDE DEF b, w
    <3>1. CASE k <= b
      BY <2>1, <2>2, <2>3, <3>1
    <3>2. CASE ~ (k <= b)
      <4>1. k - b \in 1 .. n
        BY <2>2, <3>2
      <4>2. more[k - b] = FileLength + w + (k - b)
        BY <4>1, <1>2 DEF w
      <4>3. q.stream.buf[k] = more[k - b]
        BY <2>3, <3>2
      <4>4. FileLength + w + (k - b) = FileLength + (w + n) - (b + n) + k
        BY <2>2
      <4>5. QED
        BY <4>2, <4>3, <4>4
    <3>3. QED
      BY <3>1, <3>2
  <2>6. InOrder(p.os.data, p.os.old, w + n, p.os.failed, b + n)
    <3>1. InOrder(p.os.data, p.os.old, w, p.os.failed, b)
      BY <2>1 DEF InFile
    <3>2. p.os.old \in Nat
      BY SoundTypes
    <3>3. b + n <= w + n
      BY <2>2, <3>1 DEF InOrder
    <3>4. p.os.old + (w + n) - (b + n) = p.os.old + w - b
      BY <2>2, <3>2
    <3> HIDE DEF b, w
    <3>5. QED
      BY <2>4, <3>1, <3>3, <3>4 DEF InOrder
  <2>7. QED
    BY <1>8, <2>1, <2>3, <2>5, <2>6 DEF InFile
<1>12. Writes(q)
  BY <1>7, <1>8, <1>11 DEF Writes, Sound
<1>13. QED
  BY <1>7, <1>8, <1>9, <1>10, <1>12 DEF Sound, Keeps, q

LEMMA WriteChunkSound ==
  ASSUME NEW p, Sound(p), p.stream.writing, NEW n \in 1 .. BUF, NEW q \in WriteChunk(p, n)
  PROVE  Keeps(p, q)
<1>1. Len(p.stream.buf) \in Nat /\ n \in Nat /\ BUF \in Nat
  BY SoundTypes, StreamAssumptions
<1>2. CASE Len(p.stream.buf) + n > BUF
  <2>1. PICK ok \in Gbpb : q = Buffered(flush(p, ok), n)
    BY <1>2 DEF WriteChunk, Buffered
  <2>2. /\ Keeps(p, flush(p, ok)) /\ flush(p, ok).stream.buf = <<>>
    BY FlushSound
  <2>3. Len(flush(p, ok).stream.buf) + n <= BUF
    BY <2>2, <1>1
  <2>4. Keeps(flush(p, ok), q)
    BY <1>1, <2>1, <2>2, <2>3, BufferedSound DEF Keeps
  <2>5. QED
    BY <2>2, <2>4 DEF Keeps
<1>3. CASE ~ (Len(p.stream.buf) + n > BUF)
  <2>1. q = Buffered(p, n)
    BY <1>3 DEF WriteChunk, Buffered
  <2>2. QED
    BY <1>1, <1>3, <2>1, BufferedSound
<1>4. QED
  BY <1>2, <1>3

(* What each chunk leaves in T all of them do: the recursion over whole     *)
(* chunks has a value, and by induction it stays in T.                      *)
LEMMA WholeChunksIn ==
  ASSUME NEW T, NEW p \in T, \A q \in T : WriteChunk(q, BUF) \subseteq T
  PROVE  \A m \in Nat : WholeChunks(p, m) \subseteq T
<1> DEFINE V == SUBSET T
           D == Nat
           rank == [k \in Nat |-> k]
           F == [x \in Nat \X [Nat -> V] |->
                   IF x[1] = 0 THEN {p}
                   ELSE UNION {WriteChunk(q, BUF) : q \in x[2][x[1] - 1]}]
           A == CHOOSE a : a = [k \in Nat |->
                  IF k = 0 THEN {p} ELSE UNION {WriteChunk(q, BUF) : q \in a[k - 1]}]
<1>1. \A k \in D, g \in [D -> V] : F[<<k, g>>] \in V
  <2>1. ASSUME NEW k \in Nat, NEW g \in [Nat -> V]
        PROVE  (IF k = 0 THEN {p} ELSE UNION {WriteChunk(q, BUF) : q \in g[k - 1]}) \in V
    OBVIOUS
  <2>2. QED
    BY <2>1
<1>2. LowerRanksDecide(D, V, rank, F)
  <2>1. SUFFICES ASSUME NEW k \in Nat, NEW g \in [Nat -> V], NEW h \in [Nat -> V],
                        \A y \in Nat : rank[y] < rank[k] => g[y] = h[y]
                 PROVE  F[<<k, g>>] = F[<<k, h>>]
    BY DEF LowerRanksDecide
  <2>2. CASE k = 0
    BY <2>2
  <2>3. CASE k # 0
    <3>1. g[k - 1] = h[k - 1]
      BY <2>1, <2>3
    <3>2. QED
      BY <2>3, <3>1
  <2>4. QED
    BY <2>2, <2>3
<1>3. rank \in [D -> Nat] /\ V # {}
  OBVIOUS
<1>4. PICK f \in [Nat -> V] : \A k \in Nat : f[k] = F[<<k, f>>]
  <2>1. Recursive(D, V, rank, F)
    BY <1>1, <1>2, <1>3 DEF Recursive
  <2>2. Defined(D, V, F)
    BY <2>1, RecursionDefines
  <2>3. QED
    BY <2>2 DEF Defined
<1>5. f = [k \in Nat |->
             IF k = 0 THEN {p} ELSE UNION {WriteChunk(q, BUF) : q \in f[k - 1]}]
  BY <1>4
<1>6. A = [k \in Nat |->
             IF k = 0 THEN {p} ELSE UNION {WriteChunk(q, BUF) : q \in A[k - 1]}]
  BY <1>5
<1>10. /\ A[0] = {p}
       /\ \A k \in Nat : k # 0 => A[k] = UNION {WriteChunk(q, BUF) : q \in A[k - 1]}
  <2> HIDE DEF A
  <2>1. QED
    BY <1>6
<1>7. \A m \in Nat : WholeChunks(p, m) = A[m]
  BY DEF WholeChunks
<1> HIDE DEF A
<1>8. \A k \in Nat : A[k] \subseteq T
  <2> DEFINE S == {k \in Nat : A[k] \subseteq T}
  <2>1. 0 \in S
    BY <1>10
  <2>2. ASSUME NEW k \in Nat, k \in S PROVE k + 1 \in S
    <3>1. A[k + 1] = UNION {WriteChunk(q, BUF) : q \in A[k]}
      <4>1. k + 1 \in Nat /\ k + 1 # 0 /\ (k + 1) - 1 = k
        OBVIOUS
      <4>2. QED
        BY <1>10, <4>1
    <3>2. QED
      BY <2>2, <3>1
  <2> HIDE DEF S
  <2>3. \A k \in Nat : k \in S
    BY <2>1, <2>2, NatInductiveSet
  <2>4. QED
    BY <2>3 DEF S
<1>9. QED
  BY <1>7, <1>8

(* b.chunks(BUF): each chunk fits the buffer. *)
LEMMA WriteSound ==
  ASSUME NEW p, Sound(p), p.stream.writing, NEW n \in Nat, NEW q \in write(p, n)
  PROVE  Keeps(p, q)
<1> DEFINE T == {r \in PairRecord : Keeps(p, r)}
<1>1. BUF \in Nat \ {0} /\ n \div BUF \in Nat /\ n % BUF \in 0 .. BUF - 1
  BY StreamAssumptions
<1>2. \A r \in T, k \in 1 .. BUF : WriteChunk(r, k) \subseteq T
  <2>1. SUFFICES ASSUME NEW r \in T, NEW k \in 1 .. BUF, NEW t \in WriteChunk(r, k)
                 PROVE  t \in T
    OBVIOUS
  <2>2. Keeps(r, t)
    BY <2>1, WriteChunkSound DEF Keeps
  <2>3. QED
    BY <2>2 DEF Keeps, Sound, Typed
<1>3. p \in T
  BY DEF Keeps, Sound, Typed
<1>4. WholeChunks(p, n \div BUF) \subseteq T
  <2>1. BUF \in 1 .. BUF
    BY <1>1
  <2> HIDE DEF T
  <2>2. QED
    BY <1>1, <1>2, <1>3, <2>1, WholeChunksIn
<1>5. q \in T
  <2>1. CASE n % BUF = 0
    BY <1>4, <2>1 DEF write
  <2>2. CASE n % BUF # 0
    <3>1. n % BUF \in 1 .. BUF
      BY <1>1, <2>2
    <3> HIDE DEF T
    <3>2. QED
      BY <1>2, <1>4, <2>2, <3>1 DEF write
  <2>3. QED
    BY <2>1, <2>2
<1>6. QED
  BY <1>5

(* A reader's next byte is the next of the file. *)
LEMMA TakeByteSound ==
  ASSUME NEW p, Sound(p), ~ p.stream.writing, p.stream.pos < Len(p.stream.buf)
  PROVE  Keeps(p, TakeByte(p))
<1> DEFINE q == TakeByte(p)
           next == p.stream.buf[p.stream.pos + 1]
           s == [p.stream EXCEPT !.pos = @ + 1]
           o == [p.os EXCEPT !.got = Append(@, next)]
<1>1. /\ p \in PairRecord /\ p.stream \in StreamRecord /\ p.os \in HandleRecord
      /\ p.os.got \in Seq(Nat) /\ p.stream.buf \in Seq(Nat) /\ p.stream.pos \in Nat
      /\ p.os.ptr \in Nat
  BY SoundTypes DEF Sound, Typed
<1>2. Reads(p) /\ p.stream.pos + 1 \in 1 .. Len(p.stream.buf)
  BY <1>1 DEF Sound
<1>3. /\ next = p.os.ptr - Len(p.stream.buf) + (p.stream.pos + 1)
      /\ Len(p.os.got) = p.os.ptr - Len(p.stream.buf) + p.stream.pos
      /\ next \in Nat /\ next = Len(p.os.got) + 1
  <2>1. next = p.os.ptr - Len(p.stream.buf) + (p.stream.pos + 1)
    BY <1>2 DEF Reads
  <2>2. Len(p.os.got) = p.os.ptr - Len(p.stream.buf) + p.stream.pos
    BY <1>2 DEF Reads
  <2>3. next \in Nat
    BY <1>1, <1>2
  <2>4. Len(p.stream.buf) \in Nat /\ Len(p.os.got) \in Nat
    BY <1>1
  <2> DEFINE b == Len(p.stream.buf)
             g == Len(p.os.got)
             x == p.os.ptr
             y == p.stream.pos
  <2>5. next = x - b + (y + 1) /\ g = x - b + y /\ b \in Nat /\ g \in Nat /\ x \in Nat /\ y \in Nat
    BY <1>1, <2>1, <2>2, <2>4
  <2>6. next = g + 1
    <3> HIDE DEF next, b, g, x, y
    <3>1. QED
      BY <2>5
  <2>7. QED
    BY <2>1, <2>2, <2>3, <2>6
<1> HIDE DEF next
<1>4. /\ Append(p.os.got, next) \in Seq(Nat)
      /\ Len(Append(p.os.got, next)) = Len(p.os.got) + 1
      /\ \A i \in 1 .. Len(p.os.got) : Append(p.os.got, next)[i] = p.os.got[i]
      /\ Append(p.os.got, next)[Len(p.os.got) + 1] = next
  BY <1>1, <1>3, AppendProperties
<1>5. s \in StreamRecord /\ o \in HandleRecord
  <2>1. p.stream.pos + 1 \in Nat
    BY <1>1
  <2>2. QED
    BY <1>1, <1>4, <2>1, StreamChanged, HandleChanged
<1>6. q = [p EXCEPT !.stream = s, !.os = o]
  BY <1>1 DEF TakeByte, PairRecord, next
<1>7. q \in PairRecord /\ q.stream = s /\ q.os = o
  <2> HIDE DEF s, o, q
  <2>1. QED
    BY <1>1, <1>5, <1>6 DEF PairRecord
<1> HIDE DEF q
<1>8. /\ q.stream.buf = p.stream.buf /\ q.stream.pos = p.stream.pos + 1
      /\ q.stream.handle = p.stream.handle /\ q.stream.writing = p.stream.writing
      /\ q.stream.eof = p.stream.eof
  BY <1>1, <1>7 DEF StreamRecord
<1>9. /\ q.os.ptr = p.os.ptr /\ q.os.data = p.os.data
      /\ q.os.written = p.os.written /\ q.os.failed = p.os.failed
      /\ q.os.got = Append(p.os.got, next) /\ q.os.ended = p.os.ended /\ q.os.state = p.os.state
  BY <1>1, <1>7 DEF HandleRecord
<1>10. Typed(q)
  BY <1>1, <1>2, <1>7, <1>8, <1>9 DEF Typed, Sound
<1>11. Reads(q)
  <2>1. Len(q.os.got) = q.os.ptr - Len(q.stream.buf) + q.stream.pos
    BY <1>1, <1>3, <1>4, <1>8, <1>9
  <2>2. QED
    BY <1>2, <1>8, <1>9, <2>1 DEF Reads
<1>12. ~ p.os.ended \/ p.os.failed
  <2>1. ASSUME p.os.ended, ~ p.os.failed PROVE FALSE
    <3>1. Len(p.os.got) = FileLength
      BY <2>1 DEF Sound, GotInOrder
    <3>2. p.os.ptr <= FileLength
      BY <1>2, OldDataIs DEF Sound, Typed, Reads
    <3>3. Len(p.stream.buf) \in Nat /\ FileLength \in Nat
      BY <1>1, StreamAssumptions
    <3>4. Len(p.os.got) = p.os.ptr - Len(p.stream.buf) + p.stream.pos
      BY <1>3
    <3>5. QED
      BY <1>1, <3>1, <3>2, <3>3, <3>4
  <2>2. QED
    BY <2>1
<1>13. GotInOrder(q.os)
  <2>1. \A i \in 1 .. Len(p.os.got) : p.os.got[i] = i
    BY DEF Sound, GotInOrder
  <2>2. Len(p.os.got) \in Nat
    BY <1>1
  <2>3. \A i \in 1 .. Len(q.os.got) : i \in 1 .. Len(p.os.got) \/ i = Len(p.os.got) + 1
    BY <1>4, <1>9, <2>2
  <2>4. \A i \in 1 .. Len(q.os.got) : q.os.got[i] = i
    BY <1>3, <1>4, <1>9, <2>1, <2>3
  <2>5. q.os.ended => q.os.failed
    BY <1>9, <1>12
  <2>6. QED
    BY <2>4, <2>5 DEF GotInOrder
<1>14. QED
  BY <1>8, <1>9, <1>10, <1>11, <1>13 DEF Sound, Keeps, q

(* -1 is given when the file was read to its end or a transfer failed.      *)
LEMMA EndSeenSound ==
  ASSUME NEW p, Sound(p), ~ p.stream.writing, p.os.failed \/ Len(p.os.got) = FileLength
  PROVE  Keeps(p, EndSeen(p))
<1> DEFINE q == EndSeen(p)
           o == [p.os EXCEPT !.ended = TRUE]
<1>1. /\ p \in PairRecord /\ p.stream \in StreamRecord /\ p.os \in HandleRecord
      /\ p.os.got \in Seq(Nat) /\ p.os.ptr \in Nat
  BY SoundTypes DEF Sound, Typed
<1>2. o \in HandleRecord
  BY <1>1, HandleChanged
<1>3. q = [p EXCEPT !.os = o]
  BY <1>1 DEF EndSeen, PairRecord
<1>4. q \in PairRecord /\ q.stream = p.stream /\ q.os = o
  <2> HIDE DEF o, q
  <2>1. QED
    BY <1>1, <1>2, <1>3 DEF PairRecord
<1> HIDE DEF q
<1>5. /\ q.os.ptr = p.os.ptr /\ q.os.data = p.os.data
      /\ q.os.written = p.os.written /\ q.os.failed = p.os.failed
      /\ q.os.got = p.os.got /\ q.os.state = p.os.state
  BY <1>1, <1>4 DEF HandleRecord
<1>6. Typed(q) /\ Reads(q) /\ GotInOrder(q.os)
  BY <1>4, <1>5 DEF Sound, Typed, Reads, GotInOrder
<1>7. QED
  BY <1>4, <1>5, <1>6 DEF Sound, Keeps, q

LEMMA FilePart ==
  ASSUME NEW x \in Nat, NEW n \in Nat, x + n <= FileLength
  PROVE  /\ SubSeq(OldData, x + 1, x + n) \in Seq(Nat)
         /\ Len(SubSeq(OldData, x + 1, x + n)) = n
         /\ \A k \in 1 .. n : SubSeq(OldData, x + 1, x + n)[k] = x + k
<1>1. /\ x + 1 \in Int /\ x + n \in Int /\ (x + n) - (x + 1) + 1 = n
      /\ (x + 1 <= x + n \/ n = 0) /\ FileLength \in Nat
  BY StreamAssumptions
<1>2. \A i \in x + 1 .. x + n : OldData[i] = i /\ i \in Nat
  BY <1>1, OldDataIs
<1>3. \A k \in 1 .. n : (x + 1) + k - 1 \in x + 1 .. x + n /\ (x + 1) + k - 1 = x + k
  BY <1>1
<1> DEFINE b == SubSeq(OldData, x + 1, x + n)
<1>4. /\ b \in Seq(Nat) /\ Len(b) = IF x + 1 <= x + n THEN (x + n) - (x + 1) + 1 ELSE 0
      /\ \A k \in 1 .. (x + n) - (x + 1) + 1 : b[k] = OldData[(x + 1) + k - 1]
  BY <1>1, <1>2, SubSeqProperties
<1> HIDE DEF b
<1>5. Len(b) = n
  BY <1>1, <1>4
<1>6. \A k \in 1 .. n : b[k] = x + k
  BY <1>1, <1>2, <1>3, <1>4
<1>7. QED
  BY <1>4, <1>5, <1>6 DEF b

LEMMA FilledSound ==
  ASSUME NEW p, Sound(p), ~ p.stream.writing, p.stream.pos = Len(p.stream.buf)
  PROVE  /\ Keeps(p, Filled(p)) /\ Filled(p).stream.pos = 0
         /\ Filled(p).stream.buf = <<>> => Len(Filled(p).os.got) = FileLength
<1> DEFINE q == Filled(p)
           left == FileLength - p.os.ptr
           n == IF left < BUF THEN left ELSE BUF
           b == SubSeq(p.os.data, p.os.ptr + 1, p.os.ptr + n)
           s == [p.stream EXCEPT !.buf = b, !.pos = 0, !.eof = n < BUF]
           o == [p.os EXCEPT !.ptr = @ + n]
<1>1. /\ p \in PairRecord /\ p.stream \in StreamRecord /\ p.os \in HandleRecord
      /\ p.os.got \in Seq(Nat) /\ p.stream.buf \in Seq(Nat) /\ p.stream.pos \in Nat
      /\ p.os.ptr \in Nat /\ Reads(p) /\ FileLength \in Nat /\ BUF \in Nat \ {0}
  BY SoundTypes, StreamAssumptions DEF Sound, Typed
<1>2. /\ p.os.data = OldData /\ Len(p.os.data) = FileLength /\ p.os.data \in Seq(Nat)
      /\ \A i \in 1 .. FileLength : p.os.data[i] = i
      /\ p.os.ptr <= FileLength /\ Len(p.os.got) = p.os.ptr
  <2>1. p.os.data = OldData /\ p.os.ptr <= Len(p.os.data)
    BY <1>1 DEF Sound, Typed, Reads
  <2>2. Len(p.os.got) = p.os.ptr - Len(p.stream.buf) + Len(p.stream.buf)
    BY <1>1 DEF Reads
  <2>3. Len(p.stream.buf) \in Nat
    BY <1>1
  <2>4. QED
    BY <1>1, <2>1, <2>2, <2>3, OldDataIs
<1>3. n \in Nat /\ n <= BUF /\ p.os.ptr + n <= FileLength /\ (n < BUF => p.os.ptr + n = FileLength)
  BY <1>1, <1>2
<1> HIDE DEF n
<1>4. /\ b \in Seq(Nat) /\ Len(b) = n
      /\ \A k \in 1 .. n : b[k] = p.os.ptr + k
  <2> DEFINE x == p.os.ptr
  <2>1. x \in Nat /\ n \in Nat /\ x + n <= FileLength /\ b = SubSeq(OldData, x + 1, x + n)
    BY <1>1, <1>2, <1>3
  <2> HIDE DEF left, b, x
  <2>2. b \in Seq(Nat) /\ Len(b) = n /\ \A k \in 1 .. n : b[k] = x + k
    BY <2>1, FilePart
  <2>3. QED
    BY <2>2 DEF x
<1> HIDE DEF b
<1>5. s \in StreamRecord /\ o \in HandleRecord
  <2>1. p.os.ptr + n \in Nat /\ (n < BUF) \in BOOLEAN
    BY <1>1, <1>3
  <2>2. s \in StreamRecord
    BY <1>1, <1>4, <2>1 DEF StreamRecord
  <2>3. QED
    BY <1>1, <2>1, <2>2, HandleChanged
<1>6. q = [p EXCEPT !.stream = s, !.os = o]
  BY <1>1 DEF Filled, PairRecord, StreamRecord, b, n
<1>7. q \in PairRecord /\ q.stream = s /\ q.os = o
  <2> HIDE DEF s, o, q
  <2>1. QED
    BY <1>1, <1>5, <1>6 DEF PairRecord
<1> HIDE DEF q
<1>8. /\ q.stream.buf = b /\ q.stream.pos = 0 /\ q.stream.eof = (n < BUF)
      /\ q.stream.handle = p.stream.handle /\ q.stream.writing = p.stream.writing
  BY <1>1, <1>7 DEF StreamRecord
<1>9. /\ q.os.ptr = p.os.ptr + n /\ q.os.data = p.os.data
      /\ q.os.written = p.os.written /\ q.os.failed = p.os.failed
      /\ q.os.got = p.os.got /\ q.os.ended = p.os.ended /\ q.os.state = p.os.state
  BY <1>1, <1>7 DEF HandleRecord
<1>10. Typed(q)
  BY <1>1, <1>2, <1>3, <1>4, <1>7, <1>8, <1>9 DEF Typed
<1>11. Reads(q)
  <2>1. Len(q.stream.buf) = n /\ q.os.ptr - n = p.os.ptr /\ n <= q.os.ptr
    BY <1>1, <1>3, <1>4, <1>8, <1>9
  <2>2. q.os.data = OldData /\ q.os.written = 0
    BY <1>1, <1>9 DEF Reads
  <2>3. \A k \in 1 .. n : q.stream.buf[k] = q.os.ptr - n + k
    BY <1>4, <1>8, <2>1
  <2>4. Len(q.os.got) = q.os.ptr - n + q.stream.pos
    BY <1>1, <1>2, <1>8, <1>9, <2>1
  <2>5. q.stream.eof => q.os.ptr = FileLength
    BY <1>3, <1>8, <1>9
  <2>6. QED
    BY <2>1, <2>2, <2>3, <2>4, <2>5 DEF Reads
<1>12. GotInOrder(q.os)
  BY <1>9 DEF Sound, GotInOrder
<1>13. b = <<>> => Len(q.os.got) = FileLength
  BY <1>1, <1>2, <1>3, <1>4, <1>9
<1>14. QED
  BY <1>8, <1>9, <1>10, <1>11, <1>12, <1>13 DEF Sound, Keeps, q

LEMMA FailedSound ==
  ASSUME NEW p, Sound(p), ~ p.stream.writing
  PROVE  Keeps(p, Failed(p))
<1> DEFINE s == [p.stream EXCEPT !.eof = TRUE]
           o == [p.os EXCEPT !.failed = TRUE]
           r == [p EXCEPT !.stream.eof = TRUE, !.os.failed = TRUE]
<1>1. /\ p \in PairRecord /\ p.stream \in StreamRecord /\ p.os \in HandleRecord
      /\ p.os.got \in Seq(Nat) /\ p.os.ptr \in Nat
  BY SoundTypes DEF Sound, Typed
<1>2. s \in StreamRecord /\ o \in HandleRecord
  BY <1>1, StreamChanged, HandleChanged
<1>3. r = [p EXCEPT !.stream = s, !.os = o]
  BY <1>1 DEF PairRecord
<1>4. r \in PairRecord /\ r.stream = s /\ r.os = o
  <2> HIDE DEF s, o, r
  <2>1. QED
    BY <1>1, <1>2, <1>3 DEF PairRecord
<1>5. Failed(p) = EndSeen(r)
  BY DEF Failed
<1> HIDE DEF r
<1>6. /\ r.stream.buf = p.stream.buf /\ r.stream.pos = p.stream.pos
      /\ r.stream.handle = p.stream.handle /\ r.stream.writing = p.stream.writing
  BY <1>1, <1>4 DEF StreamRecord
<1>7. /\ r.os.ptr = p.os.ptr /\ r.os.data = p.os.data
      /\ r.os.written = p.os.written /\ r.os.failed
      /\ r.os.got = p.os.got /\ r.os.ended = p.os.ended /\ r.os.state = p.os.state
  BY <1>1, <1>4 DEF HandleRecord
<1>8. Typed(r) /\ Reads(r) /\ GotInOrder(r.os)
  BY <1>4, <1>6, <1>7 DEF Sound, Typed, Reads, GotInOrder
<1>9. Keeps(p, r)
  BY <1>6, <1>7, <1>8 DEF Keeps, Sound
<1>10. Keeps(r, EndSeen(r))
  BY <1>6, <1>7, <1>9, EndSeenSound DEF Keeps
<1>11. QED
  BY <1>5, <1>9, <1>10 DEF Keeps

LEMMA ReadSound ==
  ASSUME NEW p, Sound(p), NEW q \in read_byte(p)
  PROVE  Keeps(p, q)
<1>1. CASE p.stream.writing
  BY <1>1 DEF read_byte, Keeps
<1>2. CASE ~ p.stream.writing /\ p.stream.pos < Len(p.stream.buf)
  BY <1>2, TakeByteSound DEF read_byte
<1>3. CASE ~ p.stream.writing /\ ~ (p.stream.pos < Len(p.stream.buf))
  <2>1. p.stream.pos = Len(p.stream.buf)
    <3>1. p.stream.pos \in Nat /\ Len(p.stream.buf) \in Nat /\ p.stream.pos <= Len(p.stream.buf)
      BY SoundTypes DEF Sound, Typed
    <3>2. QED
      BY <3>1, <1>3
  <2>2. CASE p.stream.eof
    <3>1. q = EndSeen(p)
      BY <1>3, <2>2 DEF read_byte
    <3>2. p.os.failed \/ Len(p.os.got) = FileLength
      <4>1. p.os.failed \/ p.os.ptr = FileLength
        BY <1>3, <2>2 DEF Sound, Reads
      <4>2. Len(p.os.got) = p.os.ptr - Len(p.stream.buf) + p.stream.pos
        BY <1>3 DEF Sound, Reads
      <4>3. p.os.ptr \in Nat /\ Len(p.stream.buf) \in Nat
        BY SoundTypes
      <4>4. QED
        BY <2>1, <4>1, <4>2, <4>3
    <3>3. QED
      BY <1>3, <3>1, <3>2, EndSeenSound
  <2>3. CASE ~ p.stream.eof
    <3> DEFINE full == Filled(p)
    <3>1. PICK ok \in Gbpb : q = IF ~ ok THEN Failed(p)
                                  ELSE IF full.stream.buf = <<>> THEN EndSeen(full)
                                  ELSE TakeByte(full)
      BY <1>3, <2>3 DEF read_byte, Refill
    <3>2. /\ Keeps(p, full) /\ full.stream.pos = 0
          /\ full.stream.buf = <<>> => Len(full.os.got) = FileLength
      BY <1>3, <2>1, FilledSound
    <3> HIDE DEF full
    <3>3. Sound(full) /\ ~ full.stream.writing
      BY <1>3, <3>2 DEF Keeps
    <3>4. CASE ~ ok
      BY <1>3, <3>1, <3>4, FailedSound
    <3>5. CASE ok /\ full.stream.buf = <<>>
      BY <3>1, <3>2, <3>3, <3>5, EndSeenSound DEF Keeps
    <3>6. CASE ok /\ full.stream.buf # <<>>
      <4>1. full.stream.pos < Len(full.stream.buf)
        BY <3>2, <3>3, <3>6, SoundTypes, EmptySeq
      <4>2. Keeps(full, TakeByte(full))
        BY <3>3, <4>1, TakeByteSound
      <4>3. QED
        BY <3>1, <3>2, <3>6, <4>2 DEF Keeps
    <3>7. QED
      BY <3>4, <3>5, <3>6
  <2>4. QED
    BY <2>2, <2>3
<1>4. QED
  BY <1>1, <1>2, <1>3

(* A closed handle's file has every byte, unless a transfer failed.         *)
LEMMA CloseSettled ==
  ASSUME NEW p, Sound(p), NEW ok
  PROVE  Settled(close(p, ok))
<1> DEFINE q == flush(p, ok)
           o == [q.os EXCEPT !.state = "closed"]
<1>1. Keeps(p, q) /\ (p.stream.writing => q.stream.buf = <<>>)
  BY FlushSound
<1>2. close(p, ok) = o
  BY DEF close
<1> HIDE DEF q
<1>3. Sound(q) /\ q.os \in HandleRecord /\ q.os.got \in Seq(Nat) /\ q.os.ptr \in Nat
  BY <1>1, SoundTypes DEF Keeps
<1>4. o \in HandleRecord
  BY <1>3, HandleChanged
<1>5. /\ o.data = q.os.data /\ o.written = q.os.written /\ o.failed = q.os.failed
      /\ o.got = q.os.got /\ o.ended = q.os.ended /\ o.state = "closed" /\ o.old = q.os.old
  BY <1>3 DEF HandleRecord
<1>6. GotInOrder(o)
  BY <1>3, <1>5 DEF Sound, GotInOrder
<1>7. ~ ArgsFails => o.written = 0 \/ InFile(o, 0)
  <2>1. CASE q.stream.writing
    <3>1. q.stream.buf = <<>> /\ Len(q.stream.buf) = 0
      BY <1>1, <2>1 DEF Keeps
    <3>2. ~ ArgsFails => InFile(q.os, 0)
      BY <1>3, <2>1, <3>1 DEF Sound, Writes
    <3>3. QED
      BY <1>5, <3>2 DEF InFile
  <2>2. CASE ~ q.stream.writing
    BY <1>3, <1>5, <2>2 DEF Sound, Reads
  <2>3. QED
    BY <2>1, <2>2
<1>8. QED
  BY <1>2, <1>4, <1>5, <1>6, <1>7 DEF Settled

----------------------------------------------------------------------------
(* One call on the table of streams *)

Used == {i \in DOMAIN files : files[i] # NoStream}

LEMMA UsedIs == Used = DOMAIN files \ Free(files)
BY DEF Used, Free

(* A stream of the table and its handle.                                    *)
LEMMA StreamIs ==
  ASSUME StreamsInv, NEW n, n \in Int, IsStream(n)
  PROVE  /\ Index(n) \in Used /\ StreamOf(n) = files[Index(n)]
         /\ StreamOf(n).handle \in Handle /\ Sound(PairOf(n))
         /\ PairOf(n).stream = StreamOf(n) /\ PairOf(n).os = os[StreamOf(n).handle]
         /\ \A j \in Used : files[j].handle = StreamOf(n).handle => j = Index(n)
<1>1. Index(n) \in Used /\ StreamOf(n) = files[Index(n)]
  BY DEF IsStream, Index, StreamOf, Used
<1>2. Sound(PairOf(n))
  BY <1>1 DEF StreamsInv, OwnersInv, PairOf, Used
<1>3. PairOf(n).stream = StreamOf(n) /\ PairOf(n).os = os[StreamOf(n).handle]
  BY DEF PairOf, Pair
<1>4. StreamOf(n).handle \in Handle
  BY <1>2, <1>3 DEF Sound
<1>5. \A j \in Used : files[j].handle = StreamOf(n).handle => j = Index(n)
  BY <1>1 DEF StreamsInv, OwnersInv, Used
<1>6. QED
  BY <1>1, <1>2, <1>3, <1>4, <1>5

LEMMA NotNoStream ==
  ASSUME NEW s, s.handle \in Handle
  PROVE  s # NoStream
BY StreamAssumptions DEF NoStream, NewStream, Handle

LEMMA BecomesInv ==
  ASSUME StreamsInv, NEW n \in Int, IsStream(n), NEW p, Keeps(PairOf(n), p), Becomes(n, p),
         UNCHANGED <<input, output, buffers>>
  PROVE  StreamsInv'
<1> DEFINE k == Index(n)
           h == StreamOf(n).handle
<1>1. /\ k \in Used /\ k \in DOMAIN files /\ files[k] # NoStream /\ files[k].handle = h
      /\ h \in Handle
      /\ \A j \in Used : files[j].handle = h => j = k
  BY StreamIs DEF Used
<1>2. /\ Sound(p) /\ p.stream.handle = h /\ p.stream.writing = files[k].writing
      /\ p.stream \in StreamRecord /\ p.os \in HandleRecord /\ p = Pair(p.stream, p.os)
      /\ p.os.state = "open" /\ p.stream # NoStream
      /\ p.stream.pos <= Len(p.stream.buf) /\ Len(p.stream.buf) <= BUF
  <2>1. Sound(p) /\ p.stream.handle = h /\ p.stream.writing = files[k].writing
    BY StreamIs DEF Keeps
  <2>2. p.stream # NoStream
    BY <1>1, <2>1, NotNoStream
  <2>3. QED
    BY <2>1, <2>2, SoundTypes DEF Sound, Typed
<1>3. /\ files \in Seq(StreamRecord) /\ os \in [Handle -> HandleRecord]
      /\ files' = [files EXCEPT ![k] = p.stream] /\ os' = [os EXCEPT ![h] = p.os]
  BY <1>2 DEF StreamsInv, StreamsTypeOK, Becomes
<1> HIDE DEF k, h
<1>4. /\ files' \in Seq(StreamRecord) /\ os' \in [Handle -> HandleRecord]
      /\ DOMAIN files' = DOMAIN files /\ Len(files') = Len(files)
      /\ files'[k] = p.stream /\ \A i \in DOMAIN files : i # k => files'[i] = files[i]
      /\ os'[h] = p.os /\ \A g \in Handle : g # h => os'[g] = os[g]
  BY <1>1, <1>2, <1>3
<1>5. \A i \in DOMAIN files :
        /\ (files'[i] # NoStream) <=> (files[i] # NoStream)
        /\ files'[i].handle = files[i].handle /\ files'[i].writing = files[i].writing
  BY <1>1, <1>2, <1>4
<1>6. StreamsTypeOK'
  BY <1>2, <1>4 DEF StreamsInv, StreamsTypeOK
<1>7. SelectionsOpen'
  BY <1>4, <1>5 DEF StreamsInv, SelectionsOpen, valid, IsStream, StreamOf, Index
<1>8. OwnersInv'
  <2>1. ASSUME NEW i \in DOMAIN files', files'[i] # NoStream
        PROVE  Sound(Pair(files'[i], os'[files'[i].handle]))
    <3>1. CASE i = k
      BY <1>1, <1>2, <1>4, <3>1
    <3>2. CASE i # k
      <4>1. files'[i] = files[i] /\ files[i].handle # h /\ files[i] # NoStream
        BY <1>1, <1>4, <2>1, <3>2 DEF Used
      <4>2. Sound(Pair(files[i], os[files[i].handle]))
        BY <1>4, <4>1, <2>1 DEF StreamsInv, OwnersInv
      <4>3. files[i].handle \in Handle
        BY <4>2 DEF Sound, Pair
      <4>4. QED
        BY <1>4, <4>1, <4>2, <4>3
    <3>3. QED
      BY <3>1, <3>2
  <2>2. \A g \in Handle : os'[g].state = "open" <=> os[g].state = "open"
    <3>1. os[h].state = "open"
      BY StreamIs DEF Sound, h
    <3>2. QED
      BY <1>2, <1>4, <3>1
  <2>3. ASSUME NEW g \in Handle, os'[g].state # "open" PROVE Settled(os'[g])
    BY <1>2, <1>4, <2>3 DEF StreamsInv, OwnersInv
  <2>4. \A i, j \in DOMAIN files' :
          files'[i] # NoStream /\ files'[j] # NoStream /\ files'[i].handle = files'[j].handle => i = j
    BY <1>4, <1>5 DEF StreamsInv, OwnersInv
  <2>5. \A g \in Handle : os'[g].state = "open" =>
          \E i \in DOMAIN files' : files'[i] # NoStream /\ files'[i].handle = g
    BY <1>4, <1>5, <2>2 DEF StreamsInv, OwnersInv
  <2>6. QED
    BY <2>1, <2>3, <2>4, <2>5 DEF OwnersInv
<1>9. (DOMAIN files \ Free(files))' = DOMAIN files \ Free(files)
  BY <1>4, <1>5 DEF Free
<1>10. QED
  BY <1>6, <1>7, <1>8, <1>9 DEF StreamsInv

LEMMA UsedFinite ==
  ASSUME files \in Seq(StreamRecord)
  PROVE  IsFiniteSet(Used) /\ Cardinality(Used) \in Nat
<1>1. Used \subseteq 1 .. Len(files) /\ Len(files) \in Nat
  BY DEF Used
<1>2. IsFiniteSet(1 .. Len(files))
  BY <1>1, FS_Interval
<1>3. QED
  BY <1>1, <1>2, FS_Subset, FS_CardinalityType

LEMMA NoStreamIs == NoStream \in StreamRecord /\ NoStream.pos = 0 /\ NoStream.buf = <<>>
BY StreamAssumptions DEF NoStream, NewStream, StreamRecord

LEMMA CloseInv ==
  ASSUME StreamsInv, NEW n \in Int, IsStream(n), NEW ok,
         os' = [os EXCEPT ![StreamOf(n).handle] = close(PairOf(n), ok)],
         files' = [files EXCEPT ![Index(n)] = NoStream], buffers' = buffers - 1,
         input'  = IF input = n THEN CONSOLE_INPUT ELSE input,
         output' = IF output = n THEN CONSOLE_OUTPUT ELSE output
  PROVE  StreamsInv'
<1> DEFINE k == Index(n)
           h == StreamOf(n).handle
           o == close(PairOf(n), ok)
<1>1. /\ k \in Used /\ k \in DOMAIN files /\ files[k] # NoStream /\ files[k].handle = h
      /\ h \in Handle
      /\ \A j \in Used : files[j].handle = h => j = k
  BY StreamIs DEF Used
<1>2. Settled(o) /\ o \in HandleRecord /\ o.state # "open"
  <2>1. Settled(o)
    BY StreamIs, CloseSettled
  <2>2. QED
    BY <2>1 DEF Settled
<1>3. /\ files \in Seq(StreamRecord) /\ os \in [Handle -> HandleRecord]
      /\ files' = [files EXCEPT ![k] = NoStream] /\ os' = [os EXCEPT ![h] = o]
  BY DEF StreamsInv, StreamsTypeOK
<1>4. \A m \in Int : Index(m) = k => m = n
  BY DEF Index, FIRST_FILE
<1> HIDE DEF k, h, o
<1>5. /\ files' \in Seq(StreamRecord) /\ os' \in [Handle -> HandleRecord]
      /\ DOMAIN files' = DOMAIN files /\ Len(files') = Len(files)
      /\ files'[k] = NoStream /\ \A i \in DOMAIN files : i # k => files'[i] = files[i]
      /\ os'[h] = o /\ \A g \in Handle : g # h => os'[g] = os[g]
  <2>1. NoStream \in StreamRecord
    BY NoStreamIs
  <2>2. /\ files' \in Seq(StreamRecord)
        /\ DOMAIN files' = DOMAIN files /\ Len(files') = Len(files)
        /\ files'[k] = NoStream /\ \A i \in DOMAIN files : i # k => files'[i] = files[i]
    BY <1>1, <1>3, <2>1
  <2>5. o \in HandleRecord /\ h \in Handle /\ os' = [os EXCEPT ![h] = o]
    BY <1>1, <1>2, <1>3
  <2>3. /\ os' \in [Handle -> HandleRecord]
        /\ os'[h] = o /\ \A g \in Handle : g # h => os'[g] = os[g]
    BY <1>3, <2>5
  <2>4. QED
    BY <2>2, <2>3
<1>6. Used' = Used \ {k}
  BY <1>5 DEF Used
<1>7. buffers' = Cardinality(Used') /\ buffers' \in Nat
  <2>1. buffers = Cardinality(Used)
    BY UsedIs DEF StreamsInv
  <2>2. Cardinality(Used \ {k}) = Cardinality(Used) - 1 /\ IsFiniteSet(Used \ {k})
    BY <1>1, <1>3, UsedFinite, FS_RemoveElement
  <2>3. QED
    BY <1>6, <2>1, <2>2, FS_CardinalityType
<1>8. input \in Nat /\ output \in Nat /\ input' \in Nat /\ output' \in Nat
  BY DEF StreamsInv, StreamsTypeOK, CONSOLE_INPUT, CONSOLE_OUTPUT
<1>9. StreamsTypeOK'
  <2>1. \A i \in DOMAIN files' : files'[i].pos <= Len(files'[i].buf) /\ Len(files'[i].buf) <= BUF
    BY <1>5, NoStreamIs, StreamAssumptions DEF StreamsInv, StreamsTypeOK
  <2>2. QED
    BY <1>5, <1>7, <1>8, <2>1 DEF StreamsTypeOK
<1>10. \A m \in Nat : m # n /\ IsStream(m) => IsStream(m)' /\ StreamOf(m)' = StreamOf(m)
  BY <1>4, <1>5 DEF IsStream, StreamOf, Index
<1>11. SelectionsOpen'
  <2>1. valid(input, FALSE) /\ valid(output, TRUE)
    BY DEF StreamsInv, SelectionsOpen
  <2>2. valid(input, FALSE)'
    BY <1>8, <1>10, <2>1 DEF valid, CONSOLE_INPUT, FIRST_FILE
  <2>3. valid(output, TRUE)'
    BY <1>8, <1>10, <2>1 DEF valid, CONSOLE_OUTPUT, FIRST_FILE
  <2>4. QED
    BY <2>2, <2>3 DEF SelectionsOpen
<1>12. OwnersInv'
  <2>1. ASSUME NEW i \in DOMAIN files', files'[i] # NoStream
        PROVE  /\ Sound(Pair(files'[i], os'[files'[i].handle]))
               /\ i \in DOMAIN files /\ files'[i] = files[i] /\ files[i] # NoStream
               /\ files[i].handle \in Handle /\ files[i].handle # h
    <3>1. files'[i] = files[i] /\ files[i].handle # h /\ files[i] # NoStream /\ i \in DOMAIN files
      BY <1>1, <1>5, <2>1 DEF Used
    <3>2. Sound(Pair(files[i], os[files[i].handle]))
      BY <3>1 DEF StreamsInv, OwnersInv
    <3>3. files[i].handle \in Handle
      BY <3>2 DEF Sound, Pair
    <3>4. QED
      BY <1>5, <3>1, <3>2, <3>3
  <2>2. \A i, j \in DOMAIN files' :
          files'[i] # NoStream /\ files'[j] # NoStream /\ files'[i].handle = files'[j].handle => i = j
    BY <2>1 DEF StreamsInv, OwnersInv
  <2>3. ASSUME NEW g \in Handle, os'[g].state = "open"
        PROVE  \E i \in DOMAIN files' : files'[i] # NoStream /\ files'[i].handle = g
    <3>1. g # h /\ os[g].state = "open"
      BY <1>2, <1>5, <2>3
    <3>2. PICK i \in DOMAIN files : files[i] # NoStream /\ files[i].handle = g
      BY <3>1 DEF StreamsInv, OwnersInv
    <3>3. files'[i] = files[i]
      BY <1>1, <1>5, <3>1, <3>2
    <3>4. QED
      BY <1>5, <3>2, <3>3
  <2>4. ASSUME NEW g \in Handle, os'[g].state # "open" PROVE Settled(os'[g])
    BY <1>2, <1>5, <2>4 DEF StreamsInv, OwnersInv
  <2>5. QED
    BY <2>1, <2>2, <2>3, <2>4 DEF OwnersInv
<1>13. (DOMAIN files \ Free(files))' = Used'
  BY DEF Used, Free
<1>14. QED
  BY <1>7, <1>9, <1>11, <1>12, <1>13 DEF StreamsInv

(* A new stream takes the first free place of the table, or a new one.      *)
LEMMA PlaceIs ==
  ASSUME files \in Seq(StreamRecord), NEW s \in StreamRecord
  PROVE  \E k \in Nat \ {0} :
           /\ k \in DOMAIN files => files[k] = NoStream
           /\ Place(s) \in Seq(StreamRecord) /\ DOMAIN Place(s) = DOMAIN files \cup {k}
           /\ Len(files) <= Len(Place(s)) /\ Place(s)[k] = s
           /\ \A i \in DOMAIN files : i # k => Place(s)[i] = files[i]
<1>1. CASE Free(files) = {}
  <2>1. Place(s) = Append(files, s)
    BY <1>1 DEF Place
  <2>2. /\ Append(files, s) \in Seq(StreamRecord) /\ Len(Append(files, s)) = Len(files) + 1
        /\ \A i \in 1 .. Len(files) : Append(files, s)[i] = files[i]
        /\ Append(files, s)[Len(files) + 1] = s
    BY AppendProperties
  <2>3. /\ Len(files) \in Nat /\ DOMAIN files = 1 .. Len(files)
        /\ DOMAIN Append(files, s) = 1 .. Len(files) + 1
    BY <2>2
  <2>4. WITNESS Len(files) + 1 \in Nat \ {0}
  <2>5. QED
    BY <2>1, <2>2, <2>3
<1>2. CASE Free(files) # {}
  <2>1. Free(files) \in SUBSET Nat
    BY DEF Free
  <2>2. PICK x \in Free(files) : \A j \in Free(files) : x <= j
    BY <1>2, <2>1, LeastNatural
  <2> DEFINE k == CHOOSE i \in Free(files) : \A j \in Free(files) : i <= j
  <2>3. k \in Free(files)
    BY <2>2
  <2>4. Place(s) = [files EXCEPT ![k] = s]
    BY <1>2 DEF Place
  <2> HIDE DEF k
  <2>5. k \in DOMAIN files /\ files[k] = NoStream /\ k \in Nat \ {0}
    BY <2>3 DEF Free
  <2>6. /\ [files EXCEPT ![k] = s] \in Seq(StreamRecord)
        /\ DOMAIN [files EXCEPT ![k] = s] = DOMAIN files
        /\ Len([files EXCEPT ![k] = s]) = Len(files)
        /\ [files EXCEPT ![k] = s][k] = s
        /\ \A i \in DOMAIN files : i # k => [files EXCEPT ![k] = s][i] = files[i]
    BY <2>5
  <2>7. Len(files) \in Nat
    OBVIOUS
  <2>8. QED
    <3>1. /\ Place(s) \in Seq(StreamRecord) /\ DOMAIN Place(s) = DOMAIN files \cup {k}
          /\ Len(files) <= Len(Place(s)) /\ Place(s)[k] = s
          /\ \A i \in DOMAIN files : i # k => Place(s)[i] = files[i]
      BY <2>4, <2>5, <2>6, <2>7
    <3>2. QED
      BY <2>5, <3>1
<1>3. QED
  BY <1>1, <1>2

LEMMA OpenedIs ==
  ASSUME NEW how \in {"r", "w", "a"}, NEW o \in Opened(how)
  PROVE  \E d, x, l :
           /\ o = FreshHandle("open", d, x, l)
           /\ \/ d = <<>> /\ x = 0 /\ l = 0 /\ how # "r"
              \/ d = OldData /\ x = 0 /\ l = 0 /\ how = "r"
              \/ d = OldData /\ x = FileLength /\ l = FileLength /\ how # "r"
              \/ d = OldData /\ x = 0 /\ l = FileLength /\ how # "r" /\ ArgsFails
BY DEF Opened, Created, Existing, AtEnd, NotAtEnd

LEMMA OpenedSound ==
  ASSUME NEW h \in Handle, NEW how \in {"r", "w", "a"}, NEW o \in Opened(how)
  PROVE  Sound(Pair(NewStream(h, how # "r"), o))
<1> DEFINE s == NewStream(h, how # "r")
           p == Pair(s, o)
<1>1. /\ s \in StreamRecord /\ s.handle = h /\ s.writing = (how # "r") /\ s.buf = <<>> /\ s.pos = 0
      /\ s.eof = FALSE
  <2>1. h \in 0 .. MaxHandles /\ (how # "r") \in BOOLEAN /\ <<>> \in Seq(Nat)
    BY StreamAssumptions DEF Handle
  <2>2. QED
    BY <2>1 DEF NewStream, StreamRecord
<1>2. PICK d, x, l :
        /\ o = FreshHandle("open", d, x, l)
        /\ \/ d = <<>> /\ x = 0 /\ l = 0 /\ how # "r"
           \/ d = OldData /\ x = 0 /\ l = 0 /\ how = "r"
           \/ d = OldData /\ x = FileLength /\ l = FileLength /\ how # "r"
           \/ d = OldData /\ x = 0 /\ l = FileLength /\ how # "r" /\ ArgsFails
  BY OpenedIs
<1>11. /\ d \in Seq(Nat) /\ x \in Nat /\ l \in Nat /\ x <= Len(d)
  <2>1. <<>> \in Seq(Nat) /\ Len(<<>>) = 0
    OBVIOUS
  <2>2. OldData \in Seq(Nat) /\ Len(OldData) = FileLength /\ FileLength \in Nat
    BY OldDataIs, StreamAssumptions
  <2>3. CASE d = <<>> /\ x = 0 /\ l = 0
    BY <2>1, <2>3
  <2>4. CASE d = OldData /\ x \in {0, FileLength} /\ l \in {0, FileLength}
    <3>1. 0 <= FileLength
      BY <2>2
    <3>2. QED
      BY <2>2, <2>4, <3>1
  <2>5. QED
    BY <1>2, <2>3, <2>4
<1>12. /\ o \in HandleRecord /\ o.state = "open" /\ o.written = 0 /\ o.got = <<>>
       /\ o.ended = FALSE /\ o.failed = FALSE /\ o.ptr = x /\ o.data = d /\ o.old = l
  <2>1. <<>> \in Seq(Nat)
    OBVIOUS
  <2>2. QED
    BY <1>2, <1>11, <2>1 DEF FreshHandle, HandleRecord
<1>4. ASSUME how # "r", ~ ArgsFails
      PROVE  x = Len(d) /\ InOrder(d, l, 0, FALSE, 0)
  <2>2. CASE d = <<>> /\ x = 0 /\ l = 0
    BY <2>2, StreamAssumptions DEF InOrder
  <2>3. CASE d = OldData /\ x = FileLength /\ l = FileLength
    BY <2>3, OldDataIs, StreamAssumptions DEF InOrder
  <2>4. QED
    BY <1>2, <1>4, <2>2, <2>3
<1> HIDE DEF s
<1>5. p.stream = s /\ p.os = o
  BY DEF Pair
<1>6. Typed(p)
  <2>1. p \in PairRecord
    BY <1>1, <1>12 DEF Pair, PairRecord
  <2>2. QED
    BY <1>1, <1>11, <1>12, <1>5, <2>1, StreamAssumptions DEF Typed
<1> HIDE DEF p
<1>7. GotInOrder(p.os)
  BY <1>12, <1>5 DEF GotInOrder
<1>8. CASE how = "r"
  <2>1. Reads(p)
    <3>1. d = OldData /\ x = 0
      BY <1>2, <1>8
    <3>2. Len(p.stream.buf) = 0 /\ Len(p.os.got) = 0
      BY <1>1, <1>12, <1>5
    <3>3. QED
      BY <1>1, <1>12, <1>5, <3>1, <3>2 DEF Reads
  <2>2. QED
    BY <1>1, <1>12, <1>5, <1>6, <1>7, <1>8, <2>1 DEF Sound, p, s
<1>9. CASE how # "r"
  <2>1. Writes(p)
    <3>1. Len(p.stream.buf) = 0
      BY <1>1, <1>5
    <3>2. ~ ArgsFails => p.os.ptr = Len(p.os.data) /\ InFile(p.os, 0)
      BY <1>12, <1>4, <1>5, <1>9 DEF InFile
    <3>3. QED
      BY <1>1, <1>12, <1>5, <3>1, <3>2 DEF Writes
  <2>2. QED
    BY <1>1, <1>12, <1>5, <1>6, <1>7, <1>9, <2>1 DEF Sound, p, s
<1>10. QED
  BY <1>8, <1>9

LEMMA OpenInv ==
  ASSUME StreamsInv, NEW how \in {"r", "w", "a"}, NEW h \in NextHandle, NEW o \in Opened(how),
         os' = [os EXCEPT ![h] = o], files' = Place(NewStream(h, how # "r")),
         buffers' = buffers + 1, UNCHANGED <<input, output>>
  PROVE  StreamsInv'
<1> DEFINE s == NewStream(h, how # "r")
<1>1. h \in Handle /\ os[h].state # "open"
  BY DEF NextHandle
<1>2. Sound(Pair(s, o))
  BY <1>1, OpenedSound
<1>3. /\ s \in StreamRecord /\ o \in HandleRecord /\ s.handle = h /\ o.state = "open"
      /\ s.pos <= Len(s.buf) /\ Len(s.buf) <= BUF
  <2>1. Pair(s, o).stream = s /\ Pair(s, o).os = o
    BY DEF Pair
  <2>2. s.handle = h
    BY DEF NewStream
  <2> HIDE DEF s
  <2>3. QED
    BY <1>2, <2>1, <2>2, SoundTypes DEF Sound, Typed
<1>4. files \in Seq(StreamRecord) /\ os \in [Handle -> HandleRecord]
  BY DEF StreamsInv, StreamsTypeOK
<1> HIDE DEF s
<1>5. PICK k \in Nat \ {0} :
        /\ k \in DOMAIN files => files[k] = NoStream
        /\ files' \in Seq(StreamRecord) /\ DOMAIN files' = DOMAIN files \cup {k}
        /\ Len(files) <= Len(files') /\ files'[k] = s
        /\ \A i \in DOMAIN files : i # k => files'[i] = files[i]
  <2>1. files' = Place(s)
    BY DEF s
  <2>2. PICK k \in Nat \ {0} :
          /\ k \in DOMAIN files => files[k] = NoStream
          /\ Place(s) \in Seq(StreamRecord) /\ DOMAIN Place(s) = DOMAIN files \cup {k}
          /\ Len(files) <= Len(Place(s)) /\ Place(s)[k] = s
          /\ \A i \in DOMAIN files : i # k => Place(s)[i] = files[i]
    BY <1>3, <1>4, PlaceIs
  <2>3. QED
    BY <2>1, <2>2
<1>6. /\ os' \in [Handle -> HandleRecord]
      /\ os'[h] = o /\ \A g \in Handle : g # h => os'[g] = os[g]
  BY <1>1, <1>3, <1>4
<1>7. s # NoStream
  BY <1>1, <1>3, NotNoStream
<1>8. k \notin Used /\ Used' = Used \cup {k}
  BY <1>5, <1>7 DEF Used
<1>9. buffers' = Cardinality(Used') /\ buffers' \in Nat
  <2>1. buffers = Cardinality(Used)
    BY UsedIs DEF StreamsInv
  <2>2. Cardinality(Used \cup {k}) = Cardinality(Used) + 1 /\ Cardinality(Used) \in Nat
    BY <1>4, <1>8, UsedFinite, FS_AddElement
  <2>3. QED
    BY <1>8, <2>1, <2>2
<1>10. StreamsTypeOK'
  <2>1. \A i \in DOMAIN files' : files'[i].pos <= Len(files'[i].buf) /\ Len(files'[i].buf) <= BUF
    BY <1>3, <1>5 DEF StreamsInv, StreamsTypeOK
  <2>2. input' \in Nat /\ output' \in Nat
    BY DEF StreamsInv, StreamsTypeOK
  <2>3. QED
    BY <1>5, <1>6, <1>9, <2>1, <2>2 DEF StreamsTypeOK
<1>11. \A m \in Nat : IsStream(m) => IsStream(m)' /\ StreamOf(m)' = StreamOf(m)
  BY <1>5 DEF IsStream, StreamOf, Index
<1>12. SelectionsOpen'
  <2>1. valid(input, FALSE) /\ valid(output, TRUE) /\ input \in Nat /\ output \in Nat
    BY DEF StreamsInv, SelectionsOpen, StreamsTypeOK
  <2>2. valid(input, FALSE)'
    BY <1>11, <2>1 DEF valid
  <2>3. valid(output, TRUE)'
    BY <1>11, <2>1 DEF valid
  <2>4. QED
    BY <2>2, <2>3 DEF SelectionsOpen
<1>13. OwnersInv'
  <2>1. ASSUME NEW i \in DOMAIN files', files'[i] # NoStream, i # k
        PROVE  /\ Sound(Pair(files'[i], os'[files'[i].handle]))
               /\ i \in DOMAIN files /\ files'[i] = files[i] /\ files[i] # NoStream
               /\ files[i].handle \in Handle /\ files[i].handle # h
    <3>1. files'[i] = files[i] /\ files[i] # NoStream /\ i \in DOMAIN files
      BY <1>5, <2>1
    <3>2. Sound(Pair(files[i], os[files[i].handle]))
      BY <3>1 DEF StreamsInv, OwnersInv
    <3>3. files[i].handle \in Handle /\ os[files[i].handle].state = "open"
      BY <3>2 DEF Sound, Pair
    <3>4. QED
      BY <1>1, <1>6, <3>1, <3>2, <3>3
  <2>2. ASSUME NEW i \in DOMAIN files', NEW j \in DOMAIN files', files'[i] # NoStream,
               files'[j] # NoStream, files'[i].handle = files'[j].handle
        PROVE  i = j
    <3>1. CASE i = k \/ j = k
      BY <1>3, <1>5, <2>1, <2>2, <3>1
    <3>2. CASE i # k /\ j # k
      BY <2>1, <2>2, <3>2 DEF StreamsInv, OwnersInv
    <3>3. QED
      BY <3>1, <3>2
  <2>3. ASSUME NEW g \in Handle, os'[g].state = "open"
        PROVE  \E i \in DOMAIN files' : files'[i] # NoStream /\ files'[i].handle = g
    <3>1. CASE g = h
      BY <1>3, <1>5, <1>7, <3>1
    <3>2. CASE g # h
      <4>1. PICK i \in DOMAIN files : files[i] # NoStream /\ files[i].handle = g
        BY <1>6, <2>3, <3>2 DEF StreamsInv, OwnersInv
      <4>2. i # k /\ files'[i] = files[i]
        BY <1>5, <4>1
      <4>3. QED
        BY <1>5, <4>1, <4>2
    <3>3. QED
      BY <3>1, <3>2
  <2>4. ASSUME NEW g \in Handle, os'[g].state # "open" PROVE Settled(os'[g])
    BY <1>3, <1>6, <2>4 DEF StreamsInv, OwnersInv
  <2>5. \A i \in DOMAIN files' :
          files'[i] # NoStream => Sound(Pair(files'[i], os'[files'[i].handle]))
    BY <1>2, <1>3, <1>5, <1>6, <2>1
  <2>6. QED
    BY <2>2, <2>3, <2>4, <2>5 DEF OwnersInv
<1>14. (DOMAIN files \ Free(files))' = Used'
  BY DEF Used, Free
<1>15. QED
  BY <1>9, <1>10, <1>12, <1>13, <1>14 DEF StreamsInv

LEMMA SelectInv ==
  ASSUME StreamsInv, UNCHANGED <<files, buffers, os>>,
         input' \in Nat, output' \in Nat, valid(input', FALSE), valid(output', TRUE)
  PROVE  StreamsInv'
<1>1. SelectionsOpen'
  BY DEF SelectionsOpen, valid, IsStream, StreamOf, Index
<1>2. StreamsTypeOK' /\ OwnersInv'
  BY DEF StreamsInv, StreamsTypeOK, OwnersInv
<1>3. QED
  BY <1>1, <1>2 DEF StreamsInv, Free

LEMMA StreamsUnchanged ==
  ASSUME StreamsInv, UNCHANGED svars
  PROVE  StreamsInv'
<1>1. UNCHANGED <<files, buffers, os>> /\ input' = input /\ output' = output
  BY DEF svars
<1>2. input' \in Nat /\ output' \in Nat /\ valid(input', FALSE) /\ valid(output', TRUE)
  BY <1>1 DEF StreamsInv, SelectionsOpen, StreamsTypeOK
<1>3. QED
  BY <1>1, <1>2, SelectInv

(* Handles that no call ever names are settled, and a fresh table is empty. *)
LEMMA EmptyTableInv ==
  ASSUME files' = <<>>, input' = CONSOLE_INPUT, output' = CONSOLE_OUTPUT, buffers' = 0,
         os' \in [Handle -> HandleRecord], \A h \in Handle : Settled(os'[h])
  PROVE  StreamsInv'
<1>1. files' \in Seq(StreamRecord) /\ DOMAIN files' = {}
  OBVIOUS
<1>2. StreamsTypeOK'
  BY <1>1 DEF StreamsTypeOK, CONSOLE_INPUT, CONSOLE_OUTPUT
<1>3. SelectionsOpen'
  BY DEF SelectionsOpen, valid, CONSOLE_INPUT, CONSOLE_OUTPUT, FIRST_FILE
<1>4. OwnersInv'
  BY <1>1 DEF OwnersInv, Settled
<1>5. (DOMAIN files \ Free(files))' = {}
  BY <1>1
<1>6. QED
  BY <1>2, <1>3, <1>4, <1>5, FS_EmptySet DEF StreamsInv

LEMMA CloseAllInv == StreamsInv /\ close_all => StreamsInv'
<1> SUFFICES ASSUME StreamsInv, close_all PROVE StreamsInv'
  OBVIOUS
<1>1. PICK ok \in [Handle -> Gbpb] :
        os' = [h \in Handle |-> IF h \in InUse THEN close(Pair(OwnerOf(h), os[h]), ok[h])
                                ELSE os[h]]
  BY DEF close_all
<1>2. ASSUME NEW h \in Handle PROVE Settled(os'[h])
  <2>1. CASE h \in InUse
    <3>1. PICK i \in DOMAIN files : files[i].handle = h
      BY <2>1 DEF InUse
    <3> DEFINE j == CHOOSE k \in DOMAIN files : files[k].handle = h
    <3>2. j \in DOMAIN files /\ files[j].handle = h
      BY <3>1
    <3>3. OwnerOf(h) = files[j]
      BY DEF OwnerOf
    <3> HIDE DEF j
    <3>4. files[j] # NoStream
      BY <3>2, NotNoStream
    <3>5. Sound(Pair(OwnerOf(h), os[h]))
      BY <3>2, <3>3, <3>4 DEF StreamsInv, OwnersInv
    <3>6. QED
      BY <1>1, <2>1, <3>5, CloseSettled
  <2>2. CASE h \notin InUse
    <3>1. os[h].state # "open"
      <4>1. ASSUME os[h].state = "open" PROVE FALSE
        <5>1. PICK i \in DOMAIN files : files[i] # NoStream /\ files[i].handle = h
          BY <4>1 DEF StreamsInv, OwnersInv
        <5>2. QED
          BY <2>2, <5>1 DEF InUse, Free
      <4>2. QED
        BY <4>1
    <3>2. QED
      BY <1>1, <2>2, <3>1 DEF StreamsInv, OwnersInv
  <2>3. QED
    BY <2>1, <2>2
<1>3. os' \in [Handle -> HandleRecord]
  <2>1. os' = [h \in Handle |-> os'[h]]
    BY <1>1
  <2>2. \A h \in Handle : os'[h] \in HandleRecord
    BY <1>2 DEF Settled
  <2>3. QED
    BY <2>1, <2>2
<1>4. QED
  BY <1>2, <1>3, EmptyTableInv DEF close_all

LEMMA StreamsInit_Inv == StreamsInit => StreamsInv
<1> SUFFICES ASSUME StreamsInit PROVE StreamsInv
  OBVIOUS
<1>1. files = <<>> /\ DOMAIN files = {} /\ files \in Seq(StreamRecord)
  BY DEF StreamsInit
<1>2. Unused \in HandleRecord /\ Settled(Unused) /\ Unused.state # "open"
  <2>1. <<>> \in Seq(Nat) /\ Len(<<>>) = 0
    OBVIOUS
  <2>2. /\ Unused \in HandleRecord /\ Unused.state = "unused" /\ Unused.got = <<>>
        /\ Unused.ended = FALSE /\ Unused.written = 0
    BY <2>1 DEF Unused, FreshHandle, HandleRecord
  <2>3. QED
    BY <2>1, <2>2 DEF Settled, GotInOrder
<1>3. os \in [Handle -> HandleRecord] /\ \A h \in Handle : os[h] = Unused
  BY <1>2 DEF StreamsInit
<1>4. StreamsTypeOK
  BY <1>1, <1>3 DEF StreamsInit, StreamsTypeOK, CONSOLE_INPUT, CONSOLE_OUTPUT
<1>5. SelectionsOpen
  BY DEF StreamsInit, SelectionsOpen, valid, CONSOLE_INPUT, CONSOLE_OUTPUT, FIRST_FILE
<1>6. OwnersInv
  BY <1>1, <1>2, <1>3 DEF OwnersInv
<1>7. DOMAIN files \ Free(files) = {} /\ buffers = 0
  BY <1>1 DEF StreamsInit
<1>8. QED
  BY <1>4, <1>5, <1>6, <1>7, FS_EmptySet DEF StreamsInv

LEMMA InputOutputTypes ==
  ASSUME StreamsInv
  PROVE  input \in Nat /\ output \in Nat /\ valid(input, FALSE) /\ valid(output, TRUE)
BY DEF StreamsInv, StreamsTypeOK, SelectionsOpen

LEMMA NumbersAreNatural ==
  ASSUME StreamsInv
  PROVE  Numbers \subseteq Nat /\ CONSOLE_INPUT \in Nat /\ CONSOLE_OUTPUT \in Nat
<1>1. Len(files) \in Nat
  BY DEF StreamsInv, StreamsTypeOK
<1>2. QED
  BY <1>1 DEF Numbers, FIRST_FILE, CONSOLE_INPUT, CONSOLE_OUTPUT

LEMMA EndStreamInv ==
  ASSUME StreamsInv, NEW n \in Nat, end_stream(n)
  PROVE  StreamsInv'
<1>1. CASE ~ (n >= FIRST_FILE)
  BY <1>1, StreamsUnchanged DEF end_stream
<1>2. CASE n >= FIRST_FILE /\ IsStream(n)
  <2>1. PICK ok \in Gbpb : os' = [os EXCEPT ![StreamOf(n).handle] = close(PairOf(n), ok)]
    BY <1>2 DEF end_stream, CloseSlot
  <2>2. /\ files' = [files EXCEPT ![Index(n)] = NoStream] /\ buffers' = buffers - 1
        /\ input'  = IF input = n THEN CONSOLE_INPUT ELSE input
        /\ output' = IF output = n THEN CONSOLE_OUTPUT ELSE output
    BY <1>2 DEF end_stream, CloseSlot
  <2>3. n \in Int
    OBVIOUS
  <2>4. QED
    BY <1>2, <2>1, <2>2, <2>3, CloseInv
<1>3. CASE n >= FIRST_FILE /\ ~ IsStream(n)
  <2>1. input # n /\ output # n
    BY <1>3, InputOutputTypes DEF valid
  <2>2. UNCHANGED svars
    BY <1>3, <2>1 DEF end_stream, CloseSlot, svars
  <2>3. QED
    BY <2>2, StreamsUnchanged
<1>4. QED
  BY <1>1, <1>2, <1>3

(* Each of a program's calls on its streams. *)
LEMMA StreamCallInv == StreamsInv /\ StreamCall => StreamsInv'
<1> SUFFICES ASSUME StreamsInv, StreamCall PROVE StreamsInv'
  OBVIOUS
<1>1. CASE Open
  <2>1. PICK how \in {"r", "w", "a"} : open(how)
    BY <1>1 DEF Open
  <2>2. CASE UNCHANGED svars
    BY <2>2, StreamsUnchanged
  <2>3. CASE ~ UNCHANGED svars
    <3>1. PICK h \in NextHandle, o \in Opened(how) :
            /\ os' = [os EXCEPT ![h] = o]
            /\ files' = Place(NewStream(h, how # "r"))
            /\ buffers' = buffers + 1
            /\ UNCHANGED <<input, output>>
      BY <2>1, <2>3 DEF open
    <3>2. QED
      BY <3>1, OpenInv
  <2>4. QED
    BY <2>2, <2>3
<1>2. CASE SelectInput
  <2>1. PICK n \in Numbers : select_input(n)
    BY <1>2 DEF SelectInput
  <2>2. input' \in Nat /\ valid(input', FALSE)
    BY <2>1, NumbersAreNatural, InputOutputTypes DEF select_input
  <2>3. output' = output /\ UNCHANGED <<files, buffers, os>>
    BY <2>1 DEF select_input
  <2>4. QED
    BY <2>2, <2>3, InputOutputTypes, SelectInv
<1>3. CASE SelectOutput
  <2>1. PICK n \in Numbers : select_output(n)
    BY <1>3 DEF SelectOutput
  <2>2. output' \in Nat /\ valid(output', TRUE)
    BY <2>1, NumbersAreNatural, InputOutputTypes DEF select_output
  <2>3. input' = input /\ UNCHANGED <<files, buffers, os>>
    BY <2>1 DEF select_output
  <2>4. QED
    BY <2>2, <2>3, InputOutputTypes, SelectInv
<1>4. CASE EndStream
  BY <1>4, EndStreamInv, NumbersAreNatural DEF EndStream
<1>5. QED
  BY <1>1, <1>2, <1>3, <1>4 DEF StreamCall

LEMMA WriteFileInv == StreamsInv /\ WriteFile => StreamsInv'
<1> SUFFICES ASSUME StreamsInv, WriteFile PROVE StreamsInv'
  OBVIOUS
<1>1. PICK n \in WriteSizes : write_file(n)
  BY DEF WriteFile
<1>2. PICK p \in write(PairOf(output), n) : Becomes(output, p)
  BY <1>1 DEF write_file
<1>3. n \in Nat /\ IsStream(output) /\ output \in Int
  BY <1>1, StreamAssumptions, InputOutputTypes DEF write_file
<1>4. Sound(PairOf(output)) /\ PairOf(output).stream.writing
  <2>1. StreamOf(output).writing = TRUE
    BY <1>3, InputOutputTypes DEF valid, IsStream
  <2>2. QED
    BY <1>3, <2>1, StreamIs
<1>5. Keeps(PairOf(output), p)
  BY <1>2, <1>3, <1>4, WriteSound
<1>6. QED
  BY <1>1, <1>2, <1>3, <1>5, BecomesInv DEF write_file

LEMMA ReadFileInv == StreamsInv /\ read_file => StreamsInv'
<1> SUFFICES ASSUME StreamsInv, read_file PROVE StreamsInv'
  OBVIOUS
<1>1. CASE ~ IsStream(input)
  BY <1>1, StreamsUnchanged DEF read_file, svars
<1>2. CASE IsStream(input)
  <2>1. PICK p \in read_byte(PairOf(input)) : Becomes(input, p)
    BY <1>2 DEF read_file
  <2>2. input \in Int /\ Sound(PairOf(input))
    BY <1>2, InputOutputTypes, StreamIs
  <2>3. Keeps(PairOf(input), p)
    BY <2>1, <2>2, ReadSound
  <2>4. QED
    BY <1>2, <2>1, <2>2, <2>3, BecomesInv DEF read_file
<1>3. QED
  BY <1>1, <1>2

LEMMA StreamsStep == StreamsInv /\ [StreamsNext]_svars => StreamsInv'
BY StreamCallInv, WriteFileInv, ReadFileInv, CloseAllInv, StreamsUnchanged DEF StreamsNext

----------------------------------------------------------------------------
(* What the invariant says of the table and of the bytes *)

(* Streams and their handles correspond one to one. *)
LEMMA InUseCounted ==
  ASSUME StreamsInv
  PROVE  /\ InUse = {h \in Handle : os[h].state = "open"}
         /\ Cardinality(InUse) = Cardinality(Used)
<1> DEFINE f == [i \in Used |-> files[i].handle]
<1>1. \A i \in Used : files[i].handle \in Handle /\ os[files[i].handle].state = "open"
  BY DEF StreamsInv, OwnersInv, Used, Sound, Pair
<1>2. InUse = {files[i].handle : i \in Used}
  BY UsedIs DEF InUse
<1>3. InUse = {h \in Handle : os[h].state = "open"}
  <2>1. \A h \in Handle : os[h].state = "open" => \E i \in Used : files[i].handle = h
    BY DEF StreamsInv, OwnersInv, Used
  <2>2. QED
    BY <1>1, <1>2, <2>1
<1>4. \A i, j \in Used : f[i] = f[j] => i = j
  BY DEF StreamsInv, OwnersInv, Used
<1>5. f \in Bijection(Used, InUse)
  <2>1. f \in [Used -> InUse]
    BY <1>2
  <2>2. \A h \in InUse : \E i \in Used : f[i] = h
    BY <1>2
  <2> HIDE DEF f
  <2>3. QED
    BY <1>4, <2>1, <2>2 DEF Bijection, Injection, Surjection, IsInjective
<1>6. IsFiniteSet(Used)
  BY UsedFinite DEF StreamsInv, StreamsTypeOK
<1>7. Cardinality(InUse) = Cardinality(Used)
  BY <1>5, <1>6, FS_Bijection DEF ExistsBijection
<1>8. QED
  BY <1>3, <1>7

LEMMA TableFromInv == StreamsInv => TableConsistent
BY InUseCounted, UsedIs DEF StreamsInv, TableConsistent, HandlesOwned

(* The table of streams stays well formed, the selected streams are open    *)
(* and of the right kind, and RISC OS has open exactly the handles that     *)
(* streams own, for any number of handles: streams.rs's open, select, write,*)
(* read, close and close_all in any order, whatever SWI fails.              *)
THEOREM StreamsConsistent == StreamsSpec => []TableConsistent
BY StreamsInit_Inv, StreamsStep, TableFromInv, PTL DEF StreamsSpec

(* The handle of a stream, and a handle without one. *)
LEMMA HandleCases ==
  ASSUME StreamsInv, NEW h \in Handle
  PROVE  \/ /\ h \in InUse /\ Sound(Pair(OwnerOf(h), os[h]))
         \/ h \notin InUse /\ Settled(os[h])
<1>1. CASE h \in InUse
  <2>1. PICK i \in DOMAIN files : files[i].handle = h
    BY <1>1 DEF InUse
  <2> DEFINE j == CHOOSE k \in DOMAIN files : files[k].handle = h
  <2>2. j \in DOMAIN files /\ files[j].handle = h
    BY <2>1
  <2>3. OwnerOf(h) = files[j]
    BY DEF OwnerOf
  <2> HIDE DEF j
  <2>4. files[j] # NoStream
    BY <2>2, NotNoStream
  <2>5. QED
    BY <1>1, <2>2, <2>3, <2>4 DEF StreamsInv, OwnersInv
<1>2. CASE h \notin InUse
  BY <1>2, InUseCounted DEF StreamsInv, OwnersInv
<1>3. QED
  BY <1>1, <1>2

LEMMA ReadFromInv == StreamsInv => ReadInOrder
<1> SUFFICES ASSUME StreamsInv, NEW h \in Handle
             PROVE  /\ os[h].got = [i \in 1 .. Len(os[h].got) |-> i]
                    /\ os[h].ended => (os[h].failed \/ Len(os[h].got) = FileLength)
  BY DEF ReadInOrder
<1>1. GotInOrder(os[h]) /\ os[h] \in HandleRecord
  BY HandleCases DEF Sound, Settled, Pair, StreamsInv, StreamsTypeOK
<1> DEFINE g == os[h].got
<1>2. g \in Seq(Nat) /\ \A i \in 1 .. Len(g) : g[i] = i
  BY <1>1 DEF GotInOrder, HandleRecord
<1>3. g = [i \in 1 .. Len(g) |-> i]
  <2> HIDE DEF g
  <2>1. QED
    BY <1>2
<1>4. QED
  BY <1>1, <1>3 DEF GotInOrder

LEMMA WrittenBytes ==
  ASSUME NEW all \in Seq(Nat), NEW old \in Nat, NEW written \in Nat, NEW failed \in BOOLEAN,
         InOrder(all, old, written, failed, 0)
  PROVE  /\ ~ failed => all = [i \in 1 .. old |-> i]
                              \o [i \in 1 .. written |-> FileLength + i]
         /\ \A i, j \in DOMAIN all : i < j => all[i] < all[j]
<1> DEFINE s == [i \in 1 .. old |-> i]
           t == [i \in 1 .. written |-> FileLength + i]
<1>1. s \in Seq(Nat) /\ Len(s) = old /\ t \in Seq(Nat) /\ Len(t) = written
  BY StreamAssumptions
<1>2. /\ s \o t \in Seq(Nat) /\ Len(s \o t) = old + written
      /\ \A i \in 1 .. old + written : (s \o t)[i] = IF i <= old THEN s[i] ELSE t[i - old]
  <2> HIDE DEF s, t
  <2>1. QED
    BY <1>1, ConcatIs
<1>3. ASSUME ~ failed PROVE all = s \o t
  <2>1. /\ Len(all) = old + written
        /\ \A i \in 1 .. old + written : all[i] = IF i <= old THEN i ELSE FileLength + i - old
    BY <1>3 DEF InOrder
  <2>2. ASSUME NEW i \in 1 .. old + written PROVE (s \o t)[i] = all[i]
    <3>1. CASE i <= old
      BY <1>2, <2>1, <3>1
    <3>2. CASE ~ (i <= old)
      <4>1. i - old \in 1 .. written
        BY <3>2
      <4>2. t[i - old] = FileLength + (i - old)
        BY <4>1
      <4> HIDE DEF s, t
      <4>3. QED
        BY <1>2, <2>1, <3>2, <4>2, StreamAssumptions
    <3>3. QED
      BY <3>1, <3>2
  <2> HIDE DEF s, t
  <2>3. QED
    BY <1>2, <2>1, <2>2, SeqEqual
<1>4. \A i, j \in DOMAIN all : i < j => all[i] < all[j]
  BY DEF InOrder
<1>5. QED
  BY <1>3, <1>4

LEMMA WrittenFromInv ==
  ASSUME StreamsInv, ~ ArgsFails
  PROVE  WrittenInOrder
<1> SUFFICES ASSUME NEW h \in Handle, os[h].written > 0
             PROVE  LET all == os[h].data \o Waiting(h)
                    IN  /\ ~ os[h].failed =>
                             all = [i \in 1 .. os[h].old |-> i]
                                   \o [i \in 1 .. os[h].written |-> FileLength + i]
                        /\ \A i, j \in DOMAIN all : i < j => all[i] < all[j]
  BY DEF WrittenInOrder
<1> DEFINE all == os[h].data \o Waiting(h)
<1>1. /\ os[h].data \in Seq(Nat) /\ os[h].old \in Nat /\ os[h].written \in Nat
      /\ os[h].failed \in BOOLEAN
  BY DEF StreamsInv, StreamsTypeOK, HandleRecord
<1>2. all \in Seq(Nat) /\ InOrder(all, os[h].old, os[h].written, os[h].failed, 0)
  <2>1. CASE h \in InUse /\ Sound(Pair(OwnerOf(h), os[h]))
    <3> DEFINE p == Pair(OwnerOf(h), os[h])
    <3>1. p.stream = OwnerOf(h) /\ p.os = os[h]
      BY DEF Pair
    <3> HIDE DEF p
    <3>2. Sound(p)
      BY <2>1 DEF p
    <3>3. p.stream.writing
      BY <1>1, <3>1, <3>2 DEF Sound, Reads
    <3>4. Waiting(h) = p.stream.buf /\ p.stream.buf \in Seq(Nat)
      BY <2>1, <3>1, <3>2, <3>3, SoundTypes DEF Waiting
    <3>5. /\ InOrder(os[h].data, os[h].old, os[h].written, os[h].failed, Len(p.stream.buf))
          /\ \A k \in 1 .. Len(p.stream.buf) :
               p.stream.buf[k] = FileLength + os[h].written - Len(p.stream.buf) + k
      BY <3>1, <3>2, <3>3 DEF Sound, Writes, InFile
    <3>6. InOrder(os[h].data \o p.stream.buf, os[h].old, os[h].written, os[h].failed, 0)
      BY <1>1, <3>4, <3>5, FileExtended
    <3>7. QED
      BY <1>1, <3>4, <3>6, ConcatIs
  <2>2. CASE h \notin InUse /\ Settled(os[h])
    <3>1. Waiting(h) = <<>>
      BY <2>2 DEF Waiting
    <3>2. all = os[h].data
      BY <1>1, <3>1, ConcatEmptySeq
    <3>3. QED
      BY <1>1, <2>2, <3>2 DEF Settled, InFile
  <2>3. QED
    BY <2>1, <2>2, HandleCases
<1> HIDE DEF all
<1>3. /\ ~ os[h].failed => all = [i \in 1 .. os[h].old |-> i]
                              \o [i \in 1 .. os[h].written |-> FileLength + i]
      /\ \A i, j \in DOMAIN all : i < j => all[i] < all[j]
  <2> DEFINE old     == os[h].old
             written == os[h].written
             failed  == os[h].failed
  <2>1. /\ old \in Nat /\ written \in Nat /\ failed \in BOOLEAN
        /\ all \in Seq(Nat) /\ InOrder(all, old, written, failed, 0)
    BY <1>1, <1>2
  <2> HIDE DEF old, written, failed
  <2>2. /\ ~ failed => all = [i \in 1 .. old |-> i] \o [i \in 1 .. written |-> FileLength + i]
        /\ \A i, j \in DOMAIN all : i < j => all[i] < all[j]
    BY <2>1, WrittenBytes
  <2>3. QED
    BY <2>2 DEF old, written, failed
<1>4. QED
  BY <1>3 DEF all

(* A reader is given the bytes of its file in order and without a gap, and  *)
(* -1 only after the last or a failed transfer: read_byte and refill.       *)
THEOREM StreamsReadInOrder == StreamsSpec => []ReadInOrder
BY StreamsInit_Inv, StreamsStep, ReadFromInv, PTL DEF StreamsSpec

(* Where OS_Args can set an appended file's pointer to its end, no byte is  *)
(* lost, doubled or overtaken between the program and the file: write,      *)
(* flush, refill and close, with transfers that fail in between.            *)
THEOREM StreamsKeepBytes ==
  ASSUME ~ ArgsFails
  PROVE  StreamsSpec => []BytesInOrder
<1>1. StreamsInv => BytesInOrder
  BY WrittenFromInv, ReadFromInv DEF BytesInOrder
<1>2. QED
  BY <1>1, StreamsInit_Inv, StreamsStep, PTL DEF StreamsSpec

----------------------------------------------------------------------------
(* Runs *)

(* A pending stop was asked for in this run: reset_run clears both.         *)
StopWasAsked == STOP => asked

(* An idle box may remember how the last run ended; once a run is under way *)
(* it has no result yet.                                                    *)
NoResultYet == phase \in {"compiling", "running"} => result = "none"

EscapeInv == StopWasAsked /\ NoResultYet /\ EscapeOfThisRun /\ EscapeAtHooks

(* The free list is never stale, not even between runs, and the arena stack *)
(* only while it is borrowed: a borrow, once left, is never given back.     *)
MemoryInv ==
  /\ CONS_POOL \in {"none", "live"}
  /\ ARENA_STACK \in Seq({"live", "stale"})
  /\ held \subseteq {"STREAMS", "ARENA", "ARENA_STACK", "CONS_POOL"}
  /\ "ARENA_STACK" \notin held => \A i \in DOMAIN ARENA_STACK : ARENA_STACK[i] = "live"

----------------------------------------------------------------------------
(* What a reset does to the Escape state: it ends the phase in the one      *)
(* asked for, cleanly, or the box dies with it unchanged.                   *)

LEMMA ResetEscape ==
  ASSUME NEW then, reset_run(then)
  PROVE  \/ phase' = then /\ STOP' = FALSE /\ late' = {}
         \/ phase' \in {"stuck", "aborted"} /\ UNCHANGED <<STOP, asked, late>>
BY DEF reset_run, Resets, Dies

(* What it does to memory: the pool is emptied and the stack too, unless it *)
(* is borrowed.                                                             *)
LEMMA ResetMemory ==
  ASSUME NEW then, reset_run(then)
  PROVE  \/ CONS_POOL' = "none" /\ ARENA_STACK' = [i \in DOMAIN KeptStack |-> "stale"]
         \/ UNCHANGED memory
BY DEF reset_run, Resets, Dies, arena_reset, memory

(* check_stop ends the program by Escape if a stop is pending and otherwise *)
(* lets the call come back with the history unchanged.                      *)
LEMMA CheckStopEscape ==
  ASSUME EscapeInv, NEW kind, phase = "running", check_stop(kind)
  PROVE  EscapeInv'
BY DEF EscapeInv, StopWasAsked, NoResultYet, EscapeOfThisRun, EscapeAtHooks, check_stop, Back

LEMMA EndEscape ==
  ASSUME EscapeInv, NEW how, how # "escape", End(how)
  PROVE  EscapeInv'
BY DEF EscapeInv, StopWasAsked, NoResultYet, EscapeOfThisRun, EscapeAtHooks, End

LEMMA BackByteEscape ==
  ASSUME EscapeInv, Back("byte")
  PROVE  EscapeInv'
BY DEF EscapeInv, StopWasAsked, NoResultYet, EscapeOfThisRun, EscapeAtHooks, Back

LEMMA ControlKept ==
  ASSUME EscapeInv, UNCHANGED control
  PROVE  EscapeInv'
BY DEF EscapeInv, StopWasAsked, NoResultYet, EscapeOfThisRun, EscapeAtHooks, control

LEMMA EscapeStep == EscapeInv /\ [Next]_vars => EscapeInv'
<1> SUFFICES ASSUME EscapeInv, [Next]_vars PROVE EscapeInv'
  OBVIOUS
<1> USE DEF EscapeInv
<1>1. CASE bcpl_box_run
  BY <1>1, ResetEscape DEF bcpl_box_run, StopWasAsked, NoResultYet, EscapeOfThisRun, EscapeAtHooks
<1>2. CASE CompileOnly
  BY <1>2 DEF CompileOnly, StopWasAsked, NoResultYet, EscapeOfThisRun, EscapeAtHooks
<1>3. CASE run_box
  BY <1>3 DEF run_box, StopWasAsked, NoResultYet, EscapeOfThisRun, EscapeAtHooks
<1>4. CASE bcpl_box_stop
  BY <1>4 DEF bcpl_box_stop, StopWasAsked, NoResultYet, EscapeOfThisRun, EscapeAtHooks
<1>5. CASE Fault
  BY <1>5 DEF Fault, StopWasAsked, NoResultYet, EscapeOfThisRun, EscapeAtHooks
<1>6. CASE bcpl_box_end_run
  BY <1>6, ResetEscape DEF bcpl_box_end_run, StopWasAsked, NoResultYet, EscapeOfThisRun, EscapeAtHooks
<1>7. CASE bcpl_box_recover
  BY <1>7, ResetEscape DEF bcpl_box_recover, StopWasAsked, NoResultYet, EscapeOfThisRun, EscapeAtHooks
<1>8. CASE write_bytes
  BY <1>8, CheckStopEscape DEF write_bytes
<1>9. CASE rdch
  BY <1>9, CheckStopEscape, BackByteEscape DEF rdch, read_line
<1>10. CASE swi
  BY <1>10, CheckStopEscape, EndEscape DEF swi
<1>11. CASE CallStreams \/ bcpl_arena_free \/ cons_alloc
  BY <1>11, ControlKept DEF CallStreams, bcpl_arena_free, cons_alloc
<1>12. CASE bcpl_arena_enter
  BY <1>12, ControlKept, EndEscape DEF bcpl_arena_enter
<1>13. CASE Ends
  BY <1>13, EndEscape DEF Ends
<1>14. CASE UNCHANGED vars
  BY <1>14, ControlKept DEF vars, control
<1>15. QED
  BY <1>1, <1>2, <1>3, <1>4, <1>5, <1>6, <1>7, <1>8, <1>9, <1>10, <1>11, <1>12, <1>13, <1>14 DEF Next

(* Escape is obeyed by every checked call and never reaches the next run:   *)
(* check_stop's swap and reset_run's clear_stop between them.               *)
THEOREM EscapeObeyed == Spec => [](EscapeOfThisRun /\ EscapeAtHooks)
<1>1. Init => EscapeInv
  BY DEF Init, EscapeInv, StopWasAsked, NoResultYet, EscapeOfThisRun, EscapeAtHooks
<1>2. EscapeInv => EscapeOfThisRun /\ EscapeAtHooks
  BY DEF EscapeInv
<1>3. QED
  BY <1>1, <1>2, EscapeStep, PTL DEF Spec

----------------------------------------------------------------------------
(* Memory of earlier runs *)

LEMMA MemoryKept ==
  ASSUME MemoryInv, UNCHANGED memory, UNCHANGED held
  PROVE  MemoryInv'
BY DEF MemoryInv, memory

(* An unborrowed stack is emptied; a borrowed one may keep what is stale.   *)
LEMMA MemoryReset ==
  ASSUME MemoryInv, NEW then, reset_run(then), UNCHANGED held
  PROVE  MemoryInv'
<1>1. CASE UNCHANGED memory
  BY <1>1, MemoryKept
<1>2. CASE CONS_POOL' = "none" /\ ARENA_STACK' = [i \in DOMAIN KeptStack |-> "stale"]
  <2>1. KeptStack \in Seq({"live", "stale"})
    BY DEF KeptStack, MemoryInv
  <2>2. ARENA_STACK' \in Seq({"live", "stale"})
    BY <1>2, <2>1
  <2>3. "ARENA_STACK" \notin held' => ARENA_STACK' = <<>>
    BY <1>2 DEF KeptStack
  <2>4. QED
    BY <1>2, <2>2, <2>3 DEF MemoryInv
<1>3. QED
  BY <1>1, <1>2, ResetMemory

LEMMA MemoryStep == MemoryInv /\ [Next]_vars => MemoryInv'
<1> SUFFICES ASSUME MemoryInv, [Next]_vars PROVE MemoryInv'
  OBVIOUS
<1>1. CASE bcpl_box_run \/ bcpl_box_end_run \/ bcpl_box_recover
  BY <1>1, MemoryReset DEF bcpl_box_run, bcpl_box_end_run, bcpl_box_recover
<1>2. CASE Fault
  BY <1>2, RunAssumptions DEF Fault, MemoryInv, memory
<1>3. CASE bcpl_arena_enter
  <2>1. CASE "ARENA_STACK" \in held
    BY <1>3, <2>1, MemoryKept DEF bcpl_arena_enter, memory
  <2>2. CASE "ARENA_STACK" \notin held
    <3>1. ARENA_STACK' = Append(ARENA_STACK, "live") /\ UNCHANGED <<CONS_POOL, held>>
      BY <1>3, <2>2 DEF bcpl_arena_enter
    <3>2. ARENA_STACK \in Seq({"live", "stale"})
      BY DEF MemoryInv
    <3>3. \A i \in DOMAIN ARENA_STACK' : ARENA_STACK'[i] = "live"
      BY <3>1, <3>2, <2>2 DEF MemoryInv
    <3>4. QED
      BY <3>1, <3>2, <3>3 DEF MemoryInv
  <2>3. QED
    BY <2>1, <2>2
<1>4. CASE bcpl_arena_free
  <2>1. /\ ARENA_STACK' = SubSeq(ARENA_STACK, 1, Len(ARENA_STACK) - 1)
        /\ ARENA_STACK # <<>> /\ "ARENA_STACK" \notin held /\ UNCHANGED <<CONS_POOL, held>>
    BY <1>4 DEF bcpl_arena_free, Front
  <2>2. ARENA_STACK \in Seq({"live", "stale"})
    BY DEF MemoryInv
  <2>3. /\ ARENA_STACK' \in Seq({"live", "stale"})
        /\ \A i \in DOMAIN ARENA_STACK' : i \in DOMAIN ARENA_STACK /\ ARENA_STACK'[i] = ARENA_STACK[i]
    BY <2>1, <2>2
  <2>4. QED
    BY <2>1, <2>3 DEF MemoryInv
<1>5. CASE cons_alloc
  BY <1>5 DEF cons_alloc, MemoryInv
<1>6. CASE CompileOnly \/ run_box \/ bcpl_box_stop \/ write_bytes \/ rdch \/ swi \/ CallStreams \/ Ends
  BY <1>6, MemoryKept DEF CompileOnly, run_box, bcpl_box_stop, write_bytes, rdch, swi, CallStreams, Ends
<1>7. CASE UNCHANGED vars
  BY <1>7, MemoryKept DEF vars
<1>8. QED
  BY <1>1, <1>2, <1>3, <1>4, <1>5, <1>6, <1>7 DEF Next

(* No run uses list cells or arena chunks of an earlier run's area, whatever *)
(* ended that run and whatever locks it left held.                          *)
THEOREM RunsApart == Spec => []NoStaleMemory
<1>1. Init => MemoryInv
  BY DEF Init, MemoryInv
<1>2. MemoryInv => NoStaleMemory
  BY DEF MemoryInv, NoStaleMemory
<1>3. QED
  BY <1>1, <1>2, MemoryStep, PTL DEF Spec

----------------------------------------------------------------------------
(* What a run leaves, and when a box dies *)

(* Every reset that does not kill the box closes all streams and forgets    *)
(* the keyboard; one that does finds a lock held.                           *)
LEMMA ResetCleans ==
  ASSUME NEW then, reset_run(then)
  PROVE  \/ /\ phase' = then
            /\ InUse' = {} /\ input' = CONSOLE_INPUT /\ output' = CONSOLE_OUTPUT
            /\ CONSOLE_IN' = 0 /\ ~ CONSOLE_EOF'
         \/ phase' \in {"stuck", "aborted"} /\ held # {}
<1>1. CASE Hangs \/ Aborts \/ "ARENA" \in held
  BY <1>1 DEF reset_run, Resets, Dies, Hangs, Aborts
<1>2. CASE ~ (Hangs \/ Aborts \/ "ARENA" \in held)
  <2>1. /\ phase' = then /\ files' = <<>> /\ input' = CONSOLE_INPUT
        /\ output' = CONSOLE_OUTPUT /\ CONSOLE_IN' = 0 /\ CONSOLE_EOF' = FALSE
    BY <1>2 DEF reset_run, Resets, close_all
  <2>2. InUse' = {}
    BY <2>1 DEF InUse
  <2>3. QED
    BY <2>1, <2>2
<1>3. QED
  BY <1>1, <1>2

(* A program's steps end in no phase that the two properties speak of.      *)
LEMMA ProgramPhases ==
  ASSUME phase = "running",
         \/ write_bytes \/ rdch \/ swi \/ CallStreams \/ bcpl_arena_enter
         \/ bcpl_arena_free \/ cons_alloc \/ Ends
  PROVE  phase' \in {"running", "returned"} /\ held' = held
BY DEF write_bytes, rdch, read_line, swi, CallStreams, bcpl_arena_enter, bcpl_arena_free,
   cons_alloc, Ends, check_stop, Back, End, control

LEMMA CleanStep ==
  ASSUME CleanBetweenRuns, DiesOnlyOfLocks, [Next]_vars
  PROVE  CleanBetweenRuns' /\ DiesOnlyOfLocks'
<1> USE DEF CleanBetweenRuns, DiesOnlyOfLocks
<1>1. CASE bcpl_box_run
  BY <1>1, ResetCleans DEF bcpl_box_run
<1>2. CASE bcpl_box_end_run \/ bcpl_box_recover
  BY <1>2, ResetCleans DEF bcpl_box_end_run, bcpl_box_recover
<1>3. CASE CompileOnly \/ run_box \/ Fault
  BY <1>3 DEF CompileOnly, run_box, Fault
<1>4. CASE bcpl_box_stop
  BY <1>4 DEF bcpl_box_stop, svars, console, InUse, Free
<1>5. CASE \/ write_bytes \/ rdch \/ swi \/ CallStreams \/ bcpl_arena_enter
           \/ bcpl_arena_free \/ cons_alloc \/ Ends
  <2>1. phase = "running"
    BY <1>5 DEF write_bytes, rdch, swi, CallStreams, bcpl_arena_enter, bcpl_arena_free,
       cons_alloc, Ends
  <2>2. QED
    BY <1>5, <2>1, ProgramPhases
<1>6. CASE UNCHANGED vars
  BY <1>6 DEF vars, svars, console, control, InUse, Free
<1>7. QED
  BY <1>1, <1>2, <1>3, <1>4, <1>5, <1>6 DEF Next

LEMMA CleanAlways == Spec => [](CleanBetweenRuns /\ DiesOnlyOfLocks)
<1>1. Init => CleanBetweenRuns /\ DiesOnlyOfLocks
  BY DEF Init, StreamsInit, CleanBetweenRuns, DiesOnlyOfLocks, InUse
<1>2. CleanBetweenRuns /\ DiesOnlyOfLocks /\ [Next]_vars
        => CleanBetweenRuns' /\ DiesOnlyOfLocks'
  BY CleanStep
<1>3. QED
  BY <1>1, <1>2, PTL DEF Spec

(* A box that hangs or aborts between runs has a lock or borrow that a      *)
(* fault left held.                                                         *)
THEOREM DeathNeedsLock == Spec => []DiesOnlyOfLocks
BY CleanAlways, PTL

----------------------------------------------------------------------------
(* The streams of a run *)

LEMMA ResetStreams ==
  ASSUME NEW then, reset_run(then)
  PROVE  close_all \/ UNCHANGED svars
BY DEF reset_run, Resets, Dies

(* Whatever the box does, its streams take a step of theirs or none. *)
LEMMA RunStepStreams == [Next]_vars => [StreamsNext]_svars
<1> SUFFICES ASSUME [Next]_vars PROVE [StreamsNext]_svars
  OBVIOUS
<1>1. CASE bcpl_box_run \/ bcpl_box_end_run \/ bcpl_box_recover
  BY <1>1, ResetStreams DEF bcpl_box_run, bcpl_box_end_run, bcpl_box_recover, StreamsNext
<1>2. CASE CompileOnly \/ run_box \/ bcpl_box_stop \/ Fault \/ swi \/ Ends
  BY <1>2 DEF CompileOnly, run_box, bcpl_box_stop, Fault, swi, Ends
<1>3. CASE write_bytes
  BY <1>3 DEF write_bytes, StreamsNext
<1>4. CASE rdch
  BY <1>4 DEF rdch, read_line, StreamsNext
<1>5. CASE CallStreams
  BY <1>5 DEF CallStreams, StreamsNext
<1>6. CASE bcpl_arena_enter \/ bcpl_arena_free \/ cons_alloc
  BY <1>6 DEF bcpl_arena_enter, bcpl_arena_free, cons_alloc
<1>7. CASE UNCHANGED vars
  BY <1>7 DEF vars
<1>8. QED
  BY <1>1, <1>2, <1>3, <1>4, <1>5, <1>6, <1>7 DEF Next

(* A box with runs, resets, faults and Escapes implements the streams that  *)
(* a program alone uses: write_bytes, rdch, the stream calls and reset_run  *)
(* change the table and the buffers only as BoxStreams allows.              *)
THEOREM RunsImplementStreams == Spec => StreamsSpec
<1>1. Init => StreamsInit
  BY DEF Init
<1>2. QED
  BY <1>1, RunStepStreams, PTL DEF Spec, StreamsSpec

(* So the table agrees with the selections and with RISC OS throughout a    *)
(* box's life, across faults and resets that dispose of it.                 *)
THEOREM RunsKeepTable == Spec => []TableConsistent
BY RunsImplementStreams, StreamsConsistent, PTL

----------------------------------------------------------------------------
(* The types of a run's state *)

ControlTypes ==
  /\ phase \in {"idle", "compiling", "running", "returned", "faulted", "stuck", "aborted"}
  /\ result \in {"none", "ok", "nocompile", "error", "escape", "borrowed"}
  /\ STOP \in BOOLEAN /\ asked \in BOOLEAN /\ CONSOLE_EOF \in BOOLEAN
  /\ late \subseteq {"output", "line", "swi", "byte"}
  /\ CONSOLE_IN \in 0 .. MaxLine /\ ENGINE \in {"none", "context", "engine"}

LEMMA ResetControl ==
  ASSUME ControlTypes, NEW then \in {"idle", "compiling"}, reset_run(then),
         result' \in {result, "none"}, ENGINE' \in {ENGINE, "none"}
  PROVE  ControlTypes'
<1>1. CASE phase' \in {"stuck", "aborted"} /\ UNCHANGED <<console, STOP, asked, late>>
  BY <1>1 DEF ControlTypes, console
<1>2. CASE /\ phase' = then /\ CONSOLE_IN' = 0 /\ CONSOLE_EOF' = FALSE
           /\ STOP' = FALSE /\ asked' = FALSE /\ late' = {}
  <2>1. 0 \in 0 .. MaxLine
    BY RunAssumptions
  <2>2. QED
    BY <1>2, <2>1 DEF ControlTypes
<1>3. QED
  BY <1>1, <1>2 DEF reset_run, Resets, Dies

LEMMA ControlStep == ControlTypes /\ [Next]_vars => ControlTypes'
<1> SUFFICES ASSUME ControlTypes, [Next]_vars PROVE ControlTypes'
  OBVIOUS
<1>1. CASE bcpl_box_run \/ bcpl_box_end_run \/ bcpl_box_recover
  BY <1>1, ResetControl DEF bcpl_box_run, bcpl_box_end_run, bcpl_box_recover
<1> USE DEF ControlTypes
<1>2. CASE CompileOnly
  BY <1>2 DEF CompileOnly, console
<1>3. CASE run_box
  BY <1>3 DEF run_box, console
<1>4. CASE bcpl_box_stop
  BY <1>4 DEF bcpl_box_stop, console
<1>5. CASE Fault
  BY <1>5 DEF Fault, console
<1>6. CASE write_bytes
  BY <1>6 DEF write_bytes, check_stop, Back, console
<1>7. CASE rdch
  <2>1. CONSOLE_IN' \in 0 .. MaxLine
    BY <1>7, RunAssumptions DEF rdch, read_line, console
  <2>2. CONSOLE_EOF' \in BOOLEAN /\ UNCHANGED ENGINE
    BY <1>7 DEF rdch, read_line, console
  <2>3. check_stop("line") \/ Back("byte")
    BY <1>7 DEF rdch, read_line
  <2>4. QED
    BY <2>1, <2>2, <2>3 DEF check_stop, Back
<1>8. CASE swi
  BY <1>8 DEF swi, check_stop, Back, End, console
<1>9. CASE CallStreams
  BY <1>9 DEF CallStreams, control, console
<1>10. CASE bcpl_arena_enter
  BY <1>10 DEF bcpl_arena_enter, End, control, console
<1>11. CASE bcpl_arena_free \/ cons_alloc
  BY <1>11 DEF bcpl_arena_free, cons_alloc, control, console
<1>12. CASE Ends
  BY <1>12 DEF Ends, End, console
<1>13. CASE UNCHANGED vars
  BY <1>13 DEF vars, console, control
<1>14. QED
  BY <1>1, <1>2, <1>3, <1>4, <1>5, <1>6, <1>7, <1>8, <1>9, <1>10, <1>11, <1>12, <1>13 DEF Next

(* Neither streams, typed bytes, an end of input, code nor a pending Escape *)
(* of one run reaches the next, and all state keeps its type: reset_run and *)
(* the engine's disposal in bcpl_box_end_run and bcpl_box_recover.          *)
THEOREM NothingLeft == Spec => []RunsLeaveNothing
<1>1. StreamsInv /\ ControlTypes /\ MemoryInv /\ EscapeInv /\ CleanBetweenRuns => RunsLeaveNothing
  <2>1. MemoryInv => /\ ARENA_STACK \in Seq({"live", "stale"})
                     /\ CONS_POOL \in {"none", "live", "stale"}
                     /\ held \in SUBSET {"STREAMS", "ARENA", "ARENA_STACK", "CONS_POOL"}
    BY DEF MemoryInv
  <2>2. QED
    BY <2>1 DEF StreamsInv, ControlTypes, EscapeInv, RunTypeOK, RunsLeaveNothing
<1>2. Init => StreamsInv /\ ControlTypes /\ MemoryInv /\ EscapeInv
  <2>1. 0 \in 0 .. MaxLine
    BY RunAssumptions
  <2>2. Init => StreamsInv
    BY StreamsInit_Inv DEF Init
  <2>3. Init => ControlTypes
    BY <2>1 DEF Init, ControlTypes
  <2>4. Init => MemoryInv
    BY DEF Init, MemoryInv
  <2>5. Init => EscapeInv
    BY DEF Init, EscapeInv, StopWasAsked, NoResultYet, EscapeOfThisRun, EscapeAtHooks
  <2>6. QED
    BY <2>2, <2>3, <2>4, <2>5
<1>3. StreamsInv /\ [Next]_vars => StreamsInv'
  BY RunStepStreams, StreamsStep
<1>4. QED
  BY <1>1, <1>2, <1>3, CleanAlways, ControlStep, MemoryStep, EscapeStep, PTL DEF Spec

=============================================================================
