------------------------------- MODULE BoxStreams -------------------------------
(****************************************************************************)
(* The classic BCPL streams of a program in the box (rosbox.rs, riscos.rs): *)
(* numbered streams over RISC OS files, each with one buffer in the run's   *)
(* dynamic area, and the selected input and output.                         *)
(*                                                                          *)
(* RISC OS is external: OS_Find hands out handles, OS_GBPB moves bytes at a *)
(* handle's pointer, OS_Args sets it, and each may fail.  A byte a program  *)
(* writes is its number among the bytes written to that handle; a byte of a *)
(* file that is read, or was there before an append, is its place.          *)
(****************************************************************************)
EXTENDS Integers, Sequences, FiniteSets, SequencesExt

CONSTANTS
  BUF,          \* size of a stream's buffer
  FileLength,   \* external: the length of an existing file
  SwiFails,     \* external: whether OS_GBPB may fail
  ArgsFails,    \* external: whether OS_Args may fail
  WriteSizes,   \* lengths of the byte strings a program writes
  MaxHandles,   \* bound: handles open at once
  MaxWritten    \* bound: bytes written to a handle

ASSUME StreamAssumptions ==
  /\ BUF \in Nat \ {0} /\ FileLength \in Nat
  /\ SwiFails \in BOOLEAN /\ ArgsFails \in BOOLEAN
  /\ WriteSizes \subseteq Nat \ {0}
  /\ MaxHandles \in Nat /\ MaxWritten \in Nat

VARIABLES
  files,    \* the streams from number FIRST_FILE on; NoStream is a free slot
  input,    \* the number of the selected input
  output,   \* the number of the selected output
  buffers,  \* how many stream buffers are taken in the dynamic area
  os        \* external: what RISC OS and the program know of each handle

svars == <<files, input, output, buffers, os>>

CONSOLE_INPUT  == 1
CONSOLE_OUTPUT == 2
FIRST_FILE     == 3

Handle == 1 .. MaxHandles
NewStream(h, writing) ==
  [handle |-> h, writing |-> writing, buf |-> <<>>, pos |-> 0, eof |-> FALSE]
NoStream == NewStream(0, FALSE)
IsStream(n) == n >= FIRST_FILE /\ n - FIRST_FILE + 1 \in DOMAIN files
               /\ files[n - FIRST_FILE + 1] # NoStream
Index(n) == n - FIRST_FILE + 1
StreamOf(n) == files[Index(n)]

(* Of a handle: its state, the file's bytes and pointer, and the history of *)
(* what the program wrote (a count), was given, saw end, or what failed.    *)
FreshHandle(state, data, ptr, old) ==
  [state |-> state, data |-> data, ptr |-> ptr, old |-> old,
   written |-> 0, got |-> <<>>, ended |-> FALSE, failed |-> FALSE]
Unused == FreshHandle("unused", <<>>, 0, 0)
OldData == [i \in 1 .. FileLength |-> i]

StreamsInit ==
  /\ files = <<>> /\ input = CONSOLE_INPUT /\ output = CONSOLE_OUTPUT
  /\ buffers = 0 /\ os = [h \in Handle |-> Unused]

----------------------------------------------------------------------------
(* RosStream: a stream and its handle go together through each call, and a  *)
(* call has as many outcomes as the SWIs in it.                             *)

Pair(s, o) == [stream |-> s, os |-> o]

PutAt(data, ptr, bytes) ==
  SubSeq(data, 1, ptr) \o bytes \o SubSeq(data, ptr + Len(bytes) + 1, Len(data))

(* The buffer is emptied whether the SWI took the bytes or not.             *)
Taken(p) == [p EXCEPT !.stream.buf = <<>>, !.os.ptr = @ + Len(p.stream.buf),
                      !.os.data = PutAt(@, p.os.ptr, p.stream.buf)]
Refused(p) == [p EXCEPT !.stream.buf = <<>>, !.os.failed = TRUE]
Gbpb == IF SwiFails THEN BOOLEAN ELSE {TRUE}  \* whether a transfer succeeds

flush(p, ok) ==
  IF ~ p.stream.writing \/ p.stream.buf = <<>> THEN p
  ELSE IF ok THEN Taken(p) ELSE Refused(p)

NextBytes(p, n) == [i \in 1 .. n |-> FileLength + p.os.written + i]

WriteChunk_over(p, n) ==
  {[q EXCEPT !.stream.buf = @ \o NextBytes(q, n), !.os.written = @ + n] :
     q \in IF Len(p.stream.buf) > BUF THEN {flush(p, ok) : ok \in Gbpb} ELSE {p}}

WriteChunk(p, n) ==
  {[q EXCEPT !.stream.buf = @ \o NextBytes(q, n), !.os.written = @ + n] :
     q \in IF Len(p.stream.buf) + n > BUF THEN {flush(p, ok) : ok \in Gbpb} ELSE {p}}

(* b.chunks(BUF): whole buffers, then the rest. *)
WholeChunks(p, m) ==
  LET after[k \in Nat] ==
        IF k = 0 THEN {p} ELSE UNION {WriteChunk(q, BUF) : q \in after[k - 1]}
  IN after[m]

write(p, n) ==
  LET whole == WholeChunks(p, n \div BUF)
  IN IF n % BUF = 0 THEN whole ELSE UNION {WriteChunk(q, n % BUF) : q \in whole}

EndSeen(p) == [p EXCEPT !.os.ended = TRUE]

TakeByte(p) ==
  [p EXCEPT !.stream.pos = @ + 1, !.os.got = Append(@, p.stream.buf[p.stream.pos + 1])]

(* A full buffer is asked for; a short one is the last. *)
Filled(p) ==
  LET left == FileLength - p.os.ptr
      n    == IF left < BUF THEN left ELSE BUF
  IN [p EXCEPT !.stream.buf = SubSeq(p.os.data, p.os.ptr + 1, p.os.ptr + n),
               !.stream.pos = 0, !.stream.eof = n < BUF, !.os.ptr = @ + n]

Failed(p) == EndSeen([p EXCEPT !.stream.eof = TRUE, !.os.failed = TRUE])

Refill(p) ==
  LET full == Filled(p)
  IN {IF ~ ok THEN Failed(p) ELSE IF full.stream.buf = <<>> THEN EndSeen(full)
                             ELSE TakeByte(full) : ok \in Gbpb}

refill_once(p) ==
  IF p.stream.writing THEN {p}
  ELSE IF p.stream.pos < Len(p.stream.buf) THEN {TakeByte(p)}
  ELSE IF p.stream.buf # <<>> THEN {EndSeen(p)}
  ELSE Refill(p)

read_byte(p) ==
  IF p.stream.writing THEN {p}
  ELSE IF p.stream.pos < Len(p.stream.buf) THEN {TakeByte(p)}
  ELSE IF p.stream.eof THEN {EndSeen(p)}
  ELSE Refill(p)

drop_unflushed(p, ok) == [p.os EXCEPT !.state = "closed"]

close(p, ok) == [flush(p, ok).os EXCEPT !.state = "closed"]

----------------------------------------------------------------------------
(* The program's calls *)

PairOf(n) == Pair(StreamOf(n), os[StreamOf(n).handle])

(* Stream n after a call with outcome p. *)
Becomes(n, p) ==
  /\ files' = [files EXCEPT ![Index(n)] = p.stream]
  /\ os' = [os EXCEPT ![p.stream.handle] = p.os]

Created  == FreshHandle("open", <<>>, 0, 0)
Existing == FreshHandle("open", OldData, 0, 0)
AtEnd    == FreshHandle("open", OldData, FileLength, FileLength)
NotAtEnd == FreshHandle("open", OldData, 0, FileLength)

(* Append goes to the end of a file that is there, if OS_Args can find the  *)
(* end and set it, and makes one that is not.                               *)
Opened(how) ==
  CASE how = "r" -> {Existing}
    [] how = "w" -> {Created}
    [] how = "a" -> {Created, AtEnd} \cup (IF ArgsFails THEN {NotAtEnd} ELSE {})

Free(fs) == {i \in DOMAIN fs : fs[i] = NoStream}
Place(s) ==
  IF Free(files) = {} THEN Append(files, s)
  ELSE [files EXCEPT ![CHOOSE i \in Free(files) : \A j \in Free(files) : i <= j] = s]

(* A handle that was closed may be given again. *)
NextHandle == {h \in Handle : /\ os[h].state # "open"
                              /\ \A g \in Handle : g < h => os[g].state = "open"}

(* When OS_Find fails, the buffer that held the name is given back.         *)
open(how) ==
  \/ \E h \in NextHandle, o \in Opened(how) :
       /\ os' = [os EXCEPT ![h] = o]
       /\ files' = Place(NewStream(h, how # "r"))
       /\ buffers' = buffers + 1
       /\ UNCHANGED <<input, output>>
  \/ UNCHANGED svars

valid(n, writing) ==
  IF n >= FIRST_FILE THEN IsStream(n) /\ StreamOf(n).writing = writing
  ELSE n = IF writing THEN CONSOLE_OUTPUT ELSE CONSOLE_INPUT

Numbers == 0 .. Len(files) + FIRST_FILE

select_input(n) ==
  /\ input' = IF valid(n, FALSE) THEN n ELSE input
  /\ UNCHANGED <<files, output, buffers, os>>

select_output(n) ==
  /\ output' = IF valid(n, TRUE) THEN n ELSE output
  /\ UNCHANGED <<files, input, buffers, os>>

(* What write_bytes does when its bytes go to a file, and when they do not. *)
write_file(n) ==
  /\ IsStream(output)
  /\ os[StreamOf(output).handle].written + n <= MaxWritten
  /\ \E p \in write(PairOf(output), n) : Becomes(output, p)
  /\ UNCHANGED <<input, output, buffers>>

read_file ==
  /\ input >= FIRST_FILE
  /\ \/ IsStream(input) /\ \E p \in read_byte(PairOf(input)) : Becomes(input, p)
     \/ ~ IsStream(input) /\ UNCHANGED <<files, os>>
  /\ UNCHANGED <<input, output, buffers>>

CloseSlot(n) ==
  IF IsStream(n)
  THEN /\ \E ok \in Gbpb :
            os' = [os EXCEPT ![StreamOf(n).handle] = close(PairOf(n), ok)]
       /\ files' = [files EXCEPT ![Index(n)] = NoStream]
       /\ buffers' = buffers - 1
  ELSE UNCHANGED <<files, os, buffers>>

end_stream_selected(n) ==
  IF n >= FIRST_FILE THEN CloseSlot(n) /\ UNCHANGED <<input, output>> ELSE UNCHANGED svars

end_stream(n) ==
  IF n >= FIRST_FILE
  THEN /\ CloseSlot(n)
       /\ input'  = IF input = n THEN CONSOLE_INPUT ELSE input
       /\ output' = IF output = n THEN CONSOLE_OUTPUT ELSE output
  ELSE UNCHANGED svars

InUse == {files[i].handle : i \in DOMAIN files \ Free(files)}
OwnerOf(h) == files[CHOOSE i \in DOMAIN files : files[i].handle = h]

(* The streams' part of close_all; the keyboard's is the run's.             *)
close_all ==
  /\ \E ok \in [Handle -> Gbpb] :
       os' = [h \in Handle |-> IF h \in InUse THEN close(Pair(OwnerOf(h), os[h]), ok[h])
                               ELSE os[h]]
  /\ files' = <<>> /\ input' = CONSOLE_INPUT /\ output' = CONSOLE_OUTPUT
  /\ buffers' = 0

----------------------------------------------------------------------------
(* A program that only uses streams; a write of no bytes changes nothing.   *)

Open         == \E how \in {"r", "w", "a"} : open(how)
SelectInput  == \E n \in Numbers : select_input(n)
SelectOutput == \E n \in Numbers : select_output(n)
EndStream    == \E n \in Numbers : end_stream(n)
WriteFile    == \E n \in WriteSizes : write_file(n)

StreamCall == Open \/ SelectInput \/ SelectOutput \/ EndStream
StreamsNext == StreamCall \/ WriteFile \/ read_file \/ close_all
StreamsSpec == StreamsInit /\ [][StreamsNext]_svars

----------------------------------------------------------------------------
(* Properties of the streams *)

StreamRecord == [handle : 0 .. MaxHandles, writing : BOOLEAN, buf : Seq(Nat),
                 pos : Nat, eof : BOOLEAN]
HandleRecord == [state : {"unused", "open", "closed"}, data : Seq(Nat), ptr : Nat,
                 old : Nat, written : Nat, got : Seq(Nat), ended : BOOLEAN,
                 failed : BOOLEAN]

(* Every stream and handle is a record of its kind, and a reader's next     *)
(* byte is never behind its buffer's end.                                   *)
StreamsTypeOK ==
  /\ files \in Seq(StreamRecord) /\ os \in [Handle -> HandleRecord]
  /\ input \in Nat /\ output \in Nat /\ buffers \in Nat
  /\ \A i \in DOMAIN files : files[i].pos <= Len(files[i].buf) /\ Len(files[i].buf) <= BUF

Streams == {files[i] : i \in DOMAIN files \ Free(files)}

(* The selected input is the keyboard or an open stream that reads, and the *)
(* selected output the screen or an open stream that writes, whatever is    *)
(* closed and whichever numbers are used again.                             *)
SelectionsOpen == valid(input, FALSE) /\ valid(output, TRUE)

(* RISC OS has open exactly the handles that streams own, one each, and the *)
(* dynamic area holds one buffer for each.                                  *)
HandlesOwned ==
  /\ InUse = {h \in Handle : os[h].state = "open"}
  /\ Cardinality(InUse) = Cardinality(DOMAIN files \ Free(files))
  /\ buffers = Cardinality(InUse)

(* The table of streams is well formed and agrees with the selections and   *)
(* with RISC OS.                                                            *)
TableConsistent == StreamsTypeOK /\ SelectionsOpen /\ HandlesOwned

(* Bytes waiting in the stream of a handle. *)
Waiting(h) == IF h \in InUse /\ OwnerOf(h).writing THEN OwnerOf(h).buf ELSE <<>>

(* What was written to a stream is in the file or waits to be, in order and *)
(* once, behind what was there, unless a transfer failed; after a failure   *)
(* bytes are missing but none is out of order.                              *)
WrittenInOrder ==
  \A h \in Handle :
    LET all == os[h].data \o Waiting(h)
    IN os[h].written > 0 =>
         /\ ~ os[h].failed => all = [i \in 1 .. os[h].old |-> i]
                                    \o [i \in 1 .. os[h].written |-> FileLength + i]
         /\ \A i, j \in DOMAIN all : i < j => all[i] < all[j]

(* A reader gets the file's bytes in order with no gap, and -1 only when it *)
(* has had them all or a transfer failed.                                   *)
ReadInOrder ==
  \A h \in Handle :
    /\ os[h].got = [i \in 1 .. Len(os[h].got) |-> i]
    /\ os[h].ended => (os[h].failed \/ Len(os[h].got) = FileLength)

(* No byte is lost, doubled or overtaken on its way through the buffers.    *)
BytesInOrder == WrittenInOrder /\ ReadInOrder

=============================================================================
