------------------------------ MODULE RuntimeHeap ------------------------------
(****************************************************************************)
(* The memory runtime of a compiled BCPL program (newbcpl-runtime/heap.rs): *)
(* Tier 2, the manual heap behind GETVEC/FREEVEC, and Tier 1, the           *)
(* thread-local stack of bump-allocated arenas that the compiler enters and *)
(* frees around scopes.                                                     *)
(*                                                                          *)
(* Memory is a set of Regions handed out by the system allocator (one call  *)
(* of sys_alloc_zeroed returns one region, and a freed region may be handed *)
(* out again).  An address is a region and a byte offset in it; sizes are   *)
(* in bytes.  The program may pass any pointer it ever got to any           *)
(* operation.  The magic tag words are assumed not to occur as program data.*)
(****************************************************************************)
EXTENDS Integers, Sequences, FiniteSets, FiniteSetsExt

CONSTANTS
  Region,        \* the regions the system allocator can hand out
  NoRegion,      \* the region of the null pointer
  Pointer,       \* the program's pointers: one per allocation it makes
  FIRST_CHUNK,   \* capacity of an arena's first chunk (1024 in the code)
  DEFAULT_CHUNK, \* capacity of a later chunk (64 KB in the code)
  Payload,       \* the payload sizes, in bytes, that the program asks for
  MaxArenas      \* bound: depth of the arena stack

ASSUME ChunkAssumption   == FIRST_CHUNK \in Nat /\ DEFAULT_CHUNK \in Nat
ASSUME PayloadAssumption == Payload \subseteq Nat
ASSUME NullAssumption    == NoRegion \notin Region

VARIABLES
  use,      \* what each region is: free, one heap block, or an arena's chunk
  headers,  \* the block headers standing in memory, freed memory included
  stack,    \* ARENA_STACK: a sequence of arenas, each a sequence of chunks
  blocks,   \* what each pointer was handed out as, and the scope it lives in
  count,    \* the block counters of HEAP_COUNTERS
  bytes,    \* the byte counters of HEAP_COUNTERS
  lastFree  \* history: the last FREEVEC's argument and the pointers it killed

vars == <<use, headers, stack, blocks, count, bytes, lastFree>>

HEADER_SIZE == 16
BLOCK_ALIGN == 16

Dead == -1       \* the scope of a block whose memory was given back
Heap == 0        \* the scope of a block on the manual heap;
                 \* a scope i > 0 is the arena at position i of the stack

Null == [region |-> NoRegion, off |-> 0, total |-> 0, scope |-> Dead]

Chunk  == [region : Region, cap : Nat, used : Nat]
Header == [region : Region, off : Nat, tag : {"HEAP", "ARENA"}, size : Nat]
Block  == [region : Region, off : Nat, total : Nat, scope : Int] \cup {Null}
Counts == [live : Int, alloc : Int, free : Int]
Bytes  == [live : Int, peak : Int, alloc : Int, free : Int]

LargerOf(m, n)  == IF m >= n THEN m ELSE n
SmallerOf(m, n) == IF m <= n THEN m ELSE n

unrounded(n) == n
round_up(n) == ((n + (BLOCK_ALIGN - 1)) \div BLOCK_ALIGN) * BLOCK_ALIGN

(* Header and payload of a request; an empty request still gets a payload.  *)
BlockBytes(size) == HEADER_SIZE + round_up(LargerOf(size, 1))

Quiet == lastFree' = [arg |-> Null, killed |-> {}]

----------------------------------------------------------------------------
(* HEAP_COUNTERS *)

bump_counters_alloc(total) ==
  /\ count' = [live |-> count.live + 1, alloc |-> count.alloc + 1, free |-> count.free]
  /\ bytes' = [bytes EXCEPT !.alloc = @ + total, !.live = @ + total,
                            !.peak = LargerOf(bytes.live + total, @)]

bump_counters_free(total) ==
  /\ count' = [live  |-> IF count.live > 0 THEN count.live - 1 ELSE count.live,
               alloc |-> count.alloc,
               free  |-> count.free + 1]
  /\ bytes' = [bytes EXCEPT !.free = @ + total, !.live = @ - SmallerOf(total, @)]

(* A new chunk is charged with the block that asked for it.                 *)
ChunkMade(total) ==
  bytes' = [bytes EXCEPT !.live = @ + total, !.peak = LargerOf(bytes.live + total, @)]

BytesUsed(chunks) == MapThenSumSet(LAMBDA c : c.used, chunks)

(* Each dropped chunk subtracts its used bytes and saturates at 0, so       *)
(* dropping several does the same with their sum.                           *)
ChunksUncounted(chunks) ==
  bytes' = [bytes EXCEPT !.live = @ - BytesUsed(chunks)]

ChunksDropped(chunks) ==
  bytes' = [bytes EXCEPT !.live = @ - SmallerOf(BytesUsed(chunks), @)]

----------------------------------------------------------------------------
(* The manual heap *)

HasTag(r, off, tag) ==
  \E h \in headers : h.region = r /\ h.off = off /\ h.tag = tag

is_heap_block(p) == HasTag(blocks[p].region, blocks[p].off, "HEAP")

(* Memory from the system is zeroed: no header stands in it.                *)
Zeroed(r) == {h \in headers : h.region # r}

NewHeader(r, off, tag, total) ==
  [region |-> r, off |-> off, tag |-> tag, size |-> total]

HandOut(p, r, off, total, scope) ==
  /\ blocks[p] = Null
  /\ blocks' = [blocks EXCEPT
       ![p] = [region |-> r, off |-> off, total |-> total, scope |-> scope]]

bcpl_heap_alloc(p, size) ==
  \E r \in Region :
    /\ use[r] = "free"
    /\ use' = [use EXCEPT ![r] = "heap"]
    /\ headers' = Zeroed(r) \cup {NewHeader(r, 0, "HEAP", BlockBytes(size))}
    /\ HandOut(p, r, 0, BlockBytes(size), Heap)
    /\ bump_counters_alloc(BlockBytes(size))
    /\ Quiet
    /\ UNCHANGED stack

Live(p) == blocks[p].scope # Dead

(* The blocks that memory in these regions backs: they die with it.         *)
LiveIn(regions) == {q \in Pointer : Live(q) /\ blocks[q].region \in regions}

Kill(dying) ==
  blocks' = [q \in Pointer |-> IF q \in dying THEN [blocks[q] EXCEPT !.scope = Dead]
                                              ELSE blocks[q]]

(* The tag is overwritten with 0 before the memory goes back to the system. *)
Unpoisoned(h) == headers
Poisoned(h)   == headers \ {h}

Release(p, h) ==
  /\ h.size >= HEADER_SIZE + BLOCK_ALIGN
  /\ headers' = Poisoned(h)
  /\ use' = [use EXCEPT ![h.region] = "free"]
  /\ Kill(LiveIn({h.region}))
  /\ bump_counters_free(h.size)
  /\ lastFree' = [arg |-> blocks[p], killed |-> LiveIn({h.region})]
  /\ UNCHANGED stack

Ignore(p) ==
  /\ ~ is_heap_block(p)
  /\ lastFree' = [arg |-> blocks[p], killed |-> {}]
  /\ UNCHANGED <<use, headers, stack, blocks, count, bytes>>

(* FREEVEC of any pointer the program holds: null, a heap block, an arena   *)
(* block, or one whose block is gone.  Only a block with the heap's tag is  *)
(* released.  (__newbcpl_freevec gets a vector and looks for the header     *)
(* under its length word, which is where this one stands.)                  *)
bcpl_heap_free_untagged(p) ==
  \/ \E h \in headers :
       h.region = blocks[p].region /\ h.off = blocks[p].off /\ Release(p, h)
  \/ Ignore(p)

bcpl_heap_free(p) ==
  \/ \E h \in headers :
       /\ h.region = blocks[p].region /\ h.off = blocks[p].off /\ h.tag = "HEAP"
       /\ Release(p, h)
  \/ Ignore(p)

----------------------------------------------------------------------------
(* The arena stack.  A handle is an arena's index counted from 0.           *)

Top  == stack[Len(stack)]
Last == Top[Len(Top)]

(* The block goes behind the last chunk's rounded fill mark when it fits.   *)
PayloadFits(total) ==
  Top # <<>> /\ round_up(Last.used) + total - HEADER_SIZE <= Last.cap
Fits(total) == Top # <<>> /\ round_up(Last.used) + total <= Last.cap

bcpl_arena_enter ==
  /\ Len(stack) < MaxArenas
  /\ stack' = Append(stack, <<>>)
  /\ Quiet
  /\ UNCHANGED <<use, headers, blocks, count, bytes>>

ArenaBump(p, total) ==
  LET off == round_up(Last.used) IN
  /\ Fits(total)
  /\ stack' = [stack EXCEPT ![Len(stack)] =
                 [Top EXCEPT ![Len(Top)] = [Last EXCEPT !.used = off + total]]]
  /\ headers' = {h \in headers : h.region # Last.region \/ h.off # off}
                  \cup {NewHeader(Last.region, off, "ARENA", total)}
  /\ HandOut(p, Last.region, off, total, Len(stack))
  /\ Quiet
  /\ UNCHANGED <<use, count, bytes>>

ChunkCap(total) ==
  LargerOf(total, IF Top = <<>> THEN FIRST_CHUNK ELSE DEFAULT_CHUNK)

ArenaGrow(p, total) ==
  /\ ~ Fits(total)
  /\ \E r \in Region :
       /\ use[r] = "free"
       /\ use' = [use EXCEPT ![r] = "chunk"]
       /\ stack' = [stack EXCEPT ![Len(stack)] =
            Append(Top, [region |-> r, cap |-> ChunkCap(total), used |-> total])]
       /\ headers' = Zeroed(r) \cup {NewHeader(r, 0, "ARENA", total)}
       /\ HandOut(p, r, 0, total, Len(stack))
  /\ ChunkMade(total)
  /\ Quiet
  /\ UNCHANGED count

(* With no arena entered the request falls back to the manual heap.         *)
alloc_rec_arena(p, size) ==
  \/ stack # <<>> /\ ArenaBump(p, BlockBytes(size))
  \/ stack # <<>> /\ ArenaGrow(p, BlockBytes(size))
  \/ stack = <<>> /\ bcpl_heap_alloc(p, round_up(LargerOf(size, 1)))

AllChunks(a, from) == {stack[a][k] : k \in DOMAIN stack[a]}
ChunksOf(a, from)  == {stack[a][k] : k \in from .. Len(stack[a])}

TopArena(h)   == AllChunks(Len(stack), 1)
ArenasFrom(h) == UNION {ChunksOf(a, 1) : a \in (h + 1) .. Len(stack)}

RegionsOf(chunks) == {c.region : c \in chunks}

Drop(chunks) ==
  /\ use' = [r \in Region |-> IF r \in RegionsOf(chunks) THEN "free" ELSE use[r]]
  /\ ChunksDropped(chunks)

(* Frees every arena from the handle up, for an exit that skipped the inner *)
(* frees; a handle that is not on the stack is ignored.                     *)
bcpl_arena_free(h) ==
  \/ /\ 0 <= h /\ h < Len(stack)
     /\ Drop(ArenasFrom(h))
     /\ stack' = SubSeq(stack, 1, h)
     /\ Kill(LiveIn(RegionsOf(ArenasFrom(h))))
     /\ Quiet
     /\ UNCHANGED <<headers, count>>
  \/ /\ h < 0 \/ h >= Len(stack)
     /\ UNCHANGED vars

(* The arena at position a after a reset: its first chunk, rewound.         *)
Rewound(a) == [k \in 1 .. SmallerOf(1, Len(stack[a])) |-> [stack[a][k] EXCEPT !.used = 0]]

bcpl_arena_reset(h) ==
  \/ /\ 0 <= h /\ h < Len(stack)
     /\ Drop(ChunksOf(h + 1, 2))
     /\ stack' = [stack EXCEPT ![h + 1] = Rewound(h + 1)]
     /\ Kill(LiveIn(RegionsOf(ChunksOf(h + 1, 1))))
     /\ Quiet
     /\ UNCHANGED <<headers, count>>
  \/ /\ h < 0 \/ h >= Len(stack)
     /\ UNCHANGED vars

(* A copy on the heap of a live block that is not there yet; a block that   *)
(* is on the heap, and null, come back unchanged.                           *)
bcpl_promote(p, q, size) ==
  \/ blocks[p].scope > Heap /\ ~ is_heap_block(p) /\ bcpl_heap_alloc(q, size)
  \/ (blocks[p] = Null \/ is_heap_block(p)) /\ UNCHANGED vars

----------------------------------------------------------------------------
Init ==
  /\ use = [r \in Region |-> "free"]
  /\ headers = {}
  /\ stack = <<>>
  /\ blocks = [p \in Pointer |-> Null]
  /\ count = [live |-> 0, alloc |-> 0, free |-> 0]
  /\ bytes = [live |-> 0, peak |-> 0, alloc |-> 0, free |-> 0]
  /\ lastFree = [arg |-> Null, killed |-> {}]

Handles == -1 .. MaxArenas

Next ==
  \/ \E p \in Pointer, size \in Payload : bcpl_heap_alloc(p, size)
  \/ \E p \in Pointer : bcpl_heap_free(p)
  \/ bcpl_arena_enter
  \/ \E p \in Pointer, size \in Payload : alloc_rec_arena(p, size)
  \/ \E h \in Handles : bcpl_arena_free(h)
  \/ \E h \in Handles : bcpl_arena_reset(h)
  \/ \E p, q \in Pointer, size \in Payload : bcpl_promote(p, q, size)

Spec == Init /\ [][Next]_vars

----------------------------------------------------------------------------
(* Properties *)

(* Every variable keeps its type, and headers stand on 16-byte boundaries,  *)
(* which is_heap_block relies on (heap.rs 129).                             *)
TypeOK ==
  /\ use \in [Region -> {"free", "heap", "chunk"}]
  /\ headers \subseteq Header
  /\ \A h \in headers : h.off % BLOCK_ALIGN = 0
  /\ stack \in Seq(Seq(Chunk))
  /\ blocks \in [Pointer -> Block]
  /\ count \in Counts
  /\ lastFree \in [arg : Block, killed : SUBSET Pointer]

(* The unsigned live byte counter never wraps below zero, although dropped  *)
(* arenas subtract bytes they never added, and never passes the peak.       *)
ByteCounterNeverWraps == bytes \in Bytes /\ 0 <= bytes.live /\ bytes.live <= bytes.peak

Overlap(b, c) ==
  /\ b.region = c.region
  /\ b.off < c.off + c.total
  /\ c.off < b.off + b.total

(* No two blocks the program may still use share a byte, whatever mixture   *)
(* of heap, bump, grown, rewound and reused memory they came from.          *)
LiveBlocksDisjoint ==
  \A p, q \in Pointer : p # q /\ Live(p) /\ Live(q) => ~ Overlap(blocks[p], blocks[q])

OwnHeapRegion(b) == b.scope = Heap /\ use[b.region] = "heap" /\ b.off = 0

InsideChunk(b, c) ==
  c.region = b.region /\ b.off + b.total <= c.used /\ c.used <= c.cap

InsideArena(b) ==
  /\ b.scope \in 1 .. Len(stack)
  /\ use[b.region] = "chunk"
  /\ \E k \in 1 .. Len(stack[b.scope]) : InsideChunk(b, stack[b.scope][k])

(* A live block lies in memory its tier owns: a heap region of its own, or  *)
(* below the fill mark of a chunk of the arena of its scope.                *)
LiveBlocksBacked ==
  \A p \in Pointer : Live(p) => OwnHeapRegion(blocks[p]) \/ InsideArena(blocks[p])

(* Provenance: a live block carries the heap's tag exactly when it is on the *)
(* heap, and no freed region and no chunk holds that tag, so a FREEVEC can   *)
(* tell a heap block from everything else (heap.rs 54-59).                   *)
TagsTellProvenance ==
  /\ \A p \in Pointer : Live(p) => (is_heap_block(p) <=> blocks[p].scope = Heap)
  /\ \A h \in headers : h.tag = "HEAP" => h.off = 0 /\ use[h.region] = "heap"

(* No memory is lost: a heap region still has its one live block, and a      *)
(* chunk is on the arena stack, so a scope exit reaches it.                  *)
NoLostMemory ==
  \A r \in Region :
    /\ use[r] = "heap" => Cardinality(LiveIn({r})) = 1
    /\ use[r] = "chunk" =>
         \E a \in 1 .. Len(stack) : \E k \in 1 .. Len(stack[a]) :
           stack[a][k].region = r

(* The block counters balance over any mixture of frees, double frees and    *)
(* frees of arena blocks (heap.rs 88: "never underflow if a foreign/double   *)
(* free slips through").                                                     *)
CountsExact ==
  /\ count.live = Cardinality({p \in Pointer : blocks[p].scope = Heap})
  /\ count.alloc - count.free = count.live

(* Every counter that HEAP_INFO prints.                                      *)
CountersRight == CountsExact /\ ByteCounterNeverWraps

(* A FREEVEC through a live pointer releases the block of that pointer if it *)
(* is on the heap, and nothing if it is in an arena.  Through a pointer      *)
(* whose block is gone it is no no-op, as heap.rs 152-155 has it: it may     *)
(* release the one block that got the memory since.                          *)
FreeReleasesOne ==
  /\ lastFree.arg.scope = Heap => Cardinality(lastFree.killed) = 1
  /\ lastFree.arg.scope > Heap => lastFree.killed = {}
  /\ Cardinality(lastFree.killed) <= 1

(* Every region that was obtained is still reached by a block or by a scope  *)
(* exit, is given up one block at a time, and the counters say so.           *)
NothingUnaccounted == NoLostMemory /\ FreeReleasesOne /\ CountersRight

(* The runtime keeps what ScopedStore promises.                              *)
Store == INSTANCE ScopedStore WITH
  Id     <- Pointer,
  scopes <- [i \in 1 .. Len(stack) |-> {p \in Pointer : blocks[p].scope = i}],
  heap   <- {p \in Pointer : blocks[p].scope = Heap},
  dead   <- {p \in Pointer : blocks[p] # Null /\ blocks[p].scope = Dead}

StoreSpec == Store!Spec

=============================================================================
