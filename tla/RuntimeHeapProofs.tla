--------------------------- MODULE RuntimeHeapProofs ---------------------------
(****************************************************************************)
(* For any regions, pointers, chunk capacities and request sizes the memory *)
(* runtime keeps live blocks apart and backed by memory of their own tier,  *)
(* and keeps the promise of ScopedStore: each operation on bytes, tags and  *)
(* chunks is one operation on scopes and heap, or none.  With it come the   *)
(* accounts: what a FREEVEC releases, that no region is lost, and that the  *)
(* counters of blocks and bytes are right.                                  *)
(****************************************************************************)
EXTENDS RuntimeHeap, SequenceTheorems, Recursion

(* The headers in memory are a map: no two stand at one address.            *)
HeadersUnique ==
  \A g, h \in headers : g.region = h.region /\ g.off = h.off => g = h

(* Every chunk on the stack owns its region and is not overfull ...         *)
ChunksOwned ==
  \A a \in 1 .. Len(stack) : \A k \in 1 .. Len(stack[a]) :
    LET c == stack[a][k] IN use[c.region] = "chunk" /\ c.used <= c.cap

(* ... and no two chunks have one region.                                   *)
ChunksApart ==
  \A a, b \in 1 .. Len(stack) : \A k \in 1 .. Len(stack[a]), l \in 1 .. Len(stack[b]) :
    stack[a][k].region = stack[b][l].region => a = b /\ k = l

(* A live block is somewhere and is not empty.                              *)
LiveBlocksReal ==
  \A p \in Pointer : Live(p) => blocks[p].region \in Region /\ blocks[p].total > 0

(* The inductive invariant.  Disjointness needs to know where live blocks   *)
(* can be (LiveBlocksBacked), that fresh memory is nobody's (ChunksOwned,   *)
(* ChunksApart) and that FREEVEC cannot be fooled (TagsTellProvenance).     *)
IInv ==
  /\ TypeOK
  /\ HeadersUnique
  /\ ChunksOwned
  /\ ChunksApart
  /\ LiveBlocksReal
  /\ LiveBlocksDisjoint
  /\ LiveBlocksBacked
  /\ TagsTellProvenance

----------------------------------------------------------------------------
(* Arithmetic of block sizes *)

(* round_up gives the next multiple of the alignment.                       *)
LEMMA RoundUp ==
  ASSUME NEW n \in Nat
  PROVE  /\ round_up(n) \in Nat
         /\ round_up(n) >= n
         /\ round_up(n) % BLOCK_ALIGN = 0
BY SMT DEF round_up, BLOCK_ALIGN

(* A block holds its header and at least one aligned granule.               *)
LEMMA BlockBytesBound ==
  ASSUME NEW n \in Nat
  PROVE  BlockBytes(n) \in Nat /\ BlockBytes(n) >= HEADER_SIZE + BLOCK_ALIGN
<1> DEFINE m == LargerOf(n, 1)
<1>1. m \in Nat /\ m >= 1
  BY DEF LargerOf
<1>2. round_up(m) \in Nat /\ round_up(m) >= 16
  BY <1>1, SMT DEF round_up, BLOCK_ALIGN
<1>3. QED
  BY <1>2, SMT DEF BlockBytes, HEADER_SIZE, BLOCK_ALIGN

(* The size a request without an arena asks the heap for.                   *)
LEMMA FallbackSize ==
  ASSUME NEW n \in Nat
  PROVE  round_up(LargerOf(n, 1)) \in Nat
<1>1. LargerOf(n, 1) \in Nat
  BY DEF LargerOf
<1>2. QED
  BY <1>1, RoundUp

(* Killing a block changes its scope and nothing else.                      *)
LEMMA KilledBlock ==
  ASSUME NEW b \in Block
  PROVE  /\ [b EXCEPT !.scope = Dead] \in Block
         /\ [b EXCEPT !.scope = Dead].scope = Dead
<1>1. CASE b = Null
  BY <1>1 DEF Null, Block, Dead
<1>2. CASE b \in [region : Region, off : Nat, total : Nat, scope : Int]
  <2>1. [b EXCEPT !.scope = Dead] \in [region : Region, off : Nat, total : Nat, scope : Int]
    BY <1>2 DEF Dead
  <2>2. [b EXCEPT !.scope = Dead].scope = Dead
    BY <1>2
  <2>3. QED
    BY <2>1, <2>2 DEF Block
<1>3. QED
  BY <1>1, <1>2 DEF Block

(* A chunk on the stack is a chunk.                                         *)
LEMMA ChunkType ==
  ASSUME stack \in Seq(Seq(Chunk)), NEW a \in 1 .. Len(stack), NEW k \in 1 .. Len(stack[a])
  PROVE  /\ stack[a] \in Seq(Chunk)
         /\ stack[a][k] \in Chunk
         /\ stack[a][k].region \in Region
         /\ stack[a][k].cap \in Nat
         /\ stack[a][k].used \in Nat
<1>1. stack[a] \in Seq(Chunk)
  OBVIOUS
<1>2. stack[a][k] \in Chunk
  BY <1>1
<1>3. QED
  BY <1>1, <1>2 DEF Chunk

----------------------------------------------------------------------------
(* The initial state *)

(* Nothing is allocated at the start.                                       *)
LEMMA InitIInv == Init => IInv
<1> SUFFICES ASSUME Init PROVE IInv
  OBVIOUS
<1> USE DEF Init
<1>1. TypeOK
  <2>1. Null \in Block
    BY DEF Block
  <2>2. stack \in Seq(Seq(Chunk))
    OBVIOUS
  <2>3. QED
    BY <2>1, <2>2 DEF TypeOK, Counts
<1>2. \A p \in Pointer : ~ Live(p)
  BY DEF Live, Null, Dead
<1>3. Len(stack) = 0
  OBVIOUS
<1>4. HeadersUnique /\ ChunksOwned /\ ChunksApart
  BY <1>3 DEF HeadersUnique, ChunksOwned, ChunksApart
<1>5. LiveBlocksReal /\ LiveBlocksDisjoint /\ LiveBlocksBacked /\ TagsTellProvenance
  BY <1>2 DEF LiveBlocksReal, LiveBlocksDisjoint, LiveBlocksBacked, TagsTellProvenance
<1>6. QED
  BY <1>1, <1>4, <1>5 DEF IInv

----------------------------------------------------------------------------
(* The manual heap's steps *)

(* A heap allocation takes a free region for one block with the heap's tag. *)
LEMMA HeapAllocIInv ==
  ASSUME NEW p \in Pointer, NEW size \in Nat, IInv, bcpl_heap_alloc(p, size)
  PROVE  IInv'
<1> USE NullAssumption
<1> DEFINE n == BlockBytes(size)
<1>n. n \in Nat /\ n >= 32
  BY BlockBytesBound DEF HEADER_SIZE, BLOCK_ALIGN
<1> HIDE DEF n
<1> PICK r \in Region :
      /\ use[r] = "free"
      /\ use' = [use EXCEPT ![r] = "heap"]
      /\ headers' = Zeroed(r) \cup {NewHeader(r, 0, "HEAP", n)}
      /\ HandOut(p, r, 0, n, Heap)
      /\ bump_counters_alloc(n)
      /\ Quiet
      /\ UNCHANGED stack
  BY DEF bcpl_heap_alloc, n
<1> DEFINE b == [region |-> r, off |-> 0, total |-> n, scope |-> Heap]
<1>1. b \in Block /\ b.region = r /\ b.off = 0 /\ b.total = n /\ b.scope = 0 /\ b.scope # Dead
  BY <1>n DEF Block, Heap, Dead
<1>2. blocks' = [blocks EXCEPT ![p] = b] /\ blocks[p] = Null
  BY DEF HandOut
<1> HIDE DEF b
<1>t. TypeOK
  BY DEF IInv
<1>3. blocks'[p] = b /\ \A q \in Pointer : q # p => blocks'[q] = blocks[q]
  BY <1>2, <1>t DEF TypeOK
<1>4. Live(p)' /\ \A q \in Pointer : q # p => (Live(q)' <=> Live(q))
  BY <1>1, <1>3 DEF Live
<1>5. use'[r] = "heap" /\ \A s \in Region : s # r => use'[s] = use[s]
  BY <1>t DEF TypeOK
<1>6. \A h \in headers' : (h \in headers /\ h.region # r) \/ h = NewHeader(r, 0, "HEAP", n)
  BY DEF Zeroed
<1>7. NewHeader(r, 0, "HEAP", n) \in Header /\ NewHeader(r, 0, "HEAP", n) \in headers'
  BY <1>n DEF NewHeader, Header
<1>8. TypeOK'
  <2>1. headers' \subseteq Header /\ \A h \in headers' : h.off % BLOCK_ALIGN = 0
    BY <1>6, <1>7, <1>t DEF TypeOK, NewHeader, BLOCK_ALIGN
  <2>2. blocks' \in [Pointer -> Block]
    BY <1>1, <1>2, <1>t DEF TypeOK
  <2>3. count' \in Counts
    BY <1>t DEF TypeOK, Counts, bump_counters_alloc
  <2>4. lastFree' \in [arg : Block, killed : SUBSET Pointer]
    BY DEF Quiet, Block
  <2>5. QED
    BY <2>1, <2>2, <2>3, <2>4, <1>t DEF TypeOK
<1>9. HeadersUnique'
  BY <1>6, <1>7 DEF IInv, HeadersUnique, NewHeader
<1>10. ChunksOwned'
  <2> SUFFICES ASSUME NEW a \in 1 .. Len(stack), NEW k \in 1 .. Len(stack[a])
               PROVE  use'[stack[a][k].region] = "chunk" /\ stack[a][k].used <= stack[a][k].cap
    BY DEF ChunksOwned
  <2>1. use[stack[a][k].region] = "chunk" /\ stack[a][k].used <= stack[a][k].cap
    BY DEF IInv, ChunksOwned
  <2>2. stack[a][k].region \in Region
    BY <1>t, ChunkType DEF TypeOK
  <2>3. QED
    BY <2>1, <2>2, <1>5
<1>11. ChunksApart'
  BY DEF IInv, ChunksApart
<1>12. LiveBlocksReal'
  BY <1>1, <1>3, <1>4, <1>n DEF IInv, LiveBlocksReal
<1>13. \A q \in Pointer : q # p /\ Live(q) => blocks[q].region # r
  BY <1>t DEF IInv, LiveBlocksBacked, OwnHeapRegion, InsideArena
<1>14. LiveBlocksDisjoint'
  BY <1>1, <1>3, <1>4, <1>13 DEF IInv, LiveBlocksDisjoint, Overlap
<1>15. LiveBlocksBacked'
  <2> SUFFICES ASSUME NEW q \in Pointer, Live(q)'
               PROVE  OwnHeapRegion(blocks[q])' \/ InsideArena(blocks[q])'
    BY DEF LiveBlocksBacked
  <2>1. CASE q = p
    BY <2>1, <1>1, <1>3, <1>5 DEF OwnHeapRegion, Heap
  <2>2. CASE q # p
    <3>1. Live(q) /\ blocks'[q] = blocks[q] /\ blocks[q].region # r /\ blocks[q].region \in Region
      BY <2>2, <1>3, <1>4, <1>13 DEF IInv, LiveBlocksReal
    <3>2. OwnHeapRegion(blocks[q]) \/ InsideArena(blocks[q])
      BY <3>1 DEF IInv, LiveBlocksBacked
    <3>3. QED
      BY <3>1, <3>2, <1>5 DEF OwnHeapRegion, InsideArena
  <2>3. QED
    BY <2>1, <2>2
<1>16. TagsTellProvenance'
  <2>1. \A h \in headers' : h.tag = "HEAP" => h.off = 0 /\ use'[h.region] = "heap"
    BY <1>5, <1>6, <1>t DEF IInv, TagsTellProvenance, TypeOK, Header, NewHeader
  <2>2. is_heap_block(p)' /\ blocks'[p].scope = Heap
    BY <1>1, <1>3, <1>7 DEF is_heap_block, HasTag, NewHeader, Heap
  <2>3. ASSUME NEW q \in Pointer, q # p, Live(q)
        PROVE  is_heap_block(q)' <=> is_heap_block(q)
    BY <2>3, <1>3, <1>6, <1>13 DEF is_heap_block, HasTag, NewHeader, Zeroed
  <2>4. QED
    BY <2>1, <2>2, <2>3, <1>3, <1>4 DEF IInv, TagsTellProvenance
<1>17. QED
  BY <1>8, <1>9, <1>10, <1>11, <1>12, <1>14, <1>15, <1>16 DEF IInv

(* A release gives back a region of the heap, and with it every block the   *)
(* region backed; the arenas keep theirs.                                   *)
LEMMA ReleaseIInv ==
  ASSUME NEW p \in Pointer, NEW h \in headers, IInv, h.tag = "HEAP", Release(p, h)
  PROVE  IInv'
<1> USE NullAssumption
<1> DEFINE r == h.region
<1> DEFINE dying == LiveIn({r})
<1>t. TypeOK
  BY DEF IInv
<1>1. use[r] = "heap" /\ r \in Region /\ h.off = 0
  BY <1>t DEF IInv, TagsTellProvenance, TypeOK, Header
<1>2. use' = [use EXCEPT ![r] = "free"] /\ headers' = headers \ {h} /\ stack' = stack
  BY DEF Release, Poisoned
<1>3. use'[r] = "free" /\ \A s \in Region : s # r => use'[s] = use[s]
  BY <1>1, <1>2, <1>t DEF TypeOK
<1>4. \A q \in Pointer : blocks'[q] = IF q \in dying THEN [blocks[q] EXCEPT !.scope = Dead]
                                                     ELSE blocks[q]
  BY DEF Release, Kill
<1>5. \A q \in Pointer : [blocks[q] EXCEPT !.scope = Dead] \in Block
  BY <1>t, KilledBlock DEF TypeOK
<1>6. \A q \in Pointer : q \in dying => ~ Live(q)'
  <2> SUFFICES ASSUME NEW q \in Pointer, q \in dying PROVE blocks'[q].scope = Dead
    BY DEF Live
  <2>1. blocks'[q] = [blocks[q] EXCEPT !.scope = Dead] /\ blocks[q] \in Block
    BY <1>4, <1>t DEF TypeOK
  <2>2. QED
    BY <2>1, KilledBlock
<1>7. \A q \in Pointer : Live(q)' => Live(q) /\ blocks'[q] = blocks[q] /\ blocks[q].region # r
  BY <1>4, <1>6 DEF Live, LiveIn
<1> HIDE DEF dying
<1>8. TypeOK'
  <2>1. blocks' \in [Pointer -> Block]
    <3>1. \A q \in Pointer : blocks'[q] \in Block
      BY <1>4, <1>5, <1>t DEF TypeOK
    <3>2. QED
      BY <3>1 DEF Release, Kill
  <2>2. count' \in Counts
    BY <1>t DEF TypeOK, Counts, Release, bump_counters_free
  <2>3. lastFree' \in [arg : Block, killed : SUBSET Pointer]
    BY <1>t DEF TypeOK, Release, LiveIn
  <2>4. QED
    BY <2>1, <2>2, <2>3, <1>2, <1>t DEF TypeOK
<1>9. HeadersUnique'
  BY <1>2 DEF IInv, HeadersUnique
<1>10. ChunksOwned'
  <2> SUFFICES ASSUME NEW a \in 1 .. Len(stack), NEW k \in 1 .. Len(stack[a])
               PROVE  use'[stack[a][k].region] = "chunk" /\ stack[a][k].used <= stack[a][k].cap
    BY <1>2 DEF ChunksOwned
  <2>1. use[stack[a][k].region] = "chunk" /\ stack[a][k].used <= stack[a][k].cap
    BY DEF IInv, ChunksOwned
  <2>2. QED
    BY <2>1, <1>1, <1>3, <1>t, ChunkType DEF TypeOK
<1>11. ChunksApart'
  BY <1>2 DEF IInv, ChunksApart
<1>12. LiveBlocksReal' /\ LiveBlocksDisjoint'
  BY <1>7 DEF IInv, LiveBlocksReal, LiveBlocksDisjoint
<1>13. LiveBlocksBacked'
  <2> SUFFICES ASSUME NEW q \in Pointer, Live(q)'
               PROVE  OwnHeapRegion(blocks[q])' \/ InsideArena(blocks[q])'
    BY DEF LiveBlocksBacked
  <2>1. blocks'[q] = blocks[q] /\ blocks[q].region # r /\ blocks[q].region \in Region
    BY <1>7 DEF IInv, LiveBlocksReal
  <2>2. OwnHeapRegion(blocks[q]) \/ InsideArena(blocks[q])
    BY <1>7 DEF IInv, LiveBlocksBacked
  <2>3. QED
    BY <2>1, <2>2, <1>2, <1>3 DEF OwnHeapRegion, InsideArena
<1>14. TagsTellProvenance'
  <2>1. \A g \in headers' : g.tag = "HEAP" => g.off = 0 /\ use'[g.region] = "heap"
    <3> SUFFICES ASSUME NEW g \in headers', g.tag = "HEAP"
                 PROVE  g.off = 0 /\ use'[g.region] = "heap"
      OBVIOUS
    <3>1. g \in headers /\ g # h /\ g.off = 0 /\ use[g.region] = "heap" /\ g.region \in Region
      BY <1>2, <1>t DEF IInv, TagsTellProvenance, TypeOK, Header
    <3>2. g.region # r
      BY <3>1, <1>1 DEF IInv, HeadersUnique
    <3>3. QED
      BY <3>1, <3>2, <1>3
  <2>2. \A q \in Pointer : Live(q)' => (is_heap_block(q)' <=> is_heap_block(q))
    BY <1>2, <1>7 DEF is_heap_block, HasTag
  <2>3. QED
    BY <2>1, <2>2, <1>7 DEF IInv, TagsTellProvenance
<1>15. QED
  BY <1>8, <1>9, <1>10, <1>11, <1>12, <1>13, <1>14 DEF IInv

(* FREEVEC keeps the invariant for whatever pointer it is given.            *)
LEMMA HeapFreeIInv ==
  ASSUME NEW p \in Pointer, IInv, bcpl_heap_free(p)
  PROVE  IInv'
<1>1. CASE Ignore(p)
  <2>1. lastFree' \in [arg : Block, killed : SUBSET Pointer]
    BY <1>1 DEF Ignore, IInv, TypeOK
  <2>2. QED
    BY <2>1, <1>1 DEF Ignore, IInv, TypeOK, HeadersUnique, ChunksOwned, ChunksApart,
       LiveBlocksReal, LiveBlocksDisjoint, LiveBlocksBacked, TagsTellProvenance, Live,
       OwnHeapRegion, InsideArena,
       is_heap_block, HasTag
<1>2. CASE \E h \in headers : h.tag = "HEAP" /\ Release(p, h)
  BY <1>2, ReleaseIInv
<1>3. QED
  BY <1>1, <1>2 DEF bcpl_heap_free

----------------------------------------------------------------------------
(* The arena stack's steps *)

(* A new arena has no chunks.                                               *)
LEMMA ArenaEnterIInv ==
  ASSUME IInv, bcpl_arena_enter
  PROVE  IInv'
<1>t. TypeOK
  BY DEF IInv
<1>1. /\ stack' = Append(stack, <<>>)
      /\ use' = use /\ headers' = headers /\ blocks' = blocks /\ count' = count
      /\ lastFree' \in [arg : Block, killed : SUBSET Pointer]
  BY DEF bcpl_arena_enter, Quiet, Block
<1>2. /\ stack' \in Seq(Seq(Chunk))
      /\ Len(stack') = Len(stack) + 1
      /\ \A a \in 1 .. Len(stack) : stack'[a] = stack[a]
      /\ stack'[Len(stack) + 1] = <<>>
  <2>1. <<>> \in Seq(Chunk)
    OBVIOUS
  <2>2. QED
    BY <2>1, <1>1, <1>t DEF TypeOK
<1>3. Len(stack) \in Nat
  BY <1>t DEF TypeOK
<1>4. \A a \in 1 .. Len(stack') : \A k \in 1 .. Len(stack'[a]) :
        a \in 1 .. Len(stack) /\ k \in 1 .. Len(stack[a]) /\ stack'[a][k] = stack[a][k]
  BY <1>2, <1>3
<1>5. TypeOK' /\ HeadersUnique' /\ LiveBlocksReal' /\ LiveBlocksDisjoint' /\ TagsTellProvenance'
  BY <1>1, <1>2 DEF IInv, TypeOK, HeadersUnique, LiveBlocksReal, LiveBlocksDisjoint,
     TagsTellProvenance, Live, is_heap_block, HasTag
<1>6. ChunksOwned' /\ ChunksApart'
  BY <1>1, <1>4 DEF IInv, ChunksOwned, ChunksApart
<1>7. LiveBlocksBacked'
  <2> SUFFICES ASSUME NEW q \in Pointer, Live(q)
               PROVE  OwnHeapRegion(blocks[q])' \/ InsideArena(blocks[q])'
    BY <1>1 DEF LiveBlocksBacked, Live
  <2>1. OwnHeapRegion(blocks[q]) \/ InsideArena(blocks[q])
    BY DEF IInv, LiveBlocksBacked
  <2>2. QED
    BY <2>1, <1>1, <1>2, <1>3 DEF OwnHeapRegion, InsideArena
<1>8. QED
  BY <1>5, <1>6, <1>7 DEF IInv

(* Replacing one element of one of a sequence of sequences.                 *)
LEMMA ElementReplaced ==
  ASSUME NEW S, NEW s \in Seq(Seq(S)), NEW n \in 1 .. Len(s), NEW m \in 1 .. Len(s[n]),
         NEW c \in S, NEW t, t = [s EXCEPT ![n] = [s[n] EXCEPT ![m] = c]]
  PROVE  /\ t \in Seq(Seq(S))
         /\ Len(t) = Len(s)
         /\ \A a \in 1 .. Len(s) : Len(t[a]) = Len(s[a])
         /\ \A a \in 1 .. Len(s) : \A k \in 1 .. Len(s[a]) :
              t[a][k] = IF a = n /\ k = m THEN c ELSE s[a][k]
<1>1. s[n] \in Seq(S)
  OBVIOUS
<1>2. [s[n] EXCEPT ![m] = c] \in Seq(S) /\ Len([s[n] EXCEPT ![m] = c]) = Len(s[n])
  BY <1>1
<1>3. t \in Seq(Seq(S)) /\ Len(t) = Len(s)
  BY <1>2
<1> DEFINE d == [s[n] EXCEPT ![m] = c]
<1>d. t = [s EXCEPT ![n] = d] /\ s \in [1 .. Len(s) -> Seq(S)]
  OBVIOUS
<1>4. t[n] = d /\ \A a \in 1 .. Len(s) : a # n => t[a] = s[a]
  <2> HIDE DEF d
  <2>1. QED
    BY <1>d
<1>5. \A k \in 1 .. Len(s[n]) : [s[n] EXCEPT ![m] = c][k] = IF k = m THEN c ELSE s[n][k]
  BY <1>1
<1>6. QED
  BY <1>2, <1>3, <1>4, <1>5

(* A bumped block lies above everything the arena's last chunk held.        *)
LEMMA ArenaBumpIInv ==
  ASSUME NEW p \in Pointer, NEW total \in Nat, total > 0, IInv, stack # <<>>,
         ArenaBump(p, total)
  PROVE  IInv'
<1> USE NullAssumption
<1> DEFINE n == Len(stack)
           m == Len(stack[n])
           off == round_up(Last.used)
           c == [Last EXCEPT !.used = off + total]
           r == Last.region
           b == [region |-> r, off |-> off, total |-> total, scope |-> n]
<1>t. TypeOK
  BY DEF IInv
<1>n. n \in 1 .. Len(stack) /\ n \in Nat /\ n > 0
  BY <1>t DEF TypeOK
<1>m. m \in 1 .. Len(stack[n]) /\ stack[n] \in Seq(Chunk) /\ m \in Nat
  <2>1. stack[n] \in Seq(Chunk) /\ stack[n] # <<>>
    BY <1>t, <1>n DEF TypeOK, ArenaBump, Fits, Top
  <2>2. QED
    BY <2>1
<1>1. Last = stack[n][m]
  BY DEF Last, Top
<1>2. Last \in Chunk /\ r \in Region /\ Last.used \in Nat /\ Last.cap \in Nat
  BY <1>1, <1>n, <1>m, <1>t, ChunkType DEF TypeOK
<1>3. off \in Nat /\ off >= Last.used /\ off % BLOCK_ALIGN = 0
  BY <1>2, RoundUp
<1>4. off + total <= Last.cap
  BY DEF ArenaBump, Fits
<1>5. c \in Chunk /\ c.region = r /\ c.cap = Last.cap /\ c.used = off + total
  BY <1>2, <1>3 DEF Chunk
<1>6. b.region = r /\ b.off = off /\ b.total = total /\ b.scope = n /\ b \in Block /\ b.scope # Dead
  BY <1>2, <1>3, <1>n DEF Block, Dead
<1>7. stack' = [stack EXCEPT ![n] = [stack[n] EXCEPT ![m] = c]]
  BY DEF ArenaBump, Top
<1>8. use' = use /\ count' = count /\ blocks' = [blocks EXCEPT ![p] = b] /\ blocks[p] = Null
  BY DEF ArenaBump, HandOut
<1>9. use[r] = "chunk" /\ Last.used <= Last.cap
  BY <1>1, <1>n, <1>m DEF IInv, ChunksOwned
<1>10. /\ \A h \in headers' : (h \in headers /\ (h.region # r \/ h.off # off))
                                 \/ h = NewHeader(r, off, "ARENA", total)
       /\ \A h \in headers : h.region # r => h \in headers'
  BY DEF ArenaBump
<1>h. NewHeader(r, off, "ARENA", total) \in Header
  BY <1>2, <1>3 DEF NewHeader, Header
<1> HIDE DEF off, c, b
<1>11. /\ stack' \in Seq(Seq(Chunk))
       /\ Len(stack') = Len(stack)
       /\ \A a \in 1 .. Len(stack) : Len(stack'[a]) = Len(stack[a])
       /\ \A a \in 1 .. Len(stack) : \A k \in 1 .. Len(stack[a]) :
            stack'[a][k] = IF a = n /\ k = m THEN c ELSE stack[a][k]
  <2> HIDE DEF n, m
  <2>1. QED
    BY <1>7, <1>n, <1>m, <1>5, <1>t, ElementReplaced DEF TypeOK
<1>12. \A a \in 1 .. Len(stack) : \A k \in 1 .. Len(stack[a]) :
         /\ stack'[a][k].region = stack[a][k].region
         /\ stack'[a][k].cap = stack[a][k].cap
         /\ stack'[a][k].used >= stack[a][k].used
         /\ stack[a][k].used <= stack[a][k].cap => stack'[a][k].used <= stack'[a][k].cap
  <2> SUFFICES ASSUME NEW a \in 1 .. Len(stack), NEW k \in 1 .. Len(stack[a])
               PROVE  /\ stack'[a][k].region = stack[a][k].region
                      /\ stack'[a][k].cap = stack[a][k].cap
                      /\ stack'[a][k].used >= stack[a][k].used
                      /\ stack[a][k].used <= stack[a][k].cap => stack'[a][k].used <= stack'[a][k].cap
    OBVIOUS
  <2>1. stack[a][k].used \in Nat
    BY <1>t, ChunkType DEF TypeOK
  <2>2. CASE a = n /\ k = m
    BY <2>2, <1>1, <1>2, <1>3, <1>4, <1>5, <1>11
  <2>3. CASE ~ (a = n /\ k = m)
    BY <2>1, <2>3, <1>11
  <2>4. QED
    BY <2>2, <2>3
<1>13. blocks'[p] = b /\ \A q \in Pointer : q # p => blocks'[q] = blocks[q]
  BY <1>8, <1>t DEF TypeOK
<1>14. Live(p)' /\ \A q \in Pointer : q # p => (Live(q)' <=> Live(q))
  BY <1>6, <1>13 DEF Live
<1>15. TypeOK'
  <2>1. headers' \subseteq Header /\ \A h \in headers' : h.off % BLOCK_ALIGN = 0
    BY <1>3, <1>10, <1>h, <1>t DEF TypeOK, NewHeader
  <2>2. blocks' \in [Pointer -> Block]
    BY <1>6, <1>8, <1>t DEF TypeOK
  <2>3. lastFree' \in [arg : Block, killed : SUBSET Pointer]
    BY DEF ArenaBump, Quiet, Block
  <2>4. QED
    BY <2>1, <2>2, <2>3, <1>8, <1>11, <1>t DEF TypeOK
<1>16. HeadersUnique'
  BY <1>10 DEF IInv, HeadersUnique, NewHeader
<1> HIDE DEF n, m
<1>17. ChunksOwned' /\ ChunksApart'
  <2>1. ChunksOwned'
    <3> SUFFICES ASSUME NEW a \in 1 .. Len(stack), NEW k \in 1 .. Len(stack[a])
                 PROVE  use[stack'[a][k].region] = "chunk" /\ stack'[a][k].used <= stack'[a][k].cap
      BY <1>8, <1>11 DEF ChunksOwned
    <3>1. use[stack[a][k].region] = "chunk" /\ stack[a][k].used <= stack[a][k].cap
      BY DEF IInv, ChunksOwned
    <3>2. QED
      BY <3>1, <1>12
  <2>2. ChunksApart'
    <3> SUFFICES ASSUME NEW a1 \in 1 .. Len(stack), NEW a2 \in 1 .. Len(stack),
                        NEW k1 \in 1 .. Len(stack[a1]), NEW k2 \in 1 .. Len(stack[a2]),
                        stack'[a1][k1].region = stack'[a2][k2].region
                 PROVE  a1 = a2 /\ k1 = k2
      BY <1>11 DEF ChunksApart
    <3>1. stack[a1][k1].region = stack[a2][k2].region
      BY <1>12
    <3>2. QED
      BY <3>1 DEF IInv, ChunksApart
  <2>3. QED
    BY <2>1, <2>2
<1>18. LiveBlocksReal'
  BY <1>2, <1>6, <1>13, <1>14 DEF IInv, LiveBlocksReal
<1>19. \A q \in Pointer : q # p /\ Live(q) /\ blocks[q].region = r =>
         blocks[q].off + blocks[q].total <= Last.used
  <2> SUFFICES ASSUME NEW q \in Pointer, Live(q), blocks[q].region = r
               PROVE  blocks[q].off + blocks[q].total <= Last.used
    OBVIOUS
  <2>1. InsideArena(blocks[q])
    BY <1>9 DEF IInv, LiveBlocksBacked, OwnHeapRegion
  <2>2. PICK k \in 1 .. Len(stack[blocks[q].scope]) :
          InsideChunk(blocks[q], stack[blocks[q].scope][k])
    BY <2>1 DEF InsideArena
  <2>3. blocks[q].scope = n /\ k = m
    <3>1. stack[blocks[q].scope][k].region = stack[n][m].region
      BY <2>2, <1>1 DEF InsideChunk
    <3>2. blocks[q].scope \in 1 .. Len(stack)
      BY <2>1 DEF InsideArena
    <3>3. QED
      BY <3>1, <3>2, <1>n, <1>m DEF IInv, ChunksApart
  <2>4. QED
    BY <2>2, <2>3, <1>1 DEF InsideChunk
<1>20. LiveBlocksDisjoint'
  <2> SUFFICES ASSUME NEW q \in Pointer, q # p, Live(q)
               PROVE  ~ Overlap(b, blocks[q]) /\ ~ Overlap(blocks[q], b)
    BY <1>13, <1>14 DEF IInv, LiveBlocksDisjoint
  <2>1. blocks[q].off \in Nat /\ blocks[q].total \in Nat
    BY <1>t DEF TypeOK, Block, Null
  <2>2. QED
    BY <2>1, <1>2, <1>3, <1>6, <1>19 DEF Overlap
<1>21. LiveBlocksBacked'
  <2> SUFFICES ASSUME NEW q \in Pointer, Live(q)'
               PROVE  OwnHeapRegion(blocks[q])' \/ InsideArena(blocks[q])'
    BY DEF LiveBlocksBacked
  <2>1. CASE q = p
    <3>1. InsideChunk(b, c)
      BY <1>4, <1>5, <1>6, <1>2, <1>3 DEF InsideChunk
    <3>2. stack'[n][m] = c /\ m \in 1 .. Len(stack'[n])
      BY <1>11, <1>n, <1>m
    <3>3. b.scope \in 1 .. Len(stack') /\ use'[b.region] = "chunk"
      BY <1>6, <1>8, <1>9, <1>11, <1>n
    <3>4. \E k \in 1 .. Len(stack'[b.scope]) : InsideChunk(b, stack'[b.scope][k])
      BY <3>1, <3>2, <1>6
    <3>5. QED
      BY <2>1, <3>3, <3>4, <1>13 DEF InsideArena, InsideChunk
  <2>2. CASE q # p
    <3>1. Live(q) /\ blocks'[q] = blocks[q]
      BY <2>2, <1>13, <1>14
    <3>2. CASE OwnHeapRegion(blocks[q])
      BY <3>1, <3>2, <1>8 DEF OwnHeapRegion
    <3>3. CASE InsideArena(blocks[q])
      <4>1. PICK k \in 1 .. Len(stack[blocks[q].scope]) :
              InsideChunk(blocks[q], stack[blocks[q].scope][k])
        BY <3>3 DEF InsideArena
      <4>2. blocks[q].scope \in 1 .. Len(stack)
        BY <3>3 DEF InsideArena
      <4>3. blocks[q].off \in Nat /\ blocks[q].total \in Nat
        BY <1>t DEF TypeOK, Block, Null
      <4> DEFINE e == stack[blocks[q].scope][k]
                 f == stack'[blocks[q].scope][k]
      <4>4. e.used \in Nat /\ e.cap \in Nat /\ e \in Chunk
        BY <4>2, <1>t, ChunkType DEF TypeOK
      <4>5. f = e \/ f = c
        BY <4>2, <1>11
      <4>6. f.used \in Nat
        BY <4>4, <4>5, <1>5 DEF Chunk
      <4>7. f.region = e.region /\ f.used >= e.used /\ (e.used <= e.cap => f.used <= f.cap)
        BY <4>2, <1>12
      <4>8. InsideChunk(blocks[q], f)
        <5> HIDE DEF e, f
        <5>1. e.region = blocks[q].region /\ blocks[q].off + blocks[q].total <= e.used /\ e.used <= e.cap
          BY <4>1 DEF InsideChunk, e
        <5>2. QED
          BY <5>1, <4>3, <4>4, <4>6, <4>7 DEF InsideChunk
      <4>9. /\ blocks'[q].scope \in 1 .. Len(stack') /\ use'[blocks'[q].region] = "chunk"
            /\ k \in 1 .. Len(stack'[blocks'[q].scope])
        BY <3>1, <3>3, <4>2, <1>8, <1>11 DEF InsideArena
      <4>10. QED
        BY <3>1, <4>8, <4>9 DEF InsideArena, InsideChunk
    <3>4. QED
      BY <3>1, <3>2, <3>3 DEF IInv, LiveBlocksBacked
  <2>3. QED
    BY <2>1, <2>2
<1>22. TagsTellProvenance'
  <2>1. \A h \in headers' : h.tag = "HEAP" => h.off = 0 /\ use'[h.region] = "heap"
    BY <1>8, <1>10 DEF IInv, TagsTellProvenance, NewHeader
  <2>2. ~ is_heap_block(p)' /\ blocks'[p].scope # Heap
    BY <1>6, <1>8, <1>9, <1>13, <1>n, <2>1 DEF is_heap_block, HasTag, Heap
  <2>3. ASSUME NEW q \in Pointer, q # p, Live(q)
        PROVE  is_heap_block(q)' <=> is_heap_block(q)
    <3>1. CASE blocks[q].region # r
      BY <2>3, <3>1, <1>10, <1>13 DEF is_heap_block, HasTag, NewHeader
    <3>2. CASE blocks[q].region = r
      BY <2>1, <2>3, <3>2, <1>8, <1>9, <1>13 DEF is_heap_block, HasTag, IInv, TagsTellProvenance
    <3>3. QED
      BY <3>1, <3>2
  <2>4. QED
    BY <2>1, <2>2, <2>3, <1>13, <1>14 DEF IInv, TagsTellProvenance
<1>23. QED
  BY <1>15, <1>16, <1>17, <1>18, <1>20, <1>21, <1>22 DEF IInv

(* Adding a chunk to one arena of the stack.                                *)
LEMMA ElementAppended ==
  ASSUME NEW S, NEW s \in Seq(Seq(S)), NEW n \in 1 .. Len(s), NEW c \in S,
         NEW t, t = [s EXCEPT ![n] = Append(s[n], c)]
  PROVE  /\ t \in Seq(Seq(S))
         /\ Len(t) = Len(s)
         /\ \A a \in 1 .. Len(s) : \A k \in 1 .. Len(s[a]) : k \in 1 .. Len(t[a]) /\ t[a][k] = s[a][k]
         /\ Len(s[n]) + 1 \in 1 .. Len(t[n]) /\ t[n][Len(s[n]) + 1] = c
         /\ \A a \in 1 .. Len(s) : \A k \in 1 .. Len(t[a]) :
              \/ a = n /\ k = Len(s[n]) + 1
              \/ k \in 1 .. Len(s[a])
<1> DEFINE d == Append(s[n], c)
<1>1. s[n] \in Seq(S) /\ Len(s[n]) \in Nat
  OBVIOUS
<1>2. d \in Seq(S) /\ Len(d) = Len(s[n]) + 1 /\ d[Len(s[n]) + 1] = c
  BY <1>1
<1>3. \A k \in 1 .. Len(s[n]) : d[k] = s[n][k]
  BY <1>1
<1>4. t = [s EXCEPT ![n] = d] /\ s \in [1 .. Len(s) -> Seq(S)]
  OBVIOUS
<1> HIDE DEF d
<1>5. t \in Seq(Seq(S)) /\ Len(t) = Len(s)
  BY <1>2, <1>4
<1>6. t[n] = d /\ \A a \in 1 .. Len(s) : a # n => t[a] = s[a]
  BY <1>4
<1>7. QED
  BY <1>1, <1>2, <1>3, <1>5, <1>6

(* A new chunk is a free region, and its first block starts it.             *)
LEMMA ArenaGrowIInv ==
  ASSUME NEW p \in Pointer, NEW total \in Nat, total > 0, IInv, stack # <<>>,
         ArenaGrow(p, total)
  PROVE  IInv'
<1> USE NullAssumption, ChunkAssumption
<1> DEFINE n == Len(stack)
           cap == ChunkCap(total)
<1>t. TypeOK
  BY DEF IInv
<1>n. n \in 1 .. Len(stack) /\ n \in Nat /\ n > 0
  BY <1>t DEF TypeOK
<1>1. PICK r \in Region :
        /\ use[r] = "free"
        /\ use' = [use EXCEPT ![r] = "chunk"]
        /\ stack' = [stack EXCEPT ![n] =
             Append(stack[n], [region |-> r, cap |-> cap, used |-> total])]
        /\ headers' = Zeroed(r) \cup {NewHeader(r, 0, "ARENA", total)}
        /\ HandOut(p, r, 0, total, n)
  BY DEF ArenaGrow, Top
<1>2. cap \in Nat /\ total <= cap
  BY DEF ChunkCap, LargerOf
<1> HIDE DEF cap
<1> DEFINE c == [region |-> r, cap |-> cap, used |-> total]
           b == [region |-> r, off |-> 0, total |-> total, scope |-> n]
<1>3. c \in Chunk /\ c.region = r /\ c.cap = cap /\ c.used = total
  BY <1>2 DEF Chunk
<1>4. b \in Block /\ b.region = r /\ b.off = 0 /\ b.total = total /\ b.scope = n /\ b.scope # Dead
  BY <1>n DEF Block, Dead
<1>5. blocks' = [blocks EXCEPT ![p] = b] /\ blocks[p] = Null /\ count' = count
  BY <1>1 DEF HandOut, ArenaGrow
<1>6. stack' = [stack EXCEPT ![n] = Append(stack[n], c)]
  BY <1>1
<1> HIDE DEF b, c
<1>7. blocks'[p] = b /\ \A q \in Pointer : q # p => blocks'[q] = blocks[q]
  BY <1>5, <1>t DEF TypeOK
<1>8. Live(p)' /\ \A q \in Pointer : q # p => (Live(q)' <=> Live(q))
  BY <1>4, <1>7 DEF Live
<1>9. use'[r] = "chunk" /\ \A s \in Region : s # r => use'[s] = use[s]
  BY <1>1, <1>t DEF TypeOK
<1>10. /\ \A h \in headers' : (h \in headers /\ h.region # r) \/ h = NewHeader(r, 0, "ARENA", total)
       /\ \A h \in headers : h.region # r => h \in headers'
  BY <1>1 DEF Zeroed
<1>11. /\ stack' \in Seq(Seq(Chunk))
       /\ Len(stack') = Len(stack)
       /\ \A a \in 1 .. Len(stack) : \A k \in 1 .. Len(stack[a]) :
            k \in 1 .. Len(stack'[a]) /\ stack'[a][k] = stack[a][k]
       /\ Len(stack[n]) + 1 \in 1 .. Len(stack'[n]) /\ stack'[n][Len(stack[n]) + 1] = c
       /\ \A a \in 1 .. Len(stack) : \A k \in 1 .. Len(stack'[a]) :
            (a = n /\ k = Len(stack[n]) + 1) \/ k \in 1 .. Len(stack[a])
  <2> HIDE DEF n
  <2>1. QED
    BY <1>6, <1>n, <1>3, <1>t, ElementAppended DEF TypeOK
<1> HIDE DEF n
<1>12. \A a \in 1 .. Len(stack) : \A k \in 1 .. Len(stack[a]) :
         /\ use[stack[a][k].region] = "chunk" /\ stack[a][k].used <= stack[a][k].cap
         /\ stack[a][k].region \in Region /\ stack[a][k].region # r
  <2> SUFFICES ASSUME NEW a \in 1 .. Len(stack), NEW k \in 1 .. Len(stack[a])
               PROVE  /\ use[stack[a][k].region] = "chunk" /\ stack[a][k].used <= stack[a][k].cap
                      /\ stack[a][k].region \in Region /\ stack[a][k].region # r
    OBVIOUS
  <2>1. use[stack[a][k].region] = "chunk" /\ stack[a][k].used <= stack[a][k].cap
    BY DEF IInv, ChunksOwned
  <2>2. stack[a][k].region \in Region
    BY <1>t, ChunkType DEF TypeOK
  <2>3. QED
    BY <2>1, <2>2, <1>1
<1>13. TypeOK'
  <2>1. headers' \subseteq Header /\ \A h \in headers' : h.off % BLOCK_ALIGN = 0
    BY <1>10, <1>t DEF TypeOK, NewHeader, Header, BLOCK_ALIGN
  <2>2. blocks' \in [Pointer -> Block]
    BY <1>4, <1>5, <1>t DEF TypeOK
  <2>3. lastFree' \in [arg : Block, killed : SUBSET Pointer]
    BY DEF ArenaGrow, Quiet, Block
  <2>4. QED
    BY <2>1, <2>2, <2>3, <1>1, <1>5, <1>11, <1>t DEF TypeOK
<1>14. HeadersUnique'
  BY <1>10 DEF IInv, HeadersUnique, NewHeader
<1>15. ChunksOwned'
  <2> SUFFICES ASSUME NEW a \in 1 .. Len(stack), NEW k \in 1 .. Len(stack'[a])
               PROVE  use'[stack'[a][k].region] = "chunk" /\ stack'[a][k].used <= stack'[a][k].cap
    BY <1>11 DEF ChunksOwned
  <2>1. CASE a = n /\ k = Len(stack[n]) + 1
    BY <2>1, <1>2, <1>3, <1>9, <1>11
  <2>2. CASE k \in 1 .. Len(stack[a])
    <3>1. stack'[a][k] = stack[a][k]
      BY <2>2, <1>11
    <3>2. use[stack[a][k].region] = "chunk" /\ stack[a][k].used <= stack[a][k].cap
      BY <2>2, <1>12
    <3>3. stack[a][k].region \in Region /\ stack[a][k].region # r
      BY <2>2, <1>12
    <3>4. use'[stack[a][k].region] = "chunk"
      BY <3>2, <3>3, <1>9
    <3>5. QED
      BY <3>1, <3>2, <3>4
  <2>3. QED
    BY <2>1, <2>2, <1>11
<1>16. ChunksApart'
  <2> SUFFICES ASSUME NEW a1 \in 1 .. Len(stack), NEW a2 \in 1 .. Len(stack),
                      NEW k1 \in 1 .. Len(stack'[a1]), NEW k2 \in 1 .. Len(stack'[a2]),
                      stack'[a1][k1].region = stack'[a2][k2].region
               PROVE  a1 = a2 /\ k1 = k2
    BY <1>11 DEF ChunksApart
  <2>1. CASE k1 \in 1 .. Len(stack[a1]) /\ k2 \in 1 .. Len(stack[a2])
    <3>1. stack[a1][k1].region = stack[a2][k2].region
      BY <2>1, <1>11
    <3>2. QED
      BY <2>1, <3>1 DEF IInv, ChunksApart
  <2>2. CASE k1 \in 1 .. Len(stack[a1]) /\ a2 = n /\ k2 = Len(stack[n]) + 1
    BY <2>2, <1>3, <1>11, <1>12
  <2>3. CASE k2 \in 1 .. Len(stack[a2]) /\ a1 = n /\ k1 = Len(stack[n]) + 1
    BY <2>3, <1>3, <1>11, <1>12
  <2>4. QED
    BY <2>1, <2>2, <2>3, <1>11
<1>17. \A q \in Pointer : q # p /\ Live(q) => blocks[q].region # r /\ blocks[q].region \in Region
  BY <1>1, <1>t DEF IInv, LiveBlocksBacked, LiveBlocksReal, OwnHeapRegion, InsideArena
<1>18. LiveBlocksReal'
  BY <1>4, <1>7, <1>8 DEF IInv, LiveBlocksReal
<1>19. LiveBlocksDisjoint'
  BY <1>4, <1>7, <1>8, <1>17 DEF IInv, LiveBlocksDisjoint, Overlap
<1>20. LiveBlocksBacked'
  <2> SUFFICES ASSUME NEW q \in Pointer, Live(q)'
               PROVE  OwnHeapRegion(blocks[q])' \/ InsideArena(blocks[q])'
    BY DEF LiveBlocksBacked
  <2>1. CASE q = p
    <3>1. InsideChunk(b, c)
      BY <1>2, <1>3, <1>4 DEF InsideChunk
    <3>2. b.scope \in 1 .. Len(stack') /\ use'[b.region] = "chunk"
      BY <1>4, <1>9, <1>11, <1>n
    <3>3. \E k \in 1 .. Len(stack'[b.scope]) : InsideChunk(b, stack'[b.scope][k])
      BY <3>1, <1>4, <1>11
    <3>4. QED
      BY <2>1, <3>2, <3>3, <1>7 DEF InsideArena, InsideChunk
  <2>2. CASE q # p
    <3>1. Live(q) /\ blocks'[q] = blocks[q] /\ blocks[q].region # r /\ blocks[q].region \in Region
      BY <2>2, <1>7, <1>8, <1>17
    <3>2. use'[blocks[q].region] = use[blocks[q].region]
      BY <3>1, <1>9
    <3>3. CASE OwnHeapRegion(blocks[q])
      BY <3>1, <3>2, <3>3 DEF OwnHeapRegion
    <3>4. CASE InsideArena(blocks[q])
      BY <3>1, <3>2, <3>4, <1>11 DEF InsideArena, InsideChunk
    <3>5. QED
      BY <3>1, <3>3, <3>4 DEF IInv, LiveBlocksBacked
  <2>3. QED
    BY <2>1, <2>2
<1>21. TagsTellProvenance'
  <2>1. \A h \in headers' : h.tag = "HEAP" => h.off = 0 /\ use'[h.region] = "heap"
    BY <1>9, <1>10, <1>t DEF IInv, TagsTellProvenance, NewHeader, TypeOK, Header
  <2>2. ~ is_heap_block(p)' /\ blocks'[p].scope # Heap
    BY <1>4, <1>7, <1>9, <1>n, <2>1 DEF is_heap_block, HasTag, Heap
  <2>3. ASSUME NEW q \in Pointer, q # p, Live(q)
        PROVE  is_heap_block(q)' <=> is_heap_block(q)
    BY <2>3, <1>7, <1>10, <1>17 DEF is_heap_block, HasTag, NewHeader
  <2>4. QED
    BY <2>1, <2>2, <2>3, <1>7, <1>8 DEF IInv, TagsTellProvenance
<1>22. QED
  BY <1>13, <1>14, <1>15, <1>16, <1>18, <1>19, <1>20, <1>21 DEF IInv

(* A vector request keeps the invariant wherever it is served.              *)
LEMMA AllocRecArenaIInv ==
  ASSUME NEW p \in Pointer, NEW size \in Nat, IInv, alloc_rec_arena(p, size)
  PROVE  IInv'
<1> DEFINE total == BlockBytes(size)
<1>1. total \in Nat /\ total > 0
  BY BlockBytesBound, SMT DEF HEADER_SIZE, BLOCK_ALIGN
<1> HIDE DEF total
<1>2. CASE stack # <<>> /\ ArenaBump(p, total)
  BY <1>1, <1>2, ArenaBumpIInv
<1>3. CASE stack # <<>> /\ ArenaGrow(p, total)
  BY <1>1, <1>3, ArenaGrowIInv
<1>4. CASE bcpl_heap_alloc(p, round_up(LargerOf(size, 1)))
  BY <1>4, FallbackSize, HeapAllocIInv
<1>5. QED
  BY <1>2, <1>3, <1>4 DEF alloc_rec_arena, total

(* Giving chunks back: the regions gone were chunks, every chunk left was   *)
(* there and is not one of them, and a block that stays live keeps its      *)
(* place.                                                                   *)
LEMMA ShrinkIInv ==
  ASSUME IInv, NEW gone, NEW dying,
         use' = [r \in Region |-> IF r \in gone THEN "free" ELSE use[r]],
         \A r \in gone : r \in Region /\ use[r] = "chunk",
         headers' = headers, count' = count, Quiet, Kill(dying),
         LiveIn(gone) \subseteq dying,
         stack' \in Seq(Seq(Chunk)), Len(stack') \in 0 .. Len(stack),
         \A a \in 1 .. Len(stack') : \A k \in 1 .. Len(stack'[a]) :
           /\ k \in 1 .. Len(stack[a])
           /\ stack'[a][k].region = stack[a][k].region
           /\ stack'[a][k].region \notin gone
           /\ stack'[a][k].used <= stack'[a][k].cap,
         \A q \in Pointer : Live(q) /\ q \notin dying /\ InsideArena(blocks[q]) =>
           /\ blocks[q].scope \in 1 .. Len(stack')
           /\ \E k \in 1 .. Len(stack'[blocks[q].scope]) :
                InsideChunk(blocks[q], stack'[blocks[q].scope][k])
  PROVE  IInv'
<1> USE NullAssumption
<1>t. TypeOK
  BY DEF IInv
<1>1. \A q \in Pointer : blocks'[q] = IF q \in dying THEN [blocks[q] EXCEPT !.scope = Dead]
                                                     ELSE blocks[q]
  BY DEF Kill
<1>2. \A q \in Pointer : [blocks[q] EXCEPT !.scope = Dead] \in Block
  BY <1>t, KilledBlock DEF TypeOK
<1>3. \A q \in Pointer : q \in dying => ~ Live(q)'
  <2> SUFFICES ASSUME NEW q \in Pointer, q \in dying PROVE blocks'[q].scope = Dead
    BY DEF Live
  <2>1. blocks'[q] = [blocks[q] EXCEPT !.scope = Dead] /\ blocks[q] \in Block
    BY <1>1, <1>t DEF TypeOK
  <2>2. QED
    BY <2>1, KilledBlock
<1>4. \A q \in Pointer : Live(q)' =>
        Live(q) /\ q \notin dying /\ blocks'[q] = blocks[q] /\ blocks[q].region \notin gone
  BY <1>1, <1>3 DEF Live, LiveIn
<1>5. \A r \in Region : r \notin gone => use'[r] = use[r]
  OBVIOUS
<1>6. TypeOK'
  <2>1. blocks' \in [Pointer -> Block]
    <3>1. \A q \in Pointer : blocks'[q] \in Block
      BY <1>1, <1>2, <1>t DEF TypeOK
    <3>2. QED
      BY <3>1 DEF Kill
  <2>2. use' \in [Region -> {"free", "heap", "chunk"}]
    BY <1>t DEF TypeOK
  <2>3. lastFree' \in [arg : Block, killed : SUBSET Pointer]
    BY DEF Quiet, Block
  <2>4. QED
    BY <2>1, <2>2, <2>3, <1>t DEF TypeOK
<1>7. HeadersUnique'
  BY DEF IInv, HeadersUnique
<1>8. \A a \in 1 .. Len(stack') : a \in 1 .. Len(stack)
  BY <1>t DEF TypeOK
<1>9. ChunksOwned'
  <2> SUFFICES ASSUME NEW a \in 1 .. Len(stack'), NEW k \in 1 .. Len(stack'[a])
               PROVE  use'[stack'[a][k].region] = "chunk"
    BY DEF ChunksOwned
  <2>1. use[stack[a][k].region] = "chunk"
    BY <1>8 DEF IInv, ChunksOwned
  <2>2. stack[a][k].region \in Region
    BY <1>8, <1>t, ChunkType DEF TypeOK
  <2>3. QED
    BY <2>1, <2>2, <1>5
<1>10. ChunksApart'
  <2> SUFFICES ASSUME NEW a1 \in 1 .. Len(stack'), NEW a2 \in 1 .. Len(stack'),
                      NEW k1 \in 1 .. Len(stack'[a1]), NEW k2 \in 1 .. Len(stack'[a2]),
                      stack'[a1][k1].region = stack'[a2][k2].region
               PROVE  a1 = a2 /\ k1 = k2
    BY DEF ChunksApart
  <2>1. /\ a1 \in 1 .. Len(stack) /\ a2 \in 1 .. Len(stack)
        /\ k1 \in 1 .. Len(stack[a1]) /\ k2 \in 1 .. Len(stack[a2])
    BY <1>8
  <2>2. stack[a1][k1].region = stack[a2][k2].region
    OBVIOUS
  <2>3. ChunksApart
    BY DEF IInv
  <2>4. QED
    BY ONLY <2>1, <2>2, <2>3 DEF ChunksApart
<1>11. LiveBlocksReal' /\ LiveBlocksDisjoint'
  BY <1>4 DEF IInv, LiveBlocksReal, LiveBlocksDisjoint
<1>12. LiveBlocksBacked'
  <2> SUFFICES ASSUME NEW q \in Pointer, Live(q)'
               PROVE  OwnHeapRegion(blocks[q])' \/ InsideArena(blocks[q])'
    BY DEF LiveBlocksBacked
  <2>1. /\ Live(q) /\ q \notin dying /\ blocks'[q] = blocks[q]
        /\ blocks[q].region \in Region /\ use'[blocks[q].region] = use[blocks[q].region]
    BY <1>4, <1>5 DEF IInv, LiveBlocksReal
  <2>2. CASE OwnHeapRegion(blocks[q])
    BY <2>1, <2>2 DEF OwnHeapRegion
  <2>3. CASE InsideArena(blocks[q])
    <3>1. blocks[q].scope \in 1 .. Len(stack') /\ use'[blocks[q].region] = "chunk"
      BY <2>1, <2>3 DEF InsideArena
    <3>2. PICK k \in 1 .. Len(stack'[blocks[q].scope]) :
            InsideChunk(blocks[q], stack'[blocks[q].scope][k])
      BY <2>1, <2>3
    <3>3. QED
      BY ONLY <2>1, <3>1, <3>2 DEF InsideArena, InsideChunk
  <2>4. QED
    BY <2>1, <2>2, <2>3 DEF IInv, LiveBlocksBacked
<1>13. TagsTellProvenance'
  <2>1. \A h \in headers' : h.tag = "HEAP" => h.off = 0 /\ use'[h.region] = "heap"
    BY <1>5, <1>t DEF IInv, TagsTellProvenance, TypeOK, Header
  <2>2. \A q \in Pointer : Live(q)' => (is_heap_block(q)' <=> is_heap_block(q))
    BY <1>4 DEF is_heap_block, HasTag
  <2>3. QED
    BY <2>1, <2>2, <1>4 DEF IInv, TagsTellProvenance
<1>14. QED
  BY <1>6, <1>7, <1>9, <1>10, <1>11, <1>12, <1>13 DEF IInv

(* A step that changes nothing.                                             *)
LEMMA StutterIInv ==
  ASSUME IInv, UNCHANGED vars
  PROVE  IInv'
BY DEF vars, IInv, TypeOK, HeadersUnique, ChunksOwned, ChunksApart, LiveBlocksReal,
   LiveBlocksDisjoint, LiveBlocksBacked, TagsTellProvenance, Live, OwnHeapRegion,
   InsideArena, is_heap_block, HasTag

(* Leaving scopes gives back every chunk of their arenas and no other.      *)
LEMMA ArenaFreeIInv ==
  ASSUME NEW h \in Int, IInv, bcpl_arena_free(h)
  PROVE  IInv'
<1>1. CASE UNCHANGED vars
  BY <1>1, StutterIInv
<1>2. CASE /\ 0 <= h /\ h < Len(stack)
           /\ Drop(ArenasFrom(h))
           /\ stack' = SubSeq(stack, 1, h)
           /\ Kill(LiveIn(RegionsOf(ArenasFrom(h))))
           /\ Quiet
           /\ UNCHANGED <<headers, count>>
  <2> DEFINE gone == RegionsOf(ArenasFrom(h))
  <2>t. TypeOK /\ stack \in Seq(Seq(Chunk)) /\ Len(stack) \in Nat /\ h \in 0 .. Len(stack)
    BY <1>2 DEF IInv, TypeOK
  <2>1. \A r : r \in gone <=>
          \E a \in (h + 1) .. Len(stack) : \E k \in 1 .. Len(stack[a]) : r = stack[a][k].region
    BY DEF RegionsOf, ArenasFrom, ChunksOf
  <2>2. use' = [r \in Region |-> IF r \in gone THEN "free" ELSE use[r]]
    BY <1>2 DEF Drop
  <2> HIDE DEF gone
  <2>3. \A r \in gone : r \in Region /\ use[r] = "chunk"
    <3> SUFFICES ASSUME NEW a \in (h + 1) .. Len(stack), NEW k \in 1 .. Len(stack[a])
                 PROVE  stack[a][k].region \in Region /\ use[stack[a][k].region] = "chunk"
      BY <2>1
    <3>1. a \in 1 .. Len(stack)
      BY <2>t
    <3>2. stack[a][k].region \in Region
      BY <3>1, <2>t, ChunkType
    <3>3. QED
      BY <3>1, <3>2 DEF IInv, ChunksOwned
  <2>4. /\ stack' \in Seq(Seq(Chunk))
        /\ Len(stack') = h
        /\ \A a \in 1 .. h : stack'[a] = stack[a] /\ a \in 1 .. Len(stack)
    BY <1>2, <2>t
  <2>5. ASSUME NEW a \in 1 .. h, NEW k \in 1 .. Len(stack[a])
        PROVE  stack[a][k].region \notin gone /\ stack[a][k].used <= stack[a][k].cap
    <3>1. a \in 1 .. Len(stack)
      BY <2>t
    <3>2. ASSUME NEW b \in (h + 1) .. Len(stack), NEW l \in 1 .. Len(stack[b]),
                 stack[a][k].region = stack[b][l].region
          PROVE  FALSE
      BY <2>t, <3>1, <3>2 DEF IInv, ChunksApart
    <3>3. QED
      BY <3>1, <3>2, <2>1 DEF IInv, ChunksOwned
  <2>6. ASSUME NEW q \in Pointer, Live(q), q \notin LiveIn(gone), InsideArena(blocks[q])
        PROVE  /\ blocks[q].scope \in 1 .. h
               /\ \E k \in 1 .. Len(stack'[blocks[q].scope]) :
                    InsideChunk(blocks[q], stack'[blocks[q].scope][k])
    <3>1. blocks[q].region \notin gone
      BY <2>6 DEF LiveIn
    <3>2. PICK k \in 1 .. Len(stack[blocks[q].scope]) :
            InsideChunk(blocks[q], stack[blocks[q].scope][k])
      BY <2>6 DEF InsideArena
    <3>3. stack[blocks[q].scope][k].region = blocks[q].region
      BY <3>2 DEF InsideChunk
    <3>4. blocks[q].scope \in 1 .. h
      BY <3>1, <3>3, <2>1, <2>6, <2>t DEF InsideArena
    <3>5. QED
      BY <3>2, <3>4, <2>4
  <2>7. QED
    BY <1>2, <2>2, <2>3, <2>4, <2>5, <2>6, <2>t, ShrinkIInv DEF gone
<1>3. QED
  BY <1>1, <1>2 DEF bcpl_arena_free

(* A reset gives back all chunks of one arena but the first, and empties    *)
(* that one; its blocks die with the others' of the arena.                  *)
LEMMA ArenaResetIInv ==
  ASSUME NEW h \in Int, IInv, bcpl_arena_reset(h)
  PROVE  IInv'
<1>1. CASE UNCHANGED vars
  BY <1>1, StutterIInv
<1>2. CASE /\ 0 <= h /\ h < Len(stack)
           /\ Drop(ChunksOf(h + 1, 2))
           /\ stack' = [stack EXCEPT ![h + 1] = Rewound(h + 1)]
           /\ Kill(LiveIn(RegionsOf(ChunksOf(h + 1, 1))))
           /\ Quiet
           /\ UNCHANGED <<headers, count>>
  <2> DEFINE gone == RegionsOf(ChunksOf(h + 1, 2))
             mine == RegionsOf(ChunksOf(h + 1, 1))
             n == h + 1
             d == Rewound(n)
  <2>t. /\ TypeOK /\ stack \in Seq(Seq(Chunk)) /\ Len(stack) \in Nat /\ n \in 1 .. Len(stack)
        /\ stack[n] \in Seq(Chunk) /\ Len(stack[n]) \in Nat
    BY <1>2 DEF IInv, TypeOK
  <2>1. /\ \A r : r \in gone <=> \E k \in 2 .. Len(stack[n]) : r = stack[n][k].region
        /\ \A r : r \in mine <=> \E k \in 1 .. Len(stack[n]) : r = stack[n][k].region
    BY DEF RegionsOf, ChunksOf
  <2>2. use' = [r \in Region |-> IF r \in gone THEN "free" ELSE use[r]]
    BY <1>2 DEF Drop
  <2>3. LiveIn(gone) \subseteq LiveIn(mine)
    BY <2>1, <2>t DEF LiveIn
  <2>4. /\ d \in Seq(Chunk) /\ Len(d) \in Nat
        /\ \A k \in 1 .. Len(d) : /\ k = 1 /\ k \in 1 .. Len(stack[n])
                                  /\ d[k].region = stack[n][k].region
                                  /\ d[k].cap = stack[n][k].cap /\ d[k].used = 0
    <3> DEFINE e(k) == [stack[n][k] EXCEPT !.used = 0]
               len == SmallerOf(1, Len(stack[n]))
    <3>1. len \in Nat /\ \A k \in 1 .. len : k = 1 /\ k \in 1 .. Len(stack[n])
      BY <2>t DEF SmallerOf
    <3>2. ASSUME NEW k \in 1 .. len
          PROVE  /\ e(k) \in Chunk /\ e(k).region = stack[n][k].region
                 /\ e(k).cap = stack[n][k].cap /\ e(k).used = 0
      <4>1. stack[n][k] \in Chunk
        BY <3>1, <2>t, ChunkType
      <4>2. QED
        BY <4>1 DEF Chunk
    <3> HIDE DEF e, len
    <3>3. d = [k \in 1 .. len |-> e(k)]
      BY DEF Rewound, e, len
    <3>4. d \in Seq(Chunk) /\ Len(d) = len
      BY <3>1, <3>2, <3>3
    <3>5. QED
      BY <3>1, <3>2, <3>3, <3>4
  <2>5. stack' = [stack EXCEPT ![n] = d]
    BY <1>2
  <2>k. Kill(LiveIn(mine))
    BY <1>2
  <2> HIDE DEF gone, mine, d, n
  <2>6. /\ stack' \in Seq(Seq(Chunk)) /\ Len(stack') = Len(stack)
        /\ stack'[n] = d
        /\ \A a \in 1 .. Len(stack) : a # n => stack'[a] = stack[a]
    BY <2>4, <2>5, <2>t
  <2>7. \A r \in gone : r \in Region /\ use[r] = "chunk"
    <3> SUFFICES ASSUME NEW k \in 2 .. Len(stack[n])
                 PROVE  stack[n][k].region \in Region /\ use[stack[n][k].region] = "chunk"
      BY <2>1
    <3>1. k \in 1 .. Len(stack[n])
      BY <2>t
    <3>2. stack[n][k].region \in Region
      BY <3>1, <2>t, ChunkType
    <3>3. QED
      BY <3>1, <3>2, <2>t DEF IInv, ChunksOwned
  <2>8. ASSUME NEW a \in 1 .. Len(stack), NEW k \in 1 .. Len(stack'[a])
        PROVE  /\ k \in 1 .. Len(stack[a])
               /\ stack'[a][k].region = stack[a][k].region
               /\ stack'[a][k].region \notin gone
               /\ stack'[a][k].used <= stack'[a][k].cap
    <3>1. k \in 1 .. Len(stack[a]) /\ stack'[a][k].region = stack[a][k].region /\ (a = n => k = 1)
      BY <2>4, <2>6
    <3>2. stack[a][k].cap \in Nat /\ stack[a][k].used <= stack[a][k].cap
      BY <3>1, <2>t, ChunkType DEF IInv, ChunksOwned
    <3>3. stack'[a][k].used <= stack'[a][k].cap
      BY <2>4, <2>6, <3>1, <3>2
    <3>4. ASSUME NEW l \in 2 .. Len(stack[n]), stack[a][k].region = stack[n][l].region
          PROVE  FALSE
      <4>1. l \in 1 .. Len(stack[n])
        BY <2>t
      <4>2. ChunksApart
        BY DEF IInv
      <4>3. a \in 1 .. Len(stack) /\ n \in 1 .. Len(stack) /\ k \in 1 .. Len(stack[a])
        BY <3>1, <2>t
      <4>4. a = n /\ k = l
        BY ONLY <3>4, <4>1, <4>2, <4>3 DEF ChunksApart
      <4>5. QED
        BY <4>4, <3>1
    <3>5. QED
      BY <3>1, <3>3, <3>4, <2>1
  <2>9. ASSUME NEW q \in Pointer, Live(q), q \notin LiveIn(mine), InsideArena(blocks[q])
        PROVE  /\ blocks[q].scope \in 1 .. Len(stack')
               /\ \E k \in 1 .. Len(stack'[blocks[q].scope]) :
                    InsideChunk(blocks[q], stack'[blocks[q].scope][k])
    <3>1. blocks[q].region \notin mine
      BY <2>9 DEF LiveIn
    <3>2. blocks[q].scope \in 1 .. Len(stack)
      BY <2>9 DEF InsideArena
    <3>3. PICK k \in 1 .. Len(stack[blocks[q].scope]) :
            InsideChunk(blocks[q], stack[blocks[q].scope][k])
      BY <2>9 DEF InsideArena
    <3>4. stack[blocks[q].scope][k].region = blocks[q].region
      BY <3>3 DEF InsideChunk
    <3>5. blocks[q].scope # n
      BY <3>1, <3>4, <2>1
    <3>6. QED
      BY <3>2, <3>3, <3>5, <2>6
  <2>10. Len(stack') \in 0 .. Len(stack)
    BY <2>6, <2>t
  <2>11. QED
    <3>1. headers' = headers /\ count' = count /\ Quiet
      BY <1>2
    <3>2. QED
      BY <3>1, <2>2, <2>3, <2>k, <2>6, <2>7, <2>8, <2>9, <2>10, ShrinkIInv
<1>3. QED
  BY <1>1, <1>2 DEF bcpl_arena_reset

----------------------------------------------------------------------------
(* The theorems *)

(* Every operation of the runtime keeps the inductive invariant.            *)
LEMMA NextIInv == IInv /\ [Next]_vars => IInv'
<1> SUFFICES ASSUME IInv, [Next]_vars PROVE IInv'
  OBVIOUS
<1> USE PayloadAssumption
<1>1. ASSUME NEW p \in Pointer, NEW size \in Payload, bcpl_heap_alloc(p, size)
      PROVE  IInv'
  BY <1>1, HeapAllocIInv
<1>2. ASSUME NEW p \in Pointer, bcpl_heap_free(p)
      PROVE  IInv'
  BY <1>2, HeapFreeIInv
<1>3. CASE bcpl_arena_enter
  BY <1>3, ArenaEnterIInv
<1>4. ASSUME NEW p \in Pointer, NEW size \in Payload, alloc_rec_arena(p, size)
      PROVE  IInv'
  BY <1>4, AllocRecArenaIInv
<1>5. ASSUME NEW h \in Handles, bcpl_arena_free(h)
      PROVE  IInv'
  BY <1>5, ArenaFreeIInv DEF Handles
<1>6. ASSUME NEW h \in Handles, bcpl_arena_reset(h)
      PROVE  IInv'
  BY <1>6, ArenaResetIInv DEF Handles
<1>7. ASSUME NEW p \in Pointer, NEW q \in Pointer, NEW size \in Payload,
             bcpl_promote(p, q, size)
      PROVE  IInv'
  BY <1>7, HeapAllocIInv, StutterIInv DEF bcpl_promote
<1>8. CASE UNCHANGED vars
  BY <1>8, StutterIInv
<1>9. QED
  BY <1>1, <1>2, <1>3, <1>4, <1>5, <1>6, <1>7, <1>8 DEF Next

(* The inductive invariant holds in every reachable state.                  *)
THEOREM Invariance == Spec => []IInv
BY InitIInv, NextIInv, PTL DEF Spec

(* All state keeps its type, and headers stand on aligned addresses.        *)
THEOREM TypeCorrect == Spec => []TypeOK
<1>1. IInv => TypeOK
  BY DEF IInv
<1>2. QED
  BY <1>1, Invariance, PTL

(* No two live blocks share memory.                                         *)
THEOREM Disjoint == Spec => []LiveBlocksDisjoint
<1>1. IInv => LiveBlocksDisjoint
  BY DEF IInv
<1>2. QED
  BY <1>1, Invariance, PTL

(* Every live block lies in memory that its tier owns.                      *)
THEOREM Backed == Spec => []LiveBlocksBacked
<1>1. IInv => LiveBlocksBacked
  BY DEF IInv
<1>2. QED
  BY <1>1, Invariance, PTL

(* The tag before a block tells which tier it came from.                    *)
THEOREM Provenance == Spec => []TagsTellProvenance
<1>1. IInv => TagsTellProvenance
  BY DEF IInv
<1>2. QED
  BY <1>1, Invariance, PTL

----------------------------------------------------------------------------
(* What the abstract variables are in a state of the runtime.               *)
InScope(i) == {p \in Pointer : blocks[p].scope = i}
Scopes     == [i \in 1 .. Len(stack) |-> InScope(i)]
OnHeap     == {p \in Pointer : blocks[p].scope = Heap}
Gone       == {p \in Pointer : blocks[p] # Null /\ blocks[p].scope = Dead}

----------------------------------------------------------------------------
(* Where a live block is *)

(* A live block is on the heap alone in a heap region, or in the arena of   *)
(* its scope and in a chunk of that arena.                                  *)
LEMMA WhereBlocksAre ==
  ASSUME IInv, NEW q \in Pointer, Live(q)
  PROVE  /\ blocks[q].region \in Region
         /\ blocks[q] # Null
         /\ \/ /\ blocks[q].scope = 0 /\ use[blocks[q].region] = "heap"
               /\ blocks[q].off = 0 /\ blocks[q].total > 0
            \/ /\ blocks[q].scope \in 1 .. Len(stack) /\ use[blocks[q].region] = "chunk"
               /\ \E k \in 1 .. Len(stack[blocks[q].scope]) :
                    stack[blocks[q].scope][k].region = blocks[q].region
<1>1. blocks[q].region \in Region /\ blocks[q].total > 0
  BY DEF IInv, LiveBlocksReal
<1>2. blocks[q] # Null
  BY DEF Live, Null
<1>3. OwnHeapRegion(blocks[q]) \/ InsideArena(blocks[q])
  BY DEF IInv, LiveBlocksBacked
<1>4. QED
  BY <1>1, <1>2, <1>3 DEF OwnHeapRegion, InsideArena, InsideChunk, Heap

(* A heap region backs one live block at most.                              *)
LEMMA OneBlockPerHeapRegion ==
  ASSUME IInv, NEW r \in Region, use[r] = "heap",
         NEW p \in LiveIn({r}), NEW q \in LiveIn({r})
  PROVE  p = q
<1>1. /\ p \in Pointer /\ Live(p) /\ blocks[p].region = r
      /\ q \in Pointer /\ Live(q) /\ blocks[q].region = r
  BY DEF LiveIn
<1>2. blocks[p].off = 0 /\ blocks[p].total > 0 /\ blocks[q].off = 0 /\ blocks[q].total > 0
  BY <1>1, WhereBlocksAre
<1>3. Overlap(blocks[p], blocks[q])
  <2>1. blocks[p] \in Block /\ blocks[q] \in Block
    BY <1>1 DEF IInv, TypeOK
  <2>2. blocks[p].total \in Nat /\ blocks[q].total \in Nat
    BY <2>1 DEF Block, Null
  <2>3. QED
    BY ONLY <1>1, <1>2, <2>2 DEF Overlap
<1>4. QED
  BY <1>1, <1>3 DEF IInv, LiveBlocksDisjoint

(* The blocks of the regions that some arenas' chunks have are the blocks   *)
(* of the scopes of those arenas.                                           *)
LEMMA BlocksOfArenas ==
  ASSUME IInv, NEW A \in SUBSET (1 .. Len(stack)), NEW R,
         \A r : r \in R <=> \E a \in A : \E k \in 1 .. Len(stack[a]) : r = stack[a][k].region
  PROVE  \A q \in Pointer : q \in LiveIn(R) <=> blocks[q].scope \in A
<1> SUFFICES ASSUME NEW q \in Pointer
             PROVE  q \in LiveIn(R) <=> blocks[q].scope \in A
  OBVIOUS
<1>1. ASSUME q \in LiveIn(R)
      PROVE  blocks[q].scope \in A
  <2>1. Live(q) /\ blocks[q].region \in R
    BY <1>1 DEF LiveIn
  <2>p. PICK a \in A : \E k \in 1 .. Len(stack[a]) : blocks[q].region = stack[a][k].region
    BY <2>1
  <2>2. PICK k \in 1 .. Len(stack[a]) : blocks[q].region = stack[a][k].region
    BY <2>p
  <2>3. use[blocks[q].region] = "chunk"
    BY <2>2 DEF IInv, ChunksOwned
  <2>4. /\ blocks[q].scope \in 1 .. Len(stack)
        /\ \E l \in 1 .. Len(stack[blocks[q].scope]) :
             stack[blocks[q].scope][l].region = blocks[q].region
    BY <2>1, <2>3, WhereBlocksAre
  <2>5. PICK l \in 1 .. Len(stack[blocks[q].scope]) :
          stack[blocks[q].scope][l].region = blocks[q].region
    BY <2>4
  <2>6. ChunksApart
    BY DEF IInv
  <2>7. blocks[q].scope = a
    BY ONLY <2>2, <2>4, <2>5, <2>6, a \in 1 .. Len(stack) DEF ChunksApart
  <2>8. QED
    BY <2>2, <2>7
<1>2. ASSUME blocks[q].scope \in A
      PROVE  q \in LiveIn(R)
  <2>1. blocks[q].scope \in 1 .. Len(stack)
    BY <1>2
  <2>2. Live(q) /\ blocks[q].scope # 0
    BY <2>1 DEF Live, Dead
  <2>3. \E k \in 1 .. Len(stack[blocks[q].scope]) :
          stack[blocks[q].scope][k].region = blocks[q].region
    BY <2>2, WhereBlocksAre
  <2>4. QED
    BY <1>2, <2>2, <2>3 DEF LiveIn
<1>3. QED
  BY <1>1, <1>2

----------------------------------------------------------------------------
(* The operations of the store *)

(* The sequence of scopes.                                                  *)
LEMMA ScopesType ==
  ASSUME IInv
  PROVE  /\ Len(stack) \in Nat
         /\ Scopes \in Seq(SUBSET Pointer)
         /\ Len(Scopes) = Len(stack)
         /\ DOMAIN Scopes = 1 .. Len(stack)
<1>1. Len(stack) \in Nat
  BY DEF IInv, TypeOK
<1>2. \A i \in 1 .. Len(stack) : InScope(i) \in SUBSET Pointer
  BY DEF InScope
<1> HIDE DEF InScope
<1>3. Scopes \in [1 .. Len(stack) -> SUBSET Pointer] /\ DOMAIN Scopes = 1 .. Len(stack)
  BY <1>2 DEF Scopes
<1>4. QED
  BY <1>1, <1>3

(* A pointer that was never handed out is a fresh block of the store.       *)
LEMMA FreshBlock ==
  ASSUME IInv, NEW p \in Pointer, blocks[p] = Null
  PROVE  p \in Store!Fresh
<1>1. blocks[p].scope = Dead
  BY DEF Null
<1>2. p \notin OnHeap /\ p \notin Gone
  BY <1>1 DEF OnHeap, Gone, Heap, Dead
<1>3. \A i \in 1 .. Len(stack) : p \notin InScope(i)
  BY <1>1 DEF InScope, Dead
<1>4. \A i \in DOMAIN Scopes : p \notin Scopes[i]
  BY <1>3 DEF Scopes
<1>5. Store!Fresh = Pointer \ (OnHeap \cup Gone \cup UNION {Scopes[i] : i \in DOMAIN Scopes})
  BY DEF Store!Fresh, Scopes, InScope, OnHeap, Gone
<1>6. QED
  BY <1>2, <1>4, <1>5

(* Handing a block out puts its pointer into one scope, or on the heap.     *)
LEMMA HandedOut ==
  ASSUME IInv, NEW p \in Pointer, blocks[p] = Null, NEW b, b.scope \in Nat,
         blocks' = [blocks EXCEPT ![p] = b]
  PROVE  /\ Gone' = Gone
         /\ OnHeap' = IF b.scope = 0 THEN OnHeap \cup {p} ELSE OnHeap
         /\ \A i \in Nat \ {0} :
              InScope(i)' = IF b.scope = i THEN InScope(i) \cup {p} ELSE InScope(i)
<1>1. blocks'[p] = b /\ \A q \in Pointer : q # p => blocks'[q] = blocks[q]
  BY DEF IInv, TypeOK
<1>2. b.scope # Dead /\ blocks[p].scope = Dead
  BY DEF Null, Dead
<1>3. Gone' = Gone
  BY <1>1, <1>2 DEF Gone
<1>4. OnHeap' = IF b.scope = 0 THEN OnHeap \cup {p} ELSE OnHeap
  BY <1>1, <1>2 DEF OnHeap, Heap, Dead
<1>5. ASSUME NEW i \in Nat \ {0}
      PROVE  InScope(i)' = IF b.scope = i THEN InScope(i) \cup {p} ELSE InScope(i)
  BY <1>1, <1>2 DEF InScope, Dead
<1>6. QED
  BY <1>3, <1>4, <1>5

(* Killing live blocks takes their pointers from where they were to Gone.   *)
LEMMA KilledBlocksGone ==
  ASSUME IInv, NEW dying \in SUBSET Pointer, \A q \in dying : Live(q), Kill(dying)
  PROVE  /\ Gone' = Gone \cup dying
         /\ OnHeap' = OnHeap \ dying
         /\ \A i \in Nat \ {0} : InScope(i)' = InScope(i) \ dying
<1> USE NullAssumption
<1>1. \A q \in Pointer \ dying : blocks'[q] = blocks[q]
  BY DEF Kill
<1>2. ASSUME NEW q \in dying
      PROVE  blocks'[q].scope = Dead /\ blocks'[q] # Null
  <2>1. blocks'[q] = [blocks[q] EXCEPT !.scope = Dead]
    BY DEF Kill
  <2>2. blocks[q] \in [region : Region, off : Nat, total : Nat, scope : Int]
    BY WhereBlocksAre DEF IInv, TypeOK, Block
  <2>3. blocks'[q].region \in Region /\ blocks'[q].scope = Dead
    BY <2>1, <2>2
  <2>4. QED
    BY <2>3 DEF Null
<1>3. Gone' = Gone \cup dying
  BY <1>1, <1>2 DEF Gone
<1>4. OnHeap' = OnHeap \ dying
  BY <1>1, <1>2 DEF OnHeap, Heap, Dead
<1>5. ASSUME NEW i \in Nat \ {0}
      PROVE  InScope(i)' = InScope(i) \ dying
  BY <1>1, <1>2 DEF InScope, Dead
<1>6. QED
  BY <1>3, <1>4, <1>5

----------------------------------------------------------------------------
(* Every operation is an operation of the store *)

(* A step that leaves blocks and the depth of the stack alone changes       *)
(* nothing in the store.                                                    *)
LEMMA StoreStutters ==
  ASSUME blocks' = blocks, Len(stack') = Len(stack)
  PROVE  UNCHANGED Store!vars
BY DEF Store!vars

(* GETVEC allocates on the heap.                                            *)
LEMMA HeapAllocStores ==
  ASSUME IInv, NEW p \in Pointer, NEW size, bcpl_heap_alloc(p, size)
  PROVE  Store!AllocOnHeap(p)
<1> PICK r \in Region :
      HandOut(p, r, 0, BlockBytes(size), Heap) /\ UNCHANGED stack
  BY DEF bcpl_heap_alloc
<1> DEFINE b == [region |-> r, off |-> 0, total |-> BlockBytes(size), scope |-> Heap]
<1>1. blocks[p] = Null /\ blocks' = [blocks EXCEPT ![p] = b] /\ b.scope = 0
  BY DEF HandOut, Heap
<1> HIDE DEF b
<1>2. /\ Gone' = Gone /\ OnHeap' = OnHeap \cup {p}
      /\ \A i \in Nat \ {0} : InScope(i)' = InScope(i)
  <2>1. b.scope \in Nat
    BY <1>1
  <2>2. /\ Gone' = Gone
        /\ OnHeap' = IF b.scope = 0 THEN OnHeap \cup {p} ELSE OnHeap
        /\ \A i \in Nat \ {0} :
             InScope(i)' = IF b.scope = i THEN InScope(i) \cup {p} ELSE InScope(i)
    BY <1>1, <2>1, HandedOut
  <2>3. \A i \in Nat \ {0} : b.scope # i
    BY <1>1
  <2>4. QED
    BY <1>1, <2>2, <2>3
<1>3. Scopes' = Scopes
  BY <1>2, ScopesType DEF Scopes
<1>4. p \in Store!Fresh
  BY <1>1, FreshBlock
<1>5. QED
  BY <1>2, <1>3, <1>4 DEF Store!AllocOnHeap, Scopes, InScope, OnHeap, Gone

(* A block bumped or grown into the top arena is allocated in the innermost *)
(* scope.                                                                   *)
LEMMA ArenaAllocStores ==
  ASSUME IInv, stack # <<>>, Len(stack') = Len(stack),
         NEW p \in Pointer, NEW r, NEW off, NEW total, HandOut(p, r, off, total, Len(stack))
  PROVE  Store!AllocInScope(p)
<1> DEFINE n == Len(stack)
           b == [region |-> r, off |-> off, total |-> total, scope |-> n]
<1>1. n \in Nat \ {0} /\ 1 .. Len(stack) \subseteq Nat \ {0} /\ n \in 1 .. Len(stack)
  BY DEF IInv, TypeOK
<1>2. blocks[p] = Null /\ blocks' = [blocks EXCEPT ![p] = b] /\ b.scope = n
  BY DEF HandOut
<1> HIDE DEF b
<1>3. /\ Gone' = Gone /\ OnHeap' = OnHeap
      /\ \A i \in Nat \ {0} :
           InScope(i)' = IF n = i THEN InScope(i) \cup {p} ELSE InScope(i)
  BY <1>1, <1>2, HandedOut
<1>4. Len(Scopes) = n /\ DOMAIN Scopes = 1 .. n /\ Scopes # <<>> /\ Scopes[n] = InScope(n)
  BY <1>1, ScopesType DEF Scopes
<1>5. Scopes' = [Scopes EXCEPT ![Len(Scopes)] = @ \cup {p}]
  <2>1. Scopes' = [i \in 1 .. n |-> IF n = i THEN InScope(i) \cup {p} ELSE InScope(i)]
    BY <1>1, <1>3 DEF Scopes
  <2>2. \A i \in 1 .. n : Scopes[i] = InScope(i)
    BY DEF Scopes
  <2> HIDE DEF InScope, n
  <2>3. QED
    BY <1>4, <2>1, <2>2 DEF Scopes
<1>6. p \in Store!Fresh
  BY <1>2, FreshBlock
<1>7. QED
  BY <1>3, <1>4, <1>5, <1>6 DEF Store!AllocInScope, Scopes, InScope, OnHeap, Gone

(* Entering an arena enters a scope.                                        *)
LEMMA EnterStores ==
  ASSUME IInv, bcpl_arena_enter
  PROVE  Store!Enter
<1>1. blocks' = blocks /\ stack' = Append(stack, <<>>)
  BY DEF bcpl_arena_enter
<1>2. Len(stack) \in Nat /\ Len(stack') = Len(stack) + 1
  BY <1>1 DEF IInv, TypeOK
<1>3. InScope(Len(stack) + 1) = {}
  <2> SUFFICES ASSUME NEW q \in Pointer, blocks[q].scope = Len(stack) + 1 PROVE FALSE
    BY DEF InScope
  <2>1. Live(q)
    BY <1>2 DEF Live, Dead
  <2>2. blocks[q].scope = 0 \/ blocks[q].scope \in 1 .. Len(stack)
    BY <2>1, WhereBlocksAre
  <2>3. QED
    BY <2>2, <1>2
<1>4. Scopes' = [i \in 1 .. Len(stack) + 1 |-> InScope(i)]
  BY <1>1, <1>2 DEF Scopes, InScope
<1>5. Scopes' = Append(Scopes, {})
  <2>1. /\ Scopes \in Seq(SUBSET Pointer) /\ Len(Scopes) = Len(stack)
        /\ \A i \in 1 .. Len(stack) : Scopes[i] = InScope(i)
    BY ScopesType DEF Scopes
  <2>2. /\ Append(Scopes, {}) \in Seq(SUBSET Pointer)
        /\ Len(Append(Scopes, {})) = Len(stack) + 1
        /\ \A i \in 1 .. Len(stack) : Append(Scopes, {})[i] = Scopes[i]
        /\ Append(Scopes, {})[Len(stack) + 1] = {}
    BY <2>1, <1>2, AppendProperties
  <2>3. \A i \in 1 .. Len(stack) + 1 : Append(Scopes, {})[i] = InScope(i)
    BY <2>1, <2>2, <1>2, <1>3
  <2>4. Append(Scopes, {}) \in [1 .. Len(stack) + 1 -> SUBSET Pointer]
    BY ONLY <2>2, <1>2, LenProperties
  <2>5. QED
    BY ONLY <1>4, <2>3, <2>4
<1>6. QED
  BY <1>1, <1>5 DEF Store!Enter, Scopes, InScope

(* Freeing arenas leaves their scopes.                                      *)
LEMMA LeaveStores ==
  ASSUME IInv, NEW h \in Int, 0 <= h, h < Len(stack),
         stack' = SubSeq(stack, 1, h), Kill(LiveIn(RegionsOf(ArenasFrom(h))))
  PROVE  Store!Leave(h)
<1> DEFINE dying == LiveIn(RegionsOf(ArenasFrom(h)))
           left == (h + 1) .. Len(stack)
<1>1. Len(stack) \in Nat /\ h \in 0 .. Len(stack) /\ left \subseteq 1 .. Len(stack)
  BY DEF IInv, TypeOK
<1>2. \A q \in Pointer : q \in dying <=> blocks[q].scope \in left
  <2>1. \A r : r \in RegionsOf(ArenasFrom(h)) <=>
          \E a \in left : \E k \in 1 .. Len(stack[a]) : r = stack[a][k].region
    BY DEF RegionsOf, ArenasFrom, ChunksOf
  <2>2. QED
    BY <1>1, <2>1, BlocksOfArenas
<1>3. dying \in SUBSET Pointer /\ \A q \in dying : Live(q)
  BY DEF LiveIn
<1> HIDE DEF dying
<1>k. Kill(dying)
  BY DEF dying
<1>4. /\ Gone' = Gone \cup dying /\ OnHeap' = OnHeap \ dying
      /\ \A i \in Nat \ {0} : InScope(i)' = InScope(i) \ dying
  BY <1>3, <1>k, KilledBlocksGone
<1>5. OnHeap' = OnHeap
  BY <1>1, <1>2, <1>4 DEF OnHeap, Heap
<1>6. \A i \in 1 .. h : InScope(i)' = InScope(i)
  BY <1>1, <1>2, <1>4 DEF InScope
<1>7. dying = UNION {Scopes[i] : i \in left}
  <2>1. \A i \in left : Scopes[i] = InScope(i)
    BY <1>1 DEF Scopes
  <2>2. dying = UNION {InScope(i) : i \in left}
    BY <1>2, <1>3 DEF InScope
  <2>3. QED
    BY <2>1, <2>2
<1>8. Scopes' = SubSeq(Scopes, 1, h)
  <2>1. Len(stack') = h
    BY <1>1 DEF IInv, TypeOK
  <2>2. Scopes' = [i \in 1 .. h |-> InScope(i)]
    BY <1>6, <2>1 DEF Scopes
  <2>3. /\ Scopes \in Seq(SUBSET Pointer) /\ Len(Scopes) = Len(stack)
        /\ \A i \in 1 .. h : Scopes[i] = InScope(i)
    BY <1>1, ScopesType DEF Scopes
  <2>4. /\ SubSeq(Scopes, 1, h) \in [1 .. h -> SUBSET Pointer]
        /\ \A i \in 1 .. h : SubSeq(Scopes, 1, h)[i] = Scopes[i]
    <3>1. /\ SubSeq(Scopes, 1, h) \in Seq(SUBSET Pointer)
          /\ Len(SubSeq(Scopes, 1, h)) = h
          /\ \A i \in 1 .. h : SubSeq(Scopes, 1, h)[i] = Scopes[i]
      BY ONLY <1>1, <2>3
    <3>2. QED
      BY ONLY <3>1, LenProperties
  <2>5. QED
    BY ONLY <2>2, <2>3, <2>4
<1>9. left = h + 1 .. Len(Scopes)
  BY ScopesType
<1>10. QED
  BY <1>4, <1>5, <1>7, <1>8, <1>9 DEF Store!Leave, Scopes, InScope, OnHeap, Gone

(* Resetting an arena rewinds its scope.                                    *)
LEMMA RewindStores ==
  ASSUME IInv, NEW n \in 1 .. Len(stack), Len(stack') = Len(stack),
         Kill(LiveIn(RegionsOf(ChunksOf(n, 1))))
  PROVE  Store!Rewind(n)
<1> DEFINE dying == LiveIn(RegionsOf(ChunksOf(n, 1)))
<1>1. Len(stack) \in Nat /\ n \in Nat \ {0} /\ 1 .. Len(stack) \subseteq Nat \ {0}
  BY DEF IInv, TypeOK
<1>2. \A q \in Pointer : q \in dying <=> blocks[q].scope = n
  <2>1. \A r : r \in RegionsOf(ChunksOf(n, 1)) <=>
          \E a \in {n} : \E k \in 1 .. Len(stack[a]) : r = stack[a][k].region
    BY DEF RegionsOf, ChunksOf
  <2>2. \A q \in Pointer : q \in dying <=> blocks[q].scope \in {n}
    BY <2>1, BlocksOfArenas
  <2>3. QED
    BY <2>2
<1>3. dying \in SUBSET Pointer /\ \A q \in dying : Live(q)
  BY DEF LiveIn
<1> HIDE DEF dying
<1>k. Kill(dying)
  BY DEF dying
<1>4. /\ Gone' = Gone \cup dying /\ OnHeap' = OnHeap \ dying
      /\ \A i \in Nat \ {0} : InScope(i)' = InScope(i) \ dying
  BY <1>3, <1>k, KilledBlocksGone
<1>5. OnHeap' = OnHeap
  BY <1>1, <1>2, <1>4 DEF OnHeap, Heap
<1>6. \A i \in 1 .. Len(stack) : InScope(i)' = IF i = n THEN {} ELSE InScope(i)
  BY <1>1, <1>2, <1>4 DEF InScope
<1>7. dying = InScope(n)
  BY <1>2, <1>3 DEF InScope
<1>8. Scopes[n] = InScope(n) /\ DOMAIN Scopes = 1 .. Len(stack)
  BY DEF Scopes
<1>9. Scopes' = [Scopes EXCEPT ![n] = {}]
  <2>1. Scopes' = [i \in 1 .. Len(stack) |-> IF i = n THEN {} ELSE InScope(i)]
    BY <1>6 DEF Scopes
  <2>2. \A i \in 1 .. Len(stack) : Scopes[i] = InScope(i)
    BY DEF Scopes
  <2> HIDE DEF InScope
  <2>3. QED
    BY <1>8, <2>1, <2>2
<1>10. QED
  BY <1>4, <1>5, <1>7, <1>8, <1>9 DEF Store!Rewind, Scopes, InScope, OnHeap, Gone

(* FREEVEC frees the one block of the region it gives back, or nothing.     *)
LEMMA ReleaseKillsOne ==
  ASSUME IInv, NEW p \in Pointer, NEW h \in headers, h.tag = "HEAP", Release(p, h)
  PROVE  /\ use[h.region] = "heap" /\ h.region \in Region
         /\ Kill(LiveIn({h.region}))
         /\ LiveIn({h.region}) = {} \/ \E q \in Pointer : LiveIn({h.region}) = {q}
<1>1. use[h.region] = "heap" /\ h.region \in Region
  BY DEF IInv, TagsTellProvenance, TypeOK, Header
<1>2. Kill(LiveIn({h.region}))
  BY DEF Release
<1>3. ASSUME NEW q \in LiveIn({h.region})
      PROVE  q \in Pointer /\ LiveIn({h.region}) = {q}
  BY <1>1, OneBlockPerHeapRegion DEF LiveIn
<1>4. QED
  BY <1>1, <1>2, <1>3

LEMMA FreeStores ==
  ASSUME IInv, NEW p \in Pointer, bcpl_heap_free(p)
  PROVE  (\E q \in Pointer : Store!Free(q)) \/ UNCHANGED Store!vars
<1>1. CASE Ignore(p)
  BY <1>1, StoreStutters DEF Ignore
<1>2. ASSUME NEW h \in headers, h.tag = "HEAP", Release(p, h)
      PROVE  (\E q \in Pointer : Store!Free(q)) \/ UNCHANGED Store!vars
  <2> DEFINE dying == LiveIn({h.region})
  <2>1. /\ use[h.region] = "heap" /\ h.region \in Region /\ Kill(dying)
        /\ dying = {} \/ \E q \in Pointer : dying = {q}
    BY <1>2, ReleaseKillsOne
  <2>2. stack' = stack
    BY <1>2 DEF Release
  <2>3. dying \in SUBSET Pointer /\ \A q \in dying : Live(q) /\ blocks[q].region = h.region
    BY DEF LiveIn
  <2> HIDE DEF dying
  <2>4. /\ Gone' = Gone \cup dying /\ OnHeap' = OnHeap \ dying
        /\ \A i \in Nat \ {0} : InScope(i)' = InScope(i) \ dying
    BY <2>1, <2>3, KilledBlocksGone
  <2>5. \A q \in dying : blocks[q].scope = 0
    BY <2>1, <2>3, WhereBlocksAre
  <2>6. Scopes' = Scopes
    <3>1. \A i \in 1 .. Len(stack) : InScope(i)' = InScope(i)
      <4>1. 1 .. Len(stack) \subseteq Nat \ {0}
        BY ScopesType
      <4>2. QED
        BY <4>1, <2>4, <2>5 DEF InScope
    <3>2. QED
      BY <2>2, <3>1 DEF Scopes
  <2>7. CASE dying = {}
    BY <2>4, <2>6, <2>7 DEF Store!vars, Scopes, InScope, OnHeap, Gone
  <2>8. ASSUME NEW q \in Pointer, dying = {q}
        PROVE  Store!Free(q)
    <3>1. q \in OnHeap
      BY <2>5, <2>8 DEF OnHeap, Heap
    <3>2. QED
      BY <3>1, <2>4, <2>6, <2>8 DEF Store!Free, Scopes, InScope, OnHeap, Gone
  <2>9. QED
    BY <2>1, <2>7, <2>8
<1>3. QED
  BY <1>1, <1>2 DEF bcpl_heap_free

(* A request without a scope goes to the heap, any other into the innermost *)
(* scope, whichever chunk it ends up in.                                    *)
LEMMA AllocRecStores ==
  ASSUME IInv, NEW p \in Pointer, NEW size, alloc_rec_arena(p, size)
  PROVE  Store!AllocOnHeap(p) \/ Store!AllocInScope(p)
<1> DEFINE total == BlockBytes(size)
<1> HIDE DEF total
<1>t. stack \in Seq(Seq(Chunk))
  BY DEF IInv, TypeOK
<1>1. CASE stack # <<>> /\ ArenaBump(p, total)
  <2>1. PICK c : stack' = [stack EXCEPT ![Len(stack)] = c]
    BY <1>1 DEF ArenaBump
  <2>2. Len(stack') = Len(stack)
    BY <1>t, <2>1
  <2>3. HandOut(p, Last.region, round_up(Last.used), total, Len(stack))
    BY <1>1 DEF ArenaBump
  <2>4. QED
    BY <1>1, <2>2, <2>3, ArenaAllocStores
<1>2. CASE stack # <<>> /\ ArenaGrow(p, total)
  <2>1. PICK r \in Region : \E c : /\ stack' = [stack EXCEPT ![Len(stack)] = c]
                                   /\ HandOut(p, r, 0, total, Len(stack))
    BY <1>2 DEF ArenaGrow
  <2>2. Len(stack') = Len(stack)
    BY <1>t, <2>1
  <2>3. QED
    BY <1>2, <2>1, <2>2, ArenaAllocStores
<1>3. CASE bcpl_heap_alloc(p, round_up(LargerOf(size, 1)))
  BY <1>3, HeapAllocStores
<1>4. QED
  BY <1>1, <1>2, <1>3 DEF alloc_rec_arena, total

(* Each step of the runtime is a step of the store, or none.                *)
LEMMA NextStores ==
  ASSUME IInv, [Next]_vars
  PROVE  [Store!Next]_(Store!vars)
<1>s. ASSUME UNCHANGED vars
      PROVE  UNCHANGED Store!vars
  BY <1>s, StoreStutters DEF vars
<1>l. Len(Scopes) = Len(stack) /\ Len(stack) \in Nat
  BY ScopesType
<1>1. ASSUME NEW p \in Pointer, NEW size \in Payload, bcpl_heap_alloc(p, size)
      PROVE  Store!Next
  BY <1>1, HeapAllocStores DEF Store!Next
<1>2. ASSUME NEW p \in Pointer, bcpl_heap_free(p)
      PROVE  [Store!Next]_(Store!vars)
  BY <1>2, FreeStores DEF Store!Next
<1>3. CASE bcpl_arena_enter
  BY <1>3, EnterStores DEF Store!Next
<1>4. ASSUME NEW p \in Pointer, NEW size \in Payload, alloc_rec_arena(p, size)
      PROVE  Store!Next
  BY <1>4, AllocRecStores DEF Store!Next
<1>5. ASSUME NEW h \in Int, bcpl_arena_free(h)
      PROVE  [Store!Next]_(Store!vars)
  <2>1. CASE UNCHANGED vars
    BY <2>1, <1>s
  <2>2. CASE /\ 0 <= h /\ h < Len(stack)
             /\ stack' = SubSeq(stack, 1, h)
             /\ Kill(LiveIn(RegionsOf(ArenasFrom(h))))
    <3>1. Store!Leave(h)
      BY <2>2, LeaveStores
    <3>2. h \in 0 .. Len(Scopes) - 1
      BY <2>2, <1>l
    <3>3. QED
      BY <3>1, <3>2 DEF Store!Next, Scopes, InScope
  <2>3. QED
    BY <1>5, <2>1, <2>2 DEF bcpl_arena_free
<1>6. ASSUME NEW h \in Int, bcpl_arena_reset(h)
      PROVE  [Store!Next]_(Store!vars)
  <2>1. CASE UNCHANGED vars
    BY <2>1, <1>s
  <2>2. CASE /\ 0 <= h /\ h < Len(stack)
             /\ stack' = [stack EXCEPT ![h + 1] = Rewound(h + 1)]
             /\ Kill(LiveIn(RegionsOf(ChunksOf(h + 1, 1))))
    <3>1. h + 1 \in 1 .. Len(stack)
      BY <2>2, <1>l
    <3>2. Len(stack') = Len(stack)
      BY <2>2 DEF IInv, TypeOK
    <3>3. Store!Rewind(h + 1)
      BY <2>2, <3>1, <3>2, RewindStores
    <3>4. h + 1 \in 1 .. Len(Scopes)
      BY <3>1, <1>l
    <3>5. QED
      BY <3>3, <3>4 DEF Store!Next, Scopes, InScope
  <2>3. QED
    BY <1>6, <2>1, <2>2 DEF bcpl_arena_reset
<1>7. ASSUME NEW p \in Pointer, NEW q \in Pointer, NEW size \in Payload,
             bcpl_promote(p, q, size)
      PROVE  [Store!Next]_(Store!vars)
  BY <1>7, <1>1, <1>s DEF bcpl_promote
<1>8. QED
  BY <1>s, <1>1, <1>2, <1>3, <1>4, <1>5, <1>6, <1>7 DEF Next, Handles

(* The runtime starts with an empty store.                                  *)
LEMMA InitStores ==
  ASSUME Init
  PROVE  Store!Init
<1>1. Len(stack) = 0 /\ \A p \in Pointer : blocks[p] = Null /\ blocks[p].scope = Dead
  BY DEF Init, Null
<1>2. Scopes = <<>>
  BY <1>1 DEF Scopes
<1>3. OnHeap = {} /\ Gone = {}
  BY <1>1 DEF OnHeap, Gone, Heap, Dead
<1>4. QED
  BY <1>2, <1>3 DEF Store!Init, Scopes, InScope, OnHeap, Gone

(* heap.rs keeps what ScopedStore promises: a block lives exactly until its *)
(* scope is left or rewound, or until it is freed.                          *)
THEOREM Refinement == Spec => StoreSpec
<1>1. Init => Store!Init
  BY InitStores
<1>2. IInv /\ [Next]_vars => [Store!Next]_(Store!vars)
  BY NextStores
<1>3. QED
  BY <1>1, <1>2, Invariance, PTL DEF Spec, StoreSpec, Store!Spec

----------------------------------------------------------------------------
(* What a FREEVEC releases *)

(* A set of one element, or none, has as many.                              *)
LEMMA CardinalityOfOne ==
  ASSUME NEW S, S = {} \/ \E x : S = {x}
  PROVE  Cardinality(S) <= 1 /\ (S # {} => Cardinality(S) = 1)
<1>1. CASE S = {}
  BY <1>1, FS_EmptySet
<1>2. ASSUME NEW x, S = {x}
      PROVE  Cardinality(S) = 1
  BY <1>2, FS_Singleton, Zenon
<1>3. QED
  BY <1>1, <1>2

(* A step that is no FREEVEC releases nothing.                              *)
LEMMA QuietReleasesNone ==
  ASSUME Quiet
  PROVE  FreeReleasesOne'
BY FS_EmptySet DEF Quiet, FreeReleasesOne, Null, Dead, Heap

(* FREEVEC through a live pointer releases its block if it is on the heap.  *)
LEMMA FreeReleasesItsBlock ==
  ASSUME IInv, NEW p \in Pointer, bcpl_heap_free(p)
  PROVE  FreeReleasesOne'
<1> DEFINE sc == blocks[p].scope
<1>t. sc \in Int
  BY DEF IInv, TypeOK, Block, Null, Dead
<1>1. sc >= 0 => Live(p) /\ (is_heap_block(p) <=> sc = 0)
  BY DEF IInv, TagsTellProvenance, Live, Dead, Heap
<1> HIDE DEF sc
<1>2. CASE Ignore(p)
  <2>1. lastFree' = [arg |-> blocks[p], killed |-> {}] /\ ~ is_heap_block(p)
    BY <1>2 DEF Ignore
  <2>2. lastFree'.arg.scope = sc /\ lastFree'.killed = {}
    BY <2>1 DEF sc
  <2>3. sc # 0
    BY <1>1, <2>1
  <2>4. QED
    BY <2>2, <2>3, FS_EmptySet DEF FreeReleasesOne, Heap
<1>3. ASSUME NEW h \in headers, h.region = blocks[p].region, h.off = blocks[p].off,
             h.tag = "HEAP", Release(p, h)
      PROVE  FreeReleasesOne'
  <2> DEFINE dying == LiveIn({h.region})
  <2>1. dying = {} \/ \E q \in Pointer : dying = {q}
    BY <1>3, ReleaseKillsOne
  <2>2. lastFree'.arg.scope = sc /\ lastFree'.killed = dying
    BY <1>3 DEF Release, sc
  <2>3. is_heap_block(p)
    BY <1>3 DEF is_heap_block, HasTag
  <2>4. sc = 0 => p \in dying
    BY <1>1, <1>3 DEF LiveIn
  <2>5. ~ (sc > 0)
    BY <1>1, <1>t, <2>3
  <2> HIDE DEF dying
  <2>6. Cardinality(dying) <= 1 /\ (dying # {} => Cardinality(dying) = 1)
    BY <2>1, CardinalityOfOne
  <2>7. QED
    BY <2>2, <2>4, <2>5, <2>6 DEF FreeReleasesOne, Heap
<1>4. QED
  BY <1>2, <1>3 DEF bcpl_heap_free

(* No operation makes a FREEVEC release more than it may.                   *)
LEMMA NextReleasesOne ==
  ASSUME IInv, FreeReleasesOne, [Next]_vars
  PROVE  FreeReleasesOne'
<1>1. ASSUME UNCHANGED vars
      PROVE  FreeReleasesOne'
  BY <1>1 DEF vars, FreeReleasesOne
<1>2. ASSUME NEW p \in Pointer, NEW size, bcpl_heap_alloc(p, size)
      PROVE  FreeReleasesOne'
  BY <1>2, QuietReleasesNone DEF bcpl_heap_alloc
<1>3. ASSUME NEW p \in Pointer, bcpl_heap_free(p)
      PROVE  FreeReleasesOne'
  BY <1>3, FreeReleasesItsBlock
<1>4. CASE bcpl_arena_enter
  BY <1>4, QuietReleasesNone DEF bcpl_arena_enter
<1>5. ASSUME NEW p \in Pointer, NEW size \in Payload, alloc_rec_arena(p, size)
      PROVE  FreeReleasesOne'
  BY <1>2, <1>5, QuietReleasesNone DEF alloc_rec_arena, ArenaBump, ArenaGrow
<1>6. ASSUME NEW h \in Handles, bcpl_arena_free(h)
      PROVE  FreeReleasesOne'
  BY <1>1, <1>6, QuietReleasesNone DEF bcpl_arena_free
<1>7. ASSUME NEW h \in Handles, bcpl_arena_reset(h)
      PROVE  FreeReleasesOne'
  BY <1>1, <1>7, QuietReleasesNone DEF bcpl_arena_reset
<1>8. ASSUME NEW p \in Pointer, NEW q \in Pointer, NEW size \in Payload,
             bcpl_promote(p, q, size)
      PROVE  FreeReleasesOne'
  BY <1>1, <1>2, <1>8 DEF bcpl_promote
<1>9. QED
  BY <1>1, <1>2, <1>3, <1>4, <1>5, <1>6, <1>7, <1>8 DEF Next

(* FREEVEC through a live pointer releases that pointer's block if it is on *)
(* the heap and nothing if it is in an arena, and no FREEVEC, stale ones    *)
(* included, releases more than one block.                                  *)
THEOREM OneAtATime == Spec => []FreeReleasesOne
<1>1. Init => FreeReleasesOne
  BY FS_EmptySet DEF Init, FreeReleasesOne, Null, Dead, Heap
<1>2. IInv /\ FreeReleasesOne /\ [Next]_vars => FreeReleasesOne'
  BY NextReleasesOne
<1>3. QED
  BY <1>1, <1>2, Invariance, PTL DEF Spec

----------------------------------------------------------------------------
(* No memory is lost *)

(* A heap region has a live block, and a chunk is on the arena stack.       *)
HeapReached ==
  \A r \in Region : use[r] = "heap" => \E q \in Pointer : Live(q) /\ blocks[q].region = r

ChunksReached ==
  \A r \in Region : use[r] = "chunk" =>
    \E a \in 1 .. Len(stack) : \E k \in 1 .. Len(stack[a]) : stack[a][k].region = r

Reached == HeapReached /\ ChunksReached

(* A live block keeps its region, whatever is handed out to others.         *)
LEMMA HandOutKeeps ==
  ASSUME IInv, NEW p \in Pointer, NEW r, NEW off, NEW total, NEW scope \in Nat,
         HandOut(p, r, off, total, scope)
  PROVE  /\ Live(p)' /\ blocks'[p].region = r
         /\ \A q \in Pointer : Live(q) => Live(q)' /\ blocks'[q] = blocks[q]
<1> DEFINE b == [region |-> r, off |-> off, total |-> total, scope |-> scope]
<1>1. b.region = r /\ b.scope = scope /\ scope # Dead
  BY DEF Dead
<1>2. blocks[p] = Null /\ blocks' = [blocks EXCEPT ![p] = b]
  BY DEF HandOut
<1> HIDE DEF b
<1>3. blocks'[p] = b /\ \A q \in Pointer : q # p => blocks'[q] = blocks[q]
  BY <1>2 DEF IInv, TypeOK
<1>4. ~ Live(p)
  BY <1>2 DEF Live, Null
<1>5. QED
  BY <1>1, <1>3, <1>4 DEF Live

(* Blocks that are not killed live on.                                      *)
LEMMA KillKeeps ==
  ASSUME NEW dying, Kill(dying), NEW q \in Pointer, q \notin dying, Live(q)
  PROVE  Live(q)' /\ blocks'[q] = blocks[q]
BY DEF Kill, Live

(* The new heap block is the one its region has.                            *)
LEMMA HeapAllocReached ==
  ASSUME IInv, Reached, NEW p \in Pointer, NEW size, bcpl_heap_alloc(p, size)
  PROVE  Reached'
<1>1. PICK r \in Region : /\ use' = [use EXCEPT ![r] = "heap"] /\ UNCHANGED stack
                          /\ HandOut(p, r, 0, BlockBytes(size), Heap)
  BY DEF bcpl_heap_alloc
<1>2. use'[r] = "heap" /\ \A s \in Region : s # r => use'[s] = use[s]
  BY <1>1 DEF IInv, TypeOK
<1>3. /\ Live(p)' /\ blocks'[p].region = r
      /\ \A q \in Pointer : Live(q) => Live(q)' /\ blocks'[q] = blocks[q]
  BY <1>1, HandOutKeeps, Heap \in Nat DEF Heap
<1>4. HeapReached'
  BY <1>2, <1>3 DEF Reached, HeapReached
<1>5. ChunksReached'
  BY <1>1, <1>2 DEF Reached, ChunksReached
<1>6. QED
  BY <1>4, <1>5 DEF Reached

(* A released region is free and the others keep their blocks.              *)
LEMMA HeapFreeReached ==
  ASSUME IInv, Reached, NEW p \in Pointer, bcpl_heap_free(p)
  PROVE  Reached'
<1>1. CASE Ignore(p)
  BY <1>1 DEF Ignore, Reached, HeapReached, ChunksReached, Live
<1>2. ASSUME NEW h \in headers, h.tag = "HEAP", Release(p, h)
      PROVE  Reached'
  <2>1. /\ use' = [use EXCEPT ![h.region] = "free"] /\ UNCHANGED stack
        /\ Kill(LiveIn({h.region}))
    BY <1>2 DEF Release
  <2>2. \A s \in Region : /\ s = h.region => use'[s] = "free"
                          /\ s # h.region => use'[s] = use[s]
    BY <2>1 DEF IInv, TypeOK
  <2>3. \A q \in Pointer : Live(q) /\ blocks[q].region # h.region =>
          Live(q)' /\ blocks'[q] = blocks[q]
    BY <2>1, KillKeeps DEF LiveIn
  <2>4. HeapReached'
    BY <2>2, <2>3 DEF Reached, HeapReached
  <2>5. ChunksReached'
    BY <2>1, <2>2 DEF Reached, ChunksReached
  <2>6. QED
    BY <2>4, <2>5 DEF Reached
<1>3. QED
  BY <1>1, <1>2 DEF bcpl_heap_free

(* A new arena changes no chunk.                                            *)
LEMMA EnterReached ==
  ASSUME IInv, Reached, bcpl_arena_enter
  PROVE  Reached'
<1>1. use' = use /\ blocks' = blocks /\ stack' = Append(stack, <<>>)
  BY DEF bcpl_arena_enter
<1>2. \A a \in 1 .. Len(stack) : a \in 1 .. Len(stack') /\ stack'[a] = stack[a]
  BY <1>1 DEF IInv, TypeOK
<1>3. ChunksReached'
  BY <1>1, <1>2 DEF Reached, ChunksReached
<1>4. QED
  BY <1>1, <1>3 DEF Reached, HeapReached, Live

(* An allocation in an arena leaves every chunk on the stack and puts a new *)
(* one there.                                                               *)
LEMMA AllocRecReached ==
  ASSUME IInv, Reached, NEW p \in Pointer, NEW size \in Nat, alloc_rec_arena(p, size)
  PROVE  Reached'
<1> DEFINE total == BlockBytes(size)
           n == Len(stack)
           m == Len(stack[n])
<1>t. stack \in Seq(Seq(Chunk)) /\ n \in Nat
  BY DEF IInv, TypeOK
<1>b. total \in Nat
  BY BlockBytesBound
<1> HIDE DEF total
<1>1. CASE stack # <<>> /\ ArenaBump(p, total)
  <2> DEFINE c == [stack[n][m] EXCEPT !.used = round_up(Last.used) + total]
  <2>1. /\ stack' = [stack EXCEPT ![n] = [stack[n] EXCEPT ![m] = c]] /\ use' = use
        /\ HandOut(p, Last.region, round_up(Last.used), total, n)
    BY <1>1 DEF ArenaBump, Last, Top
  <2>2. n \in 1 .. Len(stack) /\ m \in 1 .. Len(stack[n])
    <3>1. n \in 1 .. Len(stack)
      BY <1>1, <1>t
    <3>2. stack[n] \in Seq(Chunk) /\ stack[n] # <<>>
      BY <1>1, <1>t, <3>1 DEF ArenaBump, Fits, Top
    <3>3. QED
      BY <3>1, <3>2
  <2>3. c \in Chunk /\ c.region = stack[n][m].region
    <3>1. stack[n][m] \in Chunk /\ Last = stack[n][m]
      BY <1>t, <2>2, ChunkType DEF Last, Top
    <3>2. round_up(Last.used) \in Nat
      BY <3>1, RoundUp DEF Chunk
    <3>3. ASSUME NEW d \in Chunk, NEW x \in Nat
          PROVE  [d EXCEPT !.used = x] \in Chunk /\ [d EXCEPT !.used = x].region = d.region
      BY DEF Chunk
    <3>4. round_up(Last.used) + total \in Nat
      BY <1>b, <3>2
    <3>5. QED
      BY <3>1, <3>3, <3>4
  <2> HIDE DEF c, m
  <2>4. /\ Len(stack') = Len(stack)
        /\ \A a \in 1 .. Len(stack) : Len(stack'[a]) = Len(stack[a])
        /\ \A a \in 1 .. Len(stack) : \A k \in 1 .. Len(stack[a]) :
             stack'[a][k] = IF a = n /\ k = m THEN c ELSE stack[a][k]
    BY <1>t, <2>1, <2>2, <2>3, ElementReplaced
  <2>5. ChunksReached'
    BY <2>1, <2>3, <2>4 DEF Reached, ChunksReached
  <2>6. \A q \in Pointer : Live(q) => Live(q)' /\ blocks'[q] = blocks[q]
    BY <1>t, <2>1, HandOutKeeps
  <2>7. HeapReached'
    BY <2>1, <2>6 DEF Reached, HeapReached
  <2>8. QED
    BY <2>5, <2>7 DEF Reached
<1>2. CASE stack # <<>> /\ ArenaGrow(p, total)
  <2>1. PICK r \in Region :
          /\ use' = [use EXCEPT ![r] = "chunk"]
          /\ stack' = [stack EXCEPT ![n] =
               Append(stack[n], [region |-> r, cap |-> ChunkCap(total), used |-> total])]
          /\ HandOut(p, r, 0, total, n)
    BY <1>2 DEF ArenaGrow, Top
  <2> DEFINE c == [region |-> r, cap |-> ChunkCap(total), used |-> total]
  <2>2. n \in 1 .. Len(stack)
    BY <1>2, <1>t
  <2>3. c \in Chunk /\ c.region = r
    BY <1>b, ChunkAssumption DEF Chunk, ChunkCap, LargerOf
  <2> HIDE DEF c
  <2>4. stack' = [stack EXCEPT ![n] = Append(stack[n], c)]
    BY <2>1 DEF c
  <2>5. /\ Len(stack') = Len(stack)
        /\ \A a \in 1 .. Len(stack) : \A k \in 1 .. Len(stack[a]) :
             k \in 1 .. Len(stack'[a]) /\ stack'[a][k] = stack[a][k]
        /\ Len(stack[n]) + 1 \in 1 .. Len(stack'[n]) /\ stack'[n][Len(stack[n]) + 1] = c
    BY <1>t, <2>2, <2>3, <2>4, ElementAppended
  <2>6. use'[r] = "chunk" /\ \A s \in Region : s # r => use'[s] = use[s]
    BY <2>1 DEF IInv, TypeOK
  <2>7. ChunksReached'
    <3>1. stack'[n][Len(stack[n]) + 1].region = r /\ n \in 1 .. Len(stack')
      BY <2>2, <2>3, <2>5
    <3>2. ASSUME NEW s \in Region, s # r, use'[s] = "chunk"
          PROVE  \E a \in 1 .. Len(stack') : \E k \in 1 .. Len(stack'[a]) : stack'[a][k].region = s
      <4>1. use[s] = "chunk"
        BY <2>6, <3>2
      <4>2. PICK a \in 1 .. Len(stack) : \E k \in 1 .. Len(stack[a]) : stack[a][k].region = s
        BY <4>1 DEF Reached, ChunksReached
      <4>3. QED
        BY <2>5, <4>2
    <3>3. QED
      BY <2>5, <3>1, <3>2 DEF ChunksReached
  <2>8. \A q \in Pointer : Live(q) => Live(q)' /\ blocks'[q] = blocks[q]
    BY <1>t, <2>1, HandOutKeeps
  <2>9. HeapReached'
    BY <2>6, <2>8 DEF Reached, HeapReached
  <2>10. QED
    BY <2>7, <2>9 DEF Reached
<1>3. CASE bcpl_heap_alloc(p, round_up(LargerOf(size, 1)))
  BY <1>3, HeapAllocReached
<1>4. QED
  BY <1>1, <1>2, <1>3 DEF alloc_rec_arena, total

(* Dropped chunks are free, the others stay on the stack, and no heap block *)
(* dies.                                                                    *)
LEMMA DropReached ==
  ASSUME IInv, Reached, NEW gone, NEW mine,
         use' = [r \in Region |-> IF r \in gone THEN "free" ELSE use[r]],
         Kill(LiveIn(mine)), \A r \in mine : use[r] = "chunk",
         \A a \in 1 .. Len(stack) : \A k \in 1 .. Len(stack[a]) :
           \/ stack[a][k].region \in gone
           \/ /\ a \in 1 .. Len(stack') /\ k \in 1 .. Len(stack'[a])
              /\ stack'[a][k].region = stack[a][k].region
  PROVE  Reached'
<1>1. \A r \in Region : /\ r \in gone => use'[r] = "free"
                        /\ r \notin gone => use'[r] = use[r]
  OBVIOUS
<1>2. ChunksReached'
  BY <1>1 DEF Reached, ChunksReached
<1>3. \A q \in Pointer : Live(q) /\ use[blocks[q].region] = "heap" =>
        Live(q)' /\ blocks'[q] = blocks[q]
  BY KillKeeps DEF LiveIn
<1>4. HeapReached'
  BY <1>1, <1>3 DEF Reached, HeapReached
<1>5. QED
  BY <1>2, <1>4 DEF Reached

(* Leaving scopes drops the chunks of their arenas.                         *)
LEMMA ArenaFreeReached ==
  ASSUME IInv, Reached, NEW h \in Int, bcpl_arena_free(h)
  PROVE  Reached'
<1>1. CASE UNCHANGED vars
  BY <1>1 DEF vars, Reached, HeapReached, ChunksReached, Live
<1>2. CASE /\ 0 <= h /\ h < Len(stack)
           /\ Drop(ArenasFrom(h))
           /\ stack' = SubSeq(stack, 1, h)
           /\ Kill(LiveIn(RegionsOf(ArenasFrom(h))))
  <2> DEFINE gone == RegionsOf(ArenasFrom(h))
  <2>t. stack \in Seq(Seq(Chunk)) /\ Len(stack) \in Nat /\ h \in 0 .. Len(stack)
    BY <1>2 DEF IInv, TypeOK
  <2>1. \A r : r \in gone <=>
          \E a \in (h + 1) .. Len(stack) : \E k \in 1 .. Len(stack[a]) : r = stack[a][k].region
    BY DEF RegionsOf, ArenasFrom, ChunksOf
  <2>2. use' = [r \in Region |-> IF r \in gone THEN "free" ELSE use[r]]
    BY <1>2 DEF Drop
  <2>k. Kill(LiveIn(gone))
    BY <1>2
  <2> HIDE DEF gone
  <2>3. \A r \in gone : use[r] = "chunk"
    <3> SUFFICES ASSUME NEW a \in (h + 1) .. Len(stack), NEW k \in 1 .. Len(stack[a])
                 PROVE  use[stack[a][k].region] = "chunk"
      BY <2>1
    <3>1. a \in 1 .. Len(stack)
      BY <2>t
    <3>2. QED
      BY <3>1 DEF IInv, ChunksOwned
  <2>4. \A a \in 1 .. h : a \in 1 .. Len(stack') /\ stack'[a] = stack[a]
    BY <1>2, <2>t
  <2>5. \A a \in 1 .. Len(stack) : a \in 1 .. h \/ a \in (h + 1) .. Len(stack)
    BY <2>t
  <2>6. ASSUME NEW a \in 1 .. Len(stack), NEW k \in 1 .. Len(stack[a])
        PROVE  \/ stack[a][k].region \in gone
               \/ /\ a \in 1 .. Len(stack') /\ k \in 1 .. Len(stack'[a])
                  /\ stack'[a][k].region = stack[a][k].region
    <3>1. CASE a \in 1 .. h
      BY <2>4, <3>1
    <3>2. CASE a \in (h + 1) .. Len(stack)
      BY <2>1, <3>2
    <3>3. QED
      BY <2>5, <3>1, <3>2
  <2>7. QED
    BY <2>2, <2>k, <2>3, <2>6, DropReached
<1>3. QED
  BY <1>1, <1>2 DEF bcpl_arena_free

(* A reset keeps the first chunk of its arena and drops the others.         *)
LEMMA ArenaResetReached ==
  ASSUME IInv, Reached, NEW h \in Int, bcpl_arena_reset(h)
  PROVE  Reached'
<1>1. CASE UNCHANGED vars
  BY <1>1 DEF vars, Reached, HeapReached, ChunksReached, Live
<1>2. CASE /\ 0 <= h /\ h < Len(stack)
           /\ Drop(ChunksOf(h + 1, 2))
           /\ stack' = [stack EXCEPT ![h + 1] = Rewound(h + 1)]
           /\ Kill(LiveIn(RegionsOf(ChunksOf(h + 1, 1))))
  <2> DEFINE n == h + 1
             gone == RegionsOf(ChunksOf(n, 2))
             mine == RegionsOf(ChunksOf(n, 1))
             d == Rewound(n)
  <2>t. /\ stack \in Seq(Seq(Chunk)) /\ Len(stack) \in Nat /\ n \in 1 .. Len(stack)
        /\ Len(stack[n]) \in Nat
    BY <1>2 DEF IInv, TypeOK
  <2>1. /\ \A r : r \in gone <=> \E k \in 2 .. Len(stack[n]) : r = stack[n][k].region
        /\ \A r : r \in mine <=> \E k \in 1 .. Len(stack[n]) : r = stack[n][k].region
    BY DEF RegionsOf, ChunksOf
  <2>2. use' = [r \in Region |-> IF r \in gone THEN "free" ELSE use[r]]
    BY <1>2 DEF Drop
  <2>3. stack' = [stack EXCEPT ![n] = d] /\ Kill(LiveIn(mine))
    BY <1>2
  <2>4. 1 \in 1 .. Len(stack[n]) =>
          1 \in 1 .. Len(d) /\ d[1].region = stack[n][1].region
    <3> HAVE 1 \in 1 .. Len(stack[n])
    <3>1. SmallerOf(1, Len(stack[n])) = 1
      BY <2>t DEF SmallerOf
    <3>2. d = [k \in 1 .. 1 |-> [stack[n][k] EXCEPT !.used = 0]]
      BY <3>1 DEF Rewound
    <3>3. stack[n][1] \in Chunk
      BY <2>t, ChunkType
    <3>4. d[1] = [stack[n][1] EXCEPT !.used = 0] /\ Len(d) = 1
      BY <3>2
    <3>5. QED
      BY <3>3, <3>4 DEF Chunk
  <2> HIDE DEF gone, mine, d, n
  <2>5. \A r \in mine : use[r] = "chunk"
    BY <2>1, <2>t DEF IInv, ChunksOwned
  <2>6. /\ Len(stack') = Len(stack) /\ stack'[n] = d
        /\ \A a \in 1 .. Len(stack) : a # n => stack'[a] = stack[a]
    BY <2>3, <2>t
  <2>7. \A k \in 1 .. Len(stack[n]) : k = 1 \/ k \in 2 .. Len(stack[n])
    BY <2>t
  <2>8. \A a \in 1 .. Len(stack) : \A k \in 1 .. Len(stack[a]) :
          \/ stack[a][k].region \in gone
          \/ /\ a \in 1 .. Len(stack') /\ k \in 1 .. Len(stack'[a])
             /\ stack'[a][k].region = stack[a][k].region
    BY <2>1, <2>4, <2>6, <2>7
  <2>9. QED
    BY <2>2, <2>3, <2>5, <2>8, DropReached
<1>3. QED
  BY <1>1, <1>2 DEF bcpl_arena_reset

(* No operation loses memory.                                               *)
LEMMA NextReached ==
  ASSUME IInv, Reached, [Next]_vars
  PROVE  Reached'
<1> USE PayloadAssumption
<1>1. ASSUME UNCHANGED vars
      PROVE  Reached'
  BY <1>1 DEF vars, Reached, HeapReached, ChunksReached, Live
<1>2. ASSUME NEW p \in Pointer, NEW size \in Payload, bcpl_heap_alloc(p, size)
      PROVE  Reached'
  BY <1>2, HeapAllocReached
<1>3. ASSUME NEW p \in Pointer, bcpl_heap_free(p)
      PROVE  Reached'
  BY <1>3, HeapFreeReached
<1>4. CASE bcpl_arena_enter
  BY <1>4, EnterReached
<1>5. ASSUME NEW p \in Pointer, NEW size \in Payload, alloc_rec_arena(p, size)
      PROVE  Reached'
  BY <1>5, AllocRecReached
<1>6. ASSUME NEW h \in Handles, bcpl_arena_free(h)
      PROVE  Reached'
  BY <1>6, ArenaFreeReached DEF Handles
<1>7. ASSUME NEW h \in Handles, bcpl_arena_reset(h)
      PROVE  Reached'
  BY <1>7, ArenaResetReached DEF Handles
<1>8. ASSUME NEW p \in Pointer, NEW q \in Pointer, NEW size \in Payload,
             bcpl_promote(p, q, size)
      PROVE  Reached'
  BY <1>1, <1>2, <1>8 DEF bcpl_promote
<1>9. QED
  BY <1>1, <1>2, <1>3, <1>4, <1>5, <1>6, <1>7, <1>8 DEF Next

(* Memory that is reached is not lost, and a heap region has one block.     *)
LEMMA ReachedNotLost ==
  ASSUME IInv, Reached
  PROVE  NoLostMemory
<1>1. ASSUME NEW r \in Region, use[r] = "heap"
      PROVE  Cardinality(LiveIn({r})) = 1
  <2>1. PICK q \in Pointer : Live(q) /\ blocks[q].region = r
    BY <1>1 DEF Reached, HeapReached
  <2>2. q \in LiveIn({r})
    BY <2>1 DEF LiveIn
  <2>3. LiveIn({r}) = {q}
    BY <1>1, <2>2, OneBlockPerHeapRegion
  <2>4. QED
    BY <2>2, <2>3, CardinalityOfOne
<1>2. QED
  BY <1>1 DEF NoLostMemory, Reached, ChunksReached

(* Every region obtained from the system is still reached: a heap region    *)
(* has its one live block, and a chunk is on the stack of arenas.           *)
THEOREM NothingLost == Spec => []NoLostMemory
<1>1. Init => Reached
  BY DEF Init, Reached, HeapReached, ChunksReached
<1>2. IInv /\ Reached /\ [Next]_vars => Reached'
  BY NextReached
<1>3. IInv /\ Reached => NoLostMemory
  BY ReachedNotLost
<1>4. QED
  BY <1>1, <1>2, <1>3, Invariance, PTL DEF Spec

----------------------------------------------------------------------------
(* The block counters *)

(* CountsExact, for heaps of which only finitely many blocks are live.      *)
Counted == IsFiniteSet(OnHeap) /\ CountsExact

(* A heap allocation counts its block.                                      *)
LEMMA HeapAllocCounted ==
  ASSUME IInv, Counted, NEW p \in Pointer, NEW size, bcpl_heap_alloc(p, size)
  PROVE  Counted'
<1>1. p \notin OnHeap /\ OnHeap' = OnHeap \cup {p}
  <2>1. p \in Store!Fresh /\ OnHeap' = OnHeap \cup {p}
    BY HeapAllocStores DEF Store!AllocOnHeap, OnHeap
  <2>2. QED
    BY <2>1 DEF Store!Fresh, OnHeap
<1>2. IsFiniteSet(OnHeap') /\ Cardinality(OnHeap') = Cardinality(OnHeap) + 1
  BY <1>1, FS_AddElement DEF Counted
<1>3. /\ count \in Counts
      /\ count' = [live |-> count.live + 1, alloc |-> count.alloc + 1, free |-> count.free]
  BY DEF IInv, TypeOK, bcpl_heap_alloc, bump_counters_alloc
<1>4. count.live = Cardinality(OnHeap) /\ count.alloc - count.free = count.live
  BY DEF Counted, CountsExact, OnHeap
<1>5. /\ count'.live = Cardinality(OnHeap)'
      /\ count'.alloc - count'.free = count'.live
  BY <1>2, <1>3, <1>4 DEF Counts
<1>6. QED
  BY <1>2, <1>5 DEF Counted, CountsExact, OnHeap

(* A FREEVEC that releases a region uncounts its one block.                 *)
LEMMA HeapFreeCounted ==
  ASSUME IInv, Reached, Counted, NEW p \in Pointer, bcpl_heap_free(p)
  PROVE  Counted'
<1>1. CASE Ignore(p)
  BY <1>1 DEF Ignore, Counted, CountsExact, OnHeap
<1>2. ASSUME NEW h \in headers, h.tag = "HEAP", Release(p, h)
      PROVE  Counted'
  <2> DEFINE dying == LiveIn({h.region})
  <2>1. /\ use[h.region] = "heap" /\ h.region \in Region /\ Kill(dying)
        /\ dying = {} \/ \E q \in Pointer : dying = {q}
    BY <1>2, ReleaseKillsOne
  <2>2. dying # {}
    BY <2>1 DEF Reached, HeapReached, LiveIn
  <2>3. PICK q \in Pointer : dying = {q}
    BY <2>1, <2>2
  <2>4. Live(q) /\ blocks[q].region = h.region
    BY <2>3 DEF LiveIn
  <2>5. q \in OnHeap
    BY <2>1, <2>4, WhereBlocksAre DEF OnHeap, Heap
  <2> HIDE DEF dying
  <2>6. OnHeap' = OnHeap \ {q}
    BY <2>1, <2>3, <2>4, KilledBlocksGone
  <2>7. /\ IsFiniteSet(OnHeap') /\ Cardinality(OnHeap') = Cardinality(OnHeap) - 1
        /\ Cardinality(OnHeap) \in Nat /\ Cardinality(OnHeap') \in Nat
    BY <2>5, <2>6, FS_RemoveElement, FS_CardinalityType DEF Counted
  <2>8. /\ count \in Counts
        /\ count' = [live  |-> IF count.live > 0 THEN count.live - 1 ELSE count.live,
                     alloc |-> count.alloc, free |-> count.free + 1]
    BY <1>2 DEF IInv, TypeOK, Release, bump_counters_free
  <2>9. count.live = Cardinality(OnHeap) /\ count.alloc - count.free = count.live
    BY DEF Counted, CountsExact, OnHeap
  <2>10. /\ count'.live = Cardinality(OnHeap)'
         /\ count'.alloc - count'.free = count'.live
    BY <2>7, <2>8, <2>9 DEF Counts
  <2>11. QED
    BY <2>7, <2>10 DEF Counted, CountsExact, OnHeap
<1>3. QED
  BY <1>1, <1>2 DEF bcpl_heap_free

(* The arenas' operations leave the heap's blocks and their counters alone. *)
LEMMA ScopesUncounted ==
  ASSUME Counted, count' = count, OnHeap' = OnHeap
  PROVE  Counted'
BY DEF Counted, CountsExact, OnHeap

(* Every operation keeps the block counters.                                *)
LEMMA NextCounted ==
  ASSUME IInv, Reached, Counted, [Next]_vars
  PROVE  Counted'
<1>l. Len(Scopes) = Len(stack) /\ Len(stack) \in Nat
  BY ScopesType
<1>1. ASSUME UNCHANGED vars
      PROVE  Counted'
  BY <1>1 DEF vars, Counted, CountsExact, OnHeap
<1>2. ASSUME NEW p \in Pointer, NEW size, bcpl_heap_alloc(p, size)
      PROVE  Counted'
  BY <1>2, HeapAllocCounted
<1>3. ASSUME NEW p \in Pointer, bcpl_heap_free(p)
      PROVE  Counted'
  BY <1>3, HeapFreeCounted
<1>4. CASE bcpl_arena_enter
  BY <1>4, ScopesUncounted DEF bcpl_arena_enter, OnHeap
<1>5. ASSUME NEW p \in Pointer, NEW size \in Payload, alloc_rec_arena(p, size)
      PROVE  Counted'
  <2>1. CASE stack # <<>> /\ (\/ ArenaBump(p, BlockBytes(size))
                              \/ ArenaGrow(p, BlockBytes(size)))
    <3>1. count' = count /\ \E r, off, total : HandOut(p, r, off, total, Len(stack))
      BY <2>1 DEF ArenaBump, ArenaGrow
    <3>2. PICK r, off, total : HandOut(p, r, off, total, Len(stack))
      BY <3>1
    <3> DEFINE b == [region |-> r, off |-> off, total |-> total, scope |-> Len(stack)]
    <3>3. blocks[p] = Null /\ blocks' = [blocks EXCEPT ![p] = b] /\ b.scope = Len(stack)
      BY <3>2 DEF HandOut
    <3> HIDE DEF b
    <3>4. Len(stack) \in Nat /\ Len(stack) # 0
      BY <2>1 DEF IInv, TypeOK
    <3>5. OnHeap' = IF b.scope = 0 THEN OnHeap \cup {p} ELSE OnHeap
      BY <3>3, <3>4, HandedOut
    <3>6. QED
      BY <3>1, <3>3, <3>4, <3>5, ScopesUncounted
  <2>2. CASE bcpl_heap_alloc(p, round_up(LargerOf(size, 1)))
    BY <1>2, <2>2
  <2>3. QED
    BY <1>5, <2>1, <2>2 DEF alloc_rec_arena
<1>6. ASSUME NEW h \in Int, bcpl_arena_free(h)
      PROVE  Counted'
  <2>1. CASE UNCHANGED vars
    BY <1>1, <2>1
  <2>2. CASE /\ 0 <= h /\ h < Len(stack)
             /\ stack' = SubSeq(stack, 1, h)
             /\ Kill(LiveIn(RegionsOf(ArenasFrom(h))))
             /\ count' = count
    <3>1. OnHeap' = OnHeap
      BY <2>2, LeaveStores DEF Store!Leave, OnHeap
    <3>2. QED
      BY <2>2, <3>1, ScopesUncounted
  <2>3. QED
    BY <1>6, <2>1, <2>2 DEF bcpl_arena_free
<1>7. ASSUME NEW h \in Int, bcpl_arena_reset(h)
      PROVE  Counted'
  <2>1. CASE UNCHANGED vars
    BY <1>1, <2>1
  <2>2. CASE /\ 0 <= h /\ h < Len(stack)
             /\ stack' = [stack EXCEPT ![h + 1] = Rewound(h + 1)]
             /\ Kill(LiveIn(RegionsOf(ChunksOf(h + 1, 1))))
             /\ count' = count
    <3>1. h + 1 \in 1 .. Len(stack) /\ Len(stack') = Len(stack)
      BY <2>2, <1>l DEF IInv, TypeOK
    <3>2. OnHeap' = OnHeap
      BY <2>2, <3>1, RewindStores DEF Store!Rewind, OnHeap
    <3>3. QED
      BY <2>2, <3>2, ScopesUncounted
  <2>3. QED
    BY <1>7, <2>1, <2>2 DEF bcpl_arena_reset
<1>8. ASSUME NEW p \in Pointer, NEW q \in Pointer, NEW size \in Payload,
             bcpl_promote(p, q, size)
      PROVE  Counted'
  BY <1>1, <1>2, <1>8 DEF bcpl_promote
<1>9. QED
  BY <1>1, <1>2, <1>3, <1>4, <1>5, <1>6, <1>7, <1>8 DEF Next, Handles

(* The block counters that HEAP_INFO prints are the heap's, and balance     *)
(* over any mixture of frees, double frees and frees of arena blocks.       *)
THEOREM CountersBalance == Spec => []CountsExact
<1>1. Init => Reached /\ Counted
  <2> SUFFICES ASSUME Init PROVE Reached /\ Counted
    OBVIOUS
  <2>1. Reached
    BY DEF Init, Reached, HeapReached, ChunksReached
  <2>2. OnHeap = {}
    BY InitStores DEF Store!Init, OnHeap
  <2>3. IsFiniteSet(OnHeap) /\ Cardinality(OnHeap) = 0
    BY <2>2, FS_EmptySet
  <2>4. count.live = 0 /\ count.alloc - count.free = count.live
    BY DEF Init
  <2>5. CountsExact
    BY <2>3, <2>4 DEF CountsExact, OnHeap
  <2>6. QED
    BY <2>1, <2>3, <2>5 DEF Counted
<1>2. IInv /\ Reached /\ Counted /\ [Next]_vars => Reached' /\ Counted'
  BY NextReached, NextCounted
<1>3. Counted => CountsExact
  BY DEF Counted
<1>4. QED
  BY <1>1, <1>2, <1>3, Invariance, PTL DEF Spec

----------------------------------------------------------------------------
(* The byte counters *)

(* The bytes used in finitely many chunks are a natural number: the         *)
(* recursion by which the sum is defined, over the subsets of the chunks    *)
(* ranked by their size, has a value.                                       *)
LEMMA BytesUsedNat ==
  ASSUME NEW C, IsFiniteSet(C), \A c \in C : c.used \in Nat
  PROVE  BytesUsed(C) \in Nat
<1> DEFINE D == SUBSET C
           pick(t) == CHOOSE x \in t : TRUE
           rank == [t \in D |-> Cardinality(t)]
           F == [x \in D \X [D -> Nat] |->
                   IF x[1] = {} THEN 0
                   ELSE pick(x[1]).used + x[2][x[1] \ {pick(x[1])}]]
           A == CHOOSE s : s = [t \in D |->
                  IF t = {} THEN 0 ELSE pick(t).used + s[t \ {pick(t)}]]
<1>1. BytesUsed(C) = A[C]
  BY DEF BytesUsed, MapThenSumSet, MapThenFoldSet
<1>2. ASSUME NEW t \in D, t # {}
      PROVE  pick(t) \in t /\ pick(t) \in C /\ t \ {pick(t)} \in D
  BY <1>2
<1>3. ASSUME NEW t \in D PROVE IsFiniteSet(t) /\ Cardinality(t) \in Nat
  BY FS_Subset, FS_CardinalityType
<1>4. rank \in [D -> Nat]
  BY <1>3
<1>5. ASSUME NEW t \in D, t # {}
      PROVE  rank[t \ {pick(t)}] < rank[t]
  <2>1. Cardinality(t \ {pick(t)}) = Cardinality(t) - 1
    BY <1>2, <1>3, <1>5, FS_RemoveElement
  <2> HIDE DEF pick
  <2>2. rank[t \ {pick(t)}] = rank[t] - 1 /\ rank[t] \in Int
    BY <1>2, <1>3, <1>5, <2>1
  <2>3. QED
    BY <2>2
<1> HIDE DEF pick, rank
<1>6. ASSUME NEW t \in D, NEW g \in [D -> Nat] PROVE F[<<t, g>>] \in Nat
  <2>1. CASE t = {}
    BY <2>1
  <2>2. CASE t # {}
    BY <1>2, <2>2
  <2>3. QED
    BY <2>1, <2>2
<1>7. LowerRanksDecide(D, Nat, rank, F)
  <2>1. SUFFICES ASSUME NEW t \in D, NEW g \in [D -> Nat], NEW h \in [D -> Nat],
                        \A y \in D : rank[y] < rank[t] => g[y] = h[y]
                 PROVE  F[<<t, g>>] = F[<<t, h>>]
    BY DEF LowerRanksDecide
  <2>2. CASE t = {}
    BY <2>2
  <2>3. CASE t # {}
    <3>1. g[t \ {pick(t)}] = h[t \ {pick(t)}]
      BY <1>2, <1>5, <2>1, <2>3
    <3>2. QED
      BY <2>3, <3>1
  <2>4. QED
    BY <2>2, <2>3
<1>8. PICK f \in [D -> Nat] : \A t \in D : f[t] = F[<<t, f>>]
  <2> HIDE DEF D, F
  <2>1. Recursive(D, Nat, rank, F)
    BY <1>4, <1>6, <1>7 DEF Recursive
  <2>2. QED
    BY <2>1, RecursionDefines DEF Defined
<1>9. f = [t \in D |-> IF t = {} THEN 0 ELSE pick(t).used + f[t \ {pick(t)}]]
  BY <1>8
<1>10. A = [t \in D |-> IF t = {} THEN 0 ELSE pick(t).used + A[t \ {pick(t)}]]
  BY <1>9
<1> DEFINE S == {n \in Nat : \A t \in D : rank[t] <= n => A[t] \in Nat}
<1>11. ASSUME NEW t \in D, \A u \in D : rank[u] < rank[t] => A[u] \in Nat
       PROVE  A[t] \in Nat
  <2>1. A[t] = IF t = {} THEN 0 ELSE pick(t).used + A[t \ {pick(t)}]
    <3> HIDE DEF A, D
    <3>1. QED
      BY <1>10
  <2> HIDE DEF A
  <2>2. CASE t # {}
    BY <1>2, <1>5, <1>11, <2>1, <2>2
  <2>3. QED
    BY <2>1, <2>2
<1> HIDE DEF A
<1>12. 0 \in S
  BY <1>4, <1>11
<1>13. ASSUME NEW n \in Nat, n \in S PROVE n + 1 \in S
  BY <1>4, <1>11, <1>13
<1>14. \A n \in Nat : n \in S
  <2> HIDE DEF S
  <2>1. QED
    BY <1>12, <1>13, NatInductiveSet
<1>15. QED
  BY <1>1, <1>4, <1>14

(* So many chunks as a scope has, and as several have, are finitely many.   *)
LEMMA ArenaChunks ==
  ASSUME IInv, NEW a \in 1 .. Len(stack), NEW from \in Nat \ {0}
  PROVE  IsFiniteSet(ChunksOf(a, from)) /\ \A c \in ChunksOf(a, from) : c.used \in Nat
<1> DEFINE K == from .. Len(stack[a])
           f == [k \in K |-> stack[a][k]]
           C == ChunksOf(a, from)
<1>1. stack \in Seq(Seq(Chunk))
  BY DEF IInv, TypeOK
<1>2. Len(stack[a]) \in Nat
  BY <1>1, ChunkType
<1>3. f \in Surjection(K, C)
  BY DEF ChunksOf, Surjection
<1>4. IsFiniteSet(K)
  BY <1>2, FS_Interval
<1>5. IsFiniteSet(C)
  <2> HIDE DEF K, f, C
  <2>1. QED
    BY <1>3, <1>4, FS_Surjection
<1>6. \A k \in K : stack[a][k].used \in Nat
  BY <1>1, <1>2, ChunkType
<1>7. QED
  BY <1>5, <1>6 DEF ChunksOf

LEMMA ArenasChunks ==
  ASSUME IInv, NEW h \in Nat
  PROVE  IsFiniteSet(ArenasFrom(h)) /\ \A c \in ArenasFrom(h) : c.used \in Nat
<1> DEFINE A == (h + 1) .. Len(stack)
           f == [a \in A |-> ChunksOf(a, 1)]
           G == {ChunksOf(a, 1) : a \in A}
<1>1. Len(stack) \in Nat
  BY DEF IInv, TypeOK
<1>2. A \subseteq 1 .. Len(stack) /\ IsFiniteSet(A)
  BY <1>1, FS_Interval
<1>3. f \in Surjection(A, G)
  BY DEF Surjection
<1>4. \A a \in A : IsFiniteSet(ChunksOf(a, 1)) /\ \A c \in ChunksOf(a, 1) : c.used \in Nat
  BY <1>2, ArenaChunks
<1>5. IsFiniteSet(G)
  <2> HIDE DEF A, f, G
  <2>1. QED
    BY <1>2, <1>3, FS_Surjection
<1>6. \A T \in G : IsFiniteSet(T)
  BY <1>4
<1>7. IsFiniteSet(UNION G)
  <2> HIDE DEF G
  <2>1. QED
    BY <1>5, <1>6, FS_UNION
<1>8. ArenasFrom(h) = UNION G
  BY DEF ArenasFrom
<1>9. QED
  BY <1>4, <1>7, <1>8

(* What the byte counters of a state have to satisfy, of their values.      *)
LEMMA BytesValues ==
  ASSUME NEW live \in Int, NEW peak \in Int, NEW alloc \in Int, NEW free \in Int,
         0 <= live, live <= peak,
         bytes' = [live |-> live, peak |-> peak, alloc |-> alloc, free |-> free]
  PROVE  ByteCounterNeverWraps'
BY DEF ByteCounterNeverWraps, Bytes

LEMMA BytesNow ==
  ASSUME ByteCounterNeverWraps
  PROVE  /\ bytes.live \in Int /\ bytes.peak \in Int /\ bytes.alloc \in Int /\ bytes.free \in Int
         /\ 0 <= bytes.live /\ bytes.live <= bytes.peak
         /\ bytes = [live |-> bytes.live, peak |-> bytes.peak,
                     alloc |-> bytes.alloc, free |-> bytes.free]
BY DEF ByteCounterNeverWraps, Bytes

LEMMA Larger ==
  ASSUME NEW m \in Int, NEW n \in Int
  PROVE  LargerOf(m, n) \in Int /\ m <= LargerOf(m, n)
BY DEF LargerOf

LEMMA SmallerTaken ==
  ASSUME NEW m \in Nat, NEW n \in Int, 0 <= n
  PROVE  /\ n - SmallerOf(m, n) \in Int
         /\ 0 <= n - SmallerOf(m, n) /\ n - SmallerOf(m, n) <= n
BY DEF SmallerOf

(* What an allocation adds, and what a release takes away at most.          *)
LEMMA BytesAdded ==
  ASSUME ByteCounterNeverWraps, NEW total \in Nat,
         ChunkMade(total) \/ bump_counters_alloc(total)
  PROVE  ByteCounterNeverWraps'
<1> DEFINE live == bytes.live + total
           peak == LargerOf(live, bytes.peak)
<1>1. live \in Int /\ 0 <= live /\ bytes.alloc + total \in Int
  BY BytesNow
<1>2. peak \in Int /\ live <= peak
  BY <1>1, BytesNow, Larger
<1>3. \E alloc \in {bytes.alloc, bytes.alloc + total} :
        bytes' = [live |-> live, peak |-> peak, alloc |-> alloc, free |-> bytes.free]
  <2>1. CASE ChunkMade(total)
    BY <2>1, BytesNow DEF ChunkMade
  <2>2. CASE bump_counters_alloc(total)
    BY <2>2, BytesNow DEF bump_counters_alloc
  <2>3. QED
    BY <2>1, <2>2
<1> HIDE DEF live, peak
<1>4. QED
  BY <1>1, <1>2, <1>3, BytesNow, BytesValues

LEMMA BytesTaken ==
  ASSUME ByteCounterNeverWraps, NEW total \in Nat,
         \/ bump_counters_free(total)
         \/ bytes' = [bytes EXCEPT !.live = @ - SmallerOf(total, @)]
  PROVE  ByteCounterNeverWraps'
<1> DEFINE live == bytes.live - SmallerOf(total, bytes.live)
<1>1. live \in Int /\ 0 <= live /\ live <= bytes.live /\ bytes.free + total \in Int
  BY BytesNow, SmallerTaken
<1>2. \E free \in {bytes.free, bytes.free + total} :
        bytes' = [live |-> live, peak |-> bytes.peak, alloc |-> bytes.alloc, free |-> free]
  <2>1. CASE bump_counters_free(total)
    BY <2>1, BytesNow DEF bump_counters_free
  <2>2. CASE bytes' = [bytes EXCEPT !.live = live]
    BY <2>2, BytesNow
  <2>3. QED
    BY <2>1, <2>2
<1> HIDE DEF live
<1>3. live <= bytes.peak
  BY <1>1, BytesNow
<1>4. QED
  BY <1>1, <1>2, <1>3, BytesNow, BytesValues

LEMMA ChunksTaken ==
  ASSUME ByteCounterNeverWraps, NEW C, IsFiniteSet(C), \A c \in C : c.used \in Nat, Drop(C)
  PROVE  ByteCounterNeverWraps'
<1>1. BytesUsed(C) \in Nat
  BY BytesUsedNat
<1>2. bytes' = [bytes EXCEPT !.live = @ - SmallerOf(BytesUsed(C), @)]
  BY DEF Drop, ChunksDropped
<1>3. QED
  BY <1>1, <1>2, BytesTaken

(* Every operation keeps the live byte counter between zero and the peak.   *)
LEMMA NextBytes ==
  ASSUME IInv, ByteCounterNeverWraps, [Next]_vars
  PROVE  ByteCounterNeverWraps'
<1> USE PayloadAssumption
<1>l. Len(stack) \in Nat
  BY DEF IInv, TypeOK
<1>1. ASSUME UNCHANGED bytes
      PROVE  ByteCounterNeverWraps'
  BY <1>1 DEF ByteCounterNeverWraps
<1>2. ASSUME NEW p \in Pointer, NEW size \in Nat, bcpl_heap_alloc(p, size)
      PROVE  ByteCounterNeverWraps'
  <2>1. bump_counters_alloc(BlockBytes(size)) /\ BlockBytes(size) \in Nat
    BY <1>2, BlockBytesBound DEF bcpl_heap_alloc
  <2>2. QED
    BY <2>1, BytesAdded
<1>3. ASSUME NEW p \in Pointer, bcpl_heap_free(p)
      PROVE  ByteCounterNeverWraps'
  <2>1. CASE Ignore(p)
    BY <1>1, <2>1 DEF Ignore
  <2>2. ASSUME NEW h \in headers, Release(p, h)
        PROVE  ByteCounterNeverWraps'
    <3>1. h.size \in Nat /\ bump_counters_free(h.size)
      BY <2>2 DEF Release, IInv, TypeOK, Header
    <3>2. QED
      BY <3>1, BytesTaken
  <2>3. QED
    BY <1>3, <2>1, <2>2 DEF bcpl_heap_free
<1>4. CASE bcpl_arena_enter
  BY <1>1, <1>4 DEF bcpl_arena_enter
<1>5. ASSUME NEW p \in Pointer, NEW size \in Payload, alloc_rec_arena(p, size)
      PROVE  ByteCounterNeverWraps'
  <2>1. CASE ArenaBump(p, BlockBytes(size))
    BY <1>1, <2>1 DEF ArenaBump
  <2>2. CASE ArenaGrow(p, BlockBytes(size))
    <3>1. ChunkMade(BlockBytes(size)) /\ BlockBytes(size) \in Nat
      BY <2>2, BlockBytesBound DEF ArenaGrow
    <3>2. QED
      BY <3>1, BytesAdded
  <2>3. CASE bcpl_heap_alloc(p, round_up(LargerOf(size, 1)))
    BY <1>2, <2>3, FallbackSize
  <2>4. QED
    BY <1>5, <2>1, <2>2, <2>3 DEF alloc_rec_arena
<1>6. ASSUME NEW h \in Handles, bcpl_arena_free(h)
      PROVE  ByteCounterNeverWraps'
  <2>1. CASE UNCHANGED vars
    BY <1>1, <2>1 DEF vars
  <2>2. CASE 0 <= h /\ Drop(ArenasFrom(h))
    <3>1. h \in Nat
      BY <2>2 DEF Handles
    <3>2. QED
      BY <2>2, <3>1, ArenasChunks, ChunksTaken
  <2>3. QED
    BY <1>6, <2>1, <2>2 DEF bcpl_arena_free
<1>7. ASSUME NEW h \in Handles, bcpl_arena_reset(h)
      PROVE  ByteCounterNeverWraps'
  <2>1. CASE UNCHANGED vars
    BY <1>1, <2>1 DEF vars
  <2>2. CASE 0 <= h /\ h < Len(stack) /\ Drop(ChunksOf(h + 1, 2))
    <3>1. h + 1 \in 1 .. Len(stack) /\ 2 \in Nat \ {0}
      BY <1>l, <2>2 DEF Handles
    <3>2. QED
      BY <2>2, <3>1, ArenaChunks, ChunksTaken
  <2>3. QED
    BY <1>7, <2>1, <2>2 DEF bcpl_arena_reset
<1>8. ASSUME NEW p \in Pointer, NEW q \in Pointer, NEW size \in Payload,
             bcpl_promote(p, q, size)
      PROVE  ByteCounterNeverWraps'
  BY <1>1, <1>2, <1>8 DEF bcpl_promote, vars
<1>9. CASE UNCHANGED vars
  BY <1>1, <1>9 DEF vars
<1>10. QED
  BY <1>2, <1>3, <1>4, <1>5, <1>6, <1>7, <1>8, <1>9 DEF Next

(* Dropped arenas subtract bytes that they never added, but the unsigned    *)
(* counter of live bytes never wraps, and it never passes the peak.         *)
THEOREM BytesBounded == Spec => []ByteCounterNeverWraps
<1>1. Init => ByteCounterNeverWraps
  BY DEF Init, ByteCounterNeverWraps, Bytes
<1>2. IInv /\ ByteCounterNeverWraps /\ [Next]_vars => ByteCounterNeverWraps'
  BY NextBytes
<1>3. QED
  BY <1>1, <1>2, Invariance, PTL DEF Spec

(* Every region obtained is reached by a live block or by a scope exit, is  *)
(* given up one block at a time, and the counters of HEAP_INFO are right.   *)
THEOREM AllAccounted == Spec => []NothingUnaccounted
<1>1. NoLostMemory /\ FreeReleasesOne /\ CountsExact /\ ByteCounterNeverWraps
        => NothingUnaccounted
  BY DEF NothingUnaccounted, CountersRight
<1>2. QED
  BY <1>1, NothingLost, OneAtATime, CountersBalance, BytesBounded, PTL

=============================================================================
