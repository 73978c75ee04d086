-------------------------------- MODULE Rope --------------------------------
(***************************************************************************)
(* The editor's text buffer (igui/rope_buffer.rs): a binary tree of leaves *)
(* of at most LeafMax code points, whose branches cache lengths, newline   *)
(* counts and heights.  The first part is the tree algorithms, the second  *)
(* RopeBuffer's operations on its root, and the last a buffer that is      *)
(* edited: text is the sequence the same edits give on a plain sequence,   *)
(* and lopsided remembers that a text was built into a tree that is not    *)
(* balanced.                                                               *)
(***************************************************************************)
EXTENDS FlatText

CONSTANTS
    LeafMax,    \* LEAF_MAX, 2048 in the code
    Pieces,     \* the texts loaded or inserted
    MaxLen      \* bound: no edit makes the buffer longer

ASSUME RopeAssumption ==
    /\ LeafMax \in Nat \ {0}
    /\ MaxLen \in Nat
    /\ \A u \in Pieces : u \in Seq(STRING) /\ Len(u) <= MaxLen

---------------------------------------------------------------------------
\* Nodes and their cached figures.

Leaf(buf) == [kind |-> "leaf", buf |-> buf, newlines |-> NewlinesBefore(buf, Len(buf))]

EmptyLeaf == Leaf(<<>>)

IsLeaf(node) == node.kind = "leaf"

TextLen(node) == IF IsLeaf(node) THEN Len(node.buf) ELSE node.total_len

Newlines(node) == node.newlines

Height(node) == IF IsLeaf(node) THEN 0 ELSE node.height

\* fault: the height of the left subtree stands for both
BranchLeftHeight(l, r) ==
    [kind |-> "branch", left |-> l, right |-> r,
     left_len |-> TextLen(l),
     total_len |-> TextLen(l) + TextLen(r),
     newlines |-> Newlines(l) + Newlines(r),
     height |-> 1 + Height(l)]

Branch(l, r) ==
    [kind |-> "branch", left |-> l, right |-> r,
     left_len |-> TextLen(l),
     total_len |-> TextLen(l) + TextLen(r),
     newlines |-> Newlines(l) + Newlines(r),
     height |-> 1 + Max({Height(l), Height(r)})]

BalanceFactor(node) == IF IsLeaf(node) THEN 0 ELSE Height(node.left) - Height(node.right)

Below(S) == UNION {{x.left, x.right} : x \in {y \in S : ~IsLeaf(y)}}

\* The subtrees a walk down from node can come to, node itself among them.
Nodes(node) ==
    LET level[n \in Nat] == IF n = 0 THEN {node} ELSE Below(level[n - 1])
        from[n \in Nat] == LET l == level[n] IN IF l = {} THEN {} ELSE l \union from[n + 1]
    IN from[0]

---------------------------------------------------------------------------
\* Building a tree from a text: leaves of LeafMax, then pairs until one is left.

Chunks(t) ==
    [i \in 1..((Len(t) + LeafMax - 1) \div LeafMax) |->
        Leaf(SubSeq(t, (i - 1) * LeafMax + 1,
                    Min({i * LeafMax, Len(t)})))]

Paired(nodes) ==
    [i \in 1..((Len(nodes) + 1) \div 2) |->
        IF 2 * i <= Len(nodes) THEN Branch(nodes[2 * i - 1], nodes[2 * i]) ELSE nodes[2 * i - 1]]

\* One node paired is that node: the rounds past the last merge change nothing.
MergePairs(nodes) ==
    LET round[n \in Nat] == IF n = 0 THEN nodes ELSE LET last == round[n - 1] IN IF Len(last) = 1 THEN last ELSE Paired(last)
    IN round[Len(nodes)][1]

BuildRope(t) == IF t = <<>> THEN EmptyLeaf ELSE MergePairs(Chunks(t))

---------------------------------------------------------------------------
\* Balancing and joining.

RotateRight(node) ==
    IF IsLeaf(node.left) THEN Branch(node.left, node.right)
    ELSE Branch(node.left.left, Branch(node.left.right, node.right))

RotateLeft(node) ==
    IF IsLeaf(node.right) THEN Branch(node.left, node.right)
    ELSE Branch(Branch(node.left, node.right.left), node.right.right)

\* fault: one rotation whatever leans inside
BalanceOnce(node) ==
    CASE BalanceFactor(node) > 1 -> RotateRight(node)
      [] BalanceFactor(node) < -1 -> RotateLeft(node)
      [] OTHER -> node

MergesInto(l, r) == IsLeaf(l) /\ IsLeaf(r) /\ TextLen(l) + TextLen(r) <= LeafMax

Balance(node) ==
    CASE BalanceFactor(node) > 1 ->
            RotateRight(IF BalanceFactor(node.left) < 0
                        THEN Branch(RotateLeft(node.left), node.right) ELSE node)
      [] BalanceFactor(node) < -1 ->
            RotateLeft(IF BalanceFactor(node.right) > 0
                       THEN Branch(node.left, RotateRight(node.right)) ELSE node)
      [] OTHER -> node

JoinNodes(l, r) ==
    LET join[p \in Nodes(l) \X Nodes(r)] ==
            LET x == p[1]
                y == p[2]
            IN IF TextLen(x) = 0 THEN y
               ELSE IF TextLen(y) = 0 THEN x
               ELSE IF MergesInto(x, y) THEN Leaf(x.buf \o y.buf)
               ELSE IF Height(x) - Height(y) \in -1..1 THEN Branch(x, y)
               ELSE IF Height(x) > Height(y) THEN Balance(Branch(x.left, join[<<x.right, y>>]))
               ELSE Balance(Branch(join[<<x, y.left>>], y.right))
    IN join[<<l, r>>]

SplitLeaf(buf, pos) == <<Leaf(SubSeq(buf, 1, pos)), Leaf(SubSeq(buf, pos + 1, Len(buf)))>>

SplitNode(node, pos) ==
    LET split[x \in Nodes(node)] == [p \in Nat |->
            IF p = 0 THEN <<EmptyLeaf, x>>
            ELSE IF p >= TextLen(x) THEN <<x, EmptyLeaf>>
            ELSE IF IsLeaf(x) THEN SplitLeaf(x.buf, p)
            ELSE IF p = x.left_len THEN <<x.left, x.right>>
            ELSE IF p < x.left_len
            THEN LET s == split[x.left][p] IN <<s[1], JoinNodes(s[2], x.right)>>
            ELSE LET s == split[x.right][p - x.left_len] IN <<JoinNodes(x.left, s[1]), s[2]>>]
    IN split[node][pos]

InsertNode(node, pos, insertion) ==
    LET s == SplitNode(node, pos) IN JoinNodes(JoinNodes(s[1], insertion), s[2])

\* fault: the second split counts from the start of the text
DeleteRangeFromStart(node, pos, count) ==
    LET s == SplitNode(node, pos) IN JoinNodes(s[1], SplitNode(s[2], pos + count)[2])

DeleteRange(node, pos, count) ==
    LET s == SplitNode(node, pos) IN JoinNodes(s[1], SplitNode(s[2], count)[2])

---------------------------------------------------------------------------
\* Looking things up.

CollectRange(node, start, end) ==
    LET collect[x \in Nodes(node)] == [range \in Nat \X Nat |->
            LET i == range[1]
                j == range[2]
            IN IF i >= j THEN <<>>
               ELSE IF IsLeaf(x) THEN SubSeq(x.buf, i + 1, Min({j, Len(x.buf)}))
               ELSE (IF i < x.left_len THEN collect[x.left][<<i, Min({j, x.left_len})>>] ELSE <<>>)
                    \o
                    (IF j > x.left_len
                     THEN collect[x.right][<<Max({i - x.left_len, 0}), j - x.left_len>>] ELSE <<>>)]
    IN collect[node][<<start, end>>]

CountNewlinesBefore(node, pos) ==
    LET count[x \in Nodes(node)] == [p \in Nat |->
            IF IsLeaf(x) THEN NewlinesBefore(x.buf, Min({p, Len(x.buf)}))
            ELSE IF p <= x.left_len THEN count[x.left][p]
            ELSE Newlines(x.left) + count[x.right][p - x.left_len]]
    IN count[node][pos]

NoOffset == -1    \* None

\* The offset of the n-th newline, counted from 0.
NthNewlineRaw(node, n) ==
    LET nth[x \in Nodes(node)] == [k \in Nat |->
            IF IsLeaf(x)
            THEN IF k < Newlines(x)
                 THEN Min({i \in DOMAIN x.buf : NewlinesBefore(x.buf, i) = k + 1}) - 1
                 ELSE NoOffset
            ELSE IF k < Newlines(x.left) THEN nth[x.left][k]
            ELSE LET p == nth[x.right][k - Newlines(x.left)]
                 IN IF p = NoOffset THEN NoOffset ELSE x.left_len + p]
    IN nth[node][n]

CharAt(node, pos) ==
    LET char[x \in Nodes(node)] == [p \in Nat |->
            IF IsLeaf(x) THEN x.buf[p + 1]
            ELSE IF p < x.left_len THEN char[x.left][p]
            ELSE char[x.right][p - x.left_len]]
    IN char[node][pos]

---------------------------------------------------------------------------
\* RopeBuffer: what callers ask of the root.

LineCountOf(node) == Newlines(node) + 1

LineStartOf(node, row) ==
    IF row = 0 THEN 0
    ELSE IF row >= LineCountOf(node) THEN NoOffset
    ELSE NthNewlineRaw(node, row - 1) + 1

\* <<start, end>>, the end before the newline; asked for lines that exist.
LineRange(node, row) ==
    <<LineStartOf(node, row),
      IF row + 1 < LineCountOf(node) THEN NthNewlineRaw(node, row) ELSE TextLen(node)>>

Slice(node, start, end) ==
    LET i == Min({start, TextLen(node)})
        j == Min({end, TextLen(node)})
    IN IF i >= j THEN <<>> ELSE CollectRange(node, i, j)

OffsetToLineCol(node, offset) ==
    LET pos == Min({offset, TextLen(node)})
        nl == CountNewlinesBefore(node, pos)
    IN <<nl, pos - (IF nl = 0 THEN 0 ELSE NthNewlineRaw(node, nl - 1) + 1)>>

\* fault: a column past the end of its line runs on into the next one
LineColUnclamped(node, row, col) ==
    IF row >= LineCountOf(node) THEN TextLen(node)
    ELSE Min({LineStartOf(node, row) + col, TextLen(node)})

LineColToOffset(node, row, col) ==
    IF row >= LineCountOf(node) THEN TextLen(node)
    ELSE LET r == LineRange(node, row) IN r[1] + Min({col, r[2] - r[1]})

---------------------------------------------------------------------------
VARIABLES root, text, lopsided

ropeVars == <<root, text, lopsided>>

IsBalanced(node) == \A x \in Nodes(node) : BalanceFactor(x) \in -1..1

Lopsided(u) == ~IsBalanced(BuildRope(u))

new ==
    /\ root = EmptyLeaf
    /\ text = <<>>
    /\ lopsided = FALSE

from_slice(u) ==
    /\ root = BuildRope(u)
    /\ text = u
    /\ lopsided = Lopsided(u)

Init == new \/ \E u \in Pieces : from_slice(u)

insert(pos, u) ==
    /\ u # <<>>
    /\ Len(text) + Len(u) <= MaxLen
    /\ root' = InsertNode(root, pos, BuildRope(u))
    /\ text' = WithInserted(text, Min({pos, Len(text)}), u)
    /\ lopsided' = (lopsided \/ Lopsided(u))

delete(pos, count) ==
    /\ count # 0 /\ pos < TextLen(root)
    /\ root' = DeleteRange(root, pos, Min({count, TextLen(root) - pos}))
    /\ text' = WithoutRange(text, pos, Min({count, Len(text) - pos}))
    /\ UNCHANGED lopsided

Next ==
    \/ \E u \in Pieces, pos \in 0..(Len(text) + 1) : insert(pos, u)
    \/ \E pos \in 0..Len(text) : \E count \in 0..(Len(text) - pos + 1) : delete(pos, count)

Spec == Init /\ [][Next]_ropeVars

---------------------------------------------------------------------------
RealHeight(node) ==
    LET height[x \in Nodes(node)] ==
            IF IsLeaf(x) THEN 0 ELSE 1 + Max({height[x.left], height[x.right]})
    IN height[node]

Flat(node) ==
    LET flat[x \in Nodes(node)] == IF IsLeaf(x) THEN x.buf ELSE flat[x.left] \o flat[x.right]
    IN flat[node]

\* After any edits at any positions, within the text or past its end, every
\* slice, and every single code point, is what the same edits on a plain
\* sequence give (split_node and join_nodes under insert_node, delete_range;
\* collect_range and char_at_node for the reading).
TextKept ==
    /\ \A i, j \in 0..(Len(text) + 1) : Slice(root, i, j) = SubSeq(text, i + 1, Min({j, Len(text)}))
    /\ \A p \in 0..(Len(text) - 1) : CharAt(root, p) = text[p + 1]

\* The figures a branch caches are those of the text and tree below it, through
\* every rotation and join: nothing else tells a lookup which way to go.
CachesRight ==
    \A node \in Nodes(root) :
        /\ TextLen(node) = Len(Flat(node))
        /\ Newlines(node) = NewlinesBefore(Flat(node), Len(Flat(node)))
        /\ Height(node) = RealHeight(node)
        /\ IsLeaf(node) \/ node.left_len = Len(Flat(node.left))

\* No leaf outgrows LEAF_MAX by merging, and no edit leaves an empty leaf in
\* the tree (rope_buffer.rs:18 and 544-546).
LeavesFit ==
    \A node \in Nodes(root) :
        IsLeaf(node) => Len(node.buf) <= LeafMax /\ (node.buf = <<>> => root = EmptyLeaf)

\* What every walk down the tree relies on.
WellFormed == CachesRight /\ LeavesFit

\* Splits and joins keep the AVL invariant under any sequence of edits, as
\* long as every text put in was itself built into a balanced tree.
Balanced == ~lopsided => IsBalanced(root)

\* The shape that keeps every walk right and short.
TreeSound == WellFormed /\ Balanced

\* Rows, columns and offsets are those of the plain text, for every row and
\* column a caller may ask for, the ones that do not exist included.
LinesAgree ==
    /\ LineCountOf(root) = LineCount(text)
    /\ \A p \in 0..(Len(text) + 1) : OffsetToLineCol(root, p) = PosOf(text, Min({p, Len(text)}))
    /\ \A row \in 0..LineCount(text), col \in 0..(Len(text) + 1) :
           LineColToOffset(root, row, col) = Offset(text, <<row, col>>)

=============================================================================
