------------------------------ MODULE RopeProofs ------------------------------
(****************************************************************************)
(* For any leaf size, texts and edits the rope holds the text that the same *)
(* edits give on a plain sequence, its cached figures are right and it      *)
(* stays balanced, and rows, columns and offsets are those of the text: the *)
(* trees first, then what each walk over a tree finds, then the edits.      *)
(****************************************************************************)
EXTENDS Rope, FlatTextProofs

----------------------------------------------------------------------------
(* Trees *)

Leaves == {Leaf(b) : b \in Text}

Grown(S) == S \union {Branch(p[1], p[2]) : p \in S \X S}

(* g gives the trees of at most k branchings one below another, for each k  *)
(* up to n.                                                                 *)
GrowsTo(g, n) == g[0] = Leaves /\ \A k \in 1..n : g[k] = Grown(g[k - 1])

TreesOf(n) == (CHOOSE g : GrowsTo(g, n))[n]

Trees == UNION {TreesOf(n) : n \in Nat}

LEMMA GrowthExists ==
  ASSUME NEW n \in Nat
  PROVE  \E g : GrowsTo(g, n)
<1> DEFINE S == {m \in Nat : \E g : GrowsTo(g, m)}
<1>1. 0 \in S
  <2> DEFINE g == [k \in {0} |-> Leaves]
  <2>1. GrowsTo(g, 0)
    BY DEF GrowsTo
  <2>2. QED
    BY <2>1
<1>2. ASSUME NEW m \in Nat, m \in S PROVE m + 1 \in S
  <2>1. PICK g : GrowsTo(g, m)
    BY <1>2
  <2> DEFINE h == [k \in 0..(m + 1) |-> IF k = m + 1 THEN Grown(g[m]) ELSE g[k]]
  <2>2. h[0] = Leaves
    BY <2>1 DEF GrowsTo
  <2>3. ASSUME NEW k \in 1..(m + 1) PROVE h[k] = Grown(h[k - 1])
    <3>1. CASE k = m + 1
      <4>1. k - 1 = m /\ m \in 0..(m + 1) /\ m # m + 1 /\ k \in 0..(m + 1)
        BY <3>1
      <4>2. QED
        BY <3>1, <4>1
    <3>2. CASE k # m + 1
      <4>1. k \in 1..m /\ k \in 0..(m + 1) /\ k - 1 \in 0..(m + 1) /\ k - 1 # m + 1
        BY <3>2
      <4>2. g[k] = Grown(g[k - 1])
        BY <2>1, <4>1 DEF GrowsTo
      <4>3. QED
        BY <3>2, <4>1, <4>2
    <3>3. QED
      BY <3>1, <3>2
  <2>4. GrowsTo(h, m + 1)
    <3> HIDE DEF h
    <3>1. QED
      BY <2>2, <2>3 DEF GrowsTo
  <2>5. QED
    BY <2>4
<1>3. \A m \in Nat : m \in S
  <2> HIDE DEF S
  <2>1. QED
    BY <1>1, <1>2, NatInductiveSet
<1>4. QED
  BY <1>3

LEMMA GrowthAgrees ==
  ASSUME NEW n \in Nat, NEW m \in Nat, NEW g, GrowsTo(g, n), NEW h, GrowsTo(h, m),
         NEW k \in Nat, k <= n, k <= m
  PROVE  g[k] = h[k]
<1> DEFINE S == {j \in Nat : j <= n /\ j <= m => g[j] = h[j]}
<1>1. 0 \in S
  BY DEF GrowsTo
<1>2. ASSUME NEW j \in Nat, j \in S PROVE j + 1 \in S
  <2>1. SUFFICES ASSUME j + 1 <= n, j + 1 <= m PROVE g[j + 1] = h[j + 1]
    OBVIOUS
  <2>2. /\ j + 1 \in 1..n /\ j + 1 \in 1..m /\ (j + 1) - 1 = j /\ j <= n /\ j <= m
    BY <2>1
  <2>3. g[j] = h[j]
    BY <1>2, <2>2
  <2>4. QED
    BY <2>2, <2>3 DEF GrowsTo
<1>3. \A j \in Nat : j \in S
  <2> HIDE DEF S
  <2>1. QED
    BY <1>1, <1>2, NatInductiveSet
<1>4. QED
  BY <1>3

LEMMA TreeLevels ==
  /\ TreesOf(0) = Leaves
  /\ \A n \in Nat : TreesOf(n + 1) = Grown(TreesOf(n))
<1> DEFINE G(n) == CHOOSE g : GrowsTo(g, n)
<1>1. \A n \in Nat : GrowsTo(G(n), n)
  BY GrowthExists
<1>2. \A n \in Nat : TreesOf(n) = G(n)[n]
  BY DEF TreesOf
<1> HIDE DEF G
<1>3. TreesOf(0) = Leaves
  BY <1>1, <1>2 DEF GrowsTo
<1>4. ASSUME NEW n \in Nat PROVE TreesOf(n + 1) = Grown(TreesOf(n))
  <2>1. GrowsTo(G(n + 1), n + 1) /\ GrowsTo(G(n), n)
    BY <1>1
  <2>2. G(n + 1)[n] = G(n)[n]
    <3>1. n + 1 \in Nat /\ n <= n + 1
      OBVIOUS
    <3>2. QED
      BY <2>1, <3>1, GrowthAgrees
  <2>3. n + 1 \in 1..(n + 1) /\ (n + 1) - 1 = n /\ n + 1 \in Nat
    OBVIOUS
  <2>4. G(n + 1)[n + 1] = Grown(G(n + 1)[n])
    BY <2>1, <2>3 DEF GrowsTo
  <2>5. QED
    BY <1>2, <2>2, <2>3, <2>4
<1>5. QED
  BY <1>3, <1>4

(* A set that has the leaves and the branches of its own trees.             *)
Inductive(S) ==
  /\ \A b \in Text : Leaf(b) \in S
  /\ \A l, r \in Trees : l \in S /\ r \in S => Branch(l, r) \in S

LEMMA TreeInduction ==
  ASSUME NEW S, Inductive(S)
  PROVE  Trees \subseteq S
<1> DEFINE T == {n \in Nat : TreesOf(n) \subseteq S}
<1>1. 0 \in T
  BY TreeLevels DEF Inductive, Leaves
<1>2. ASSUME NEW n \in Nat, n \in T PROVE n + 1 \in T
  <2>1. TreesOf(n) \subseteq S /\ TreesOf(n) \subseteq Trees
    BY <1>2 DEF Trees
  <2>2. TreesOf(n + 1) = TreesOf(n) \union {Branch(p[1], p[2]) : p \in TreesOf(n) \X TreesOf(n)}
    BY TreeLevels DEF Grown
  <2>3. ASSUME NEW p \in TreesOf(n) \X TreesOf(n) PROVE Branch(p[1], p[2]) \in S
    BY <2>1 DEF Inductive
  <2>4. QED
    BY <2>1, <2>2, <2>3
<1>3. \A n \in Nat : n \in T
  <2> HIDE DEF T
  <2>1. QED
    BY <1>1, <1>2, NatInductiveSet
<1>4. QED
  BY <1>3 DEF Trees

LEMMA TreesMonotone ==
  ASSUME NEW n \in Nat, NEW m \in Nat
  PROVE  TreesOf(n) \subseteq TreesOf(n + m)
<1> DEFINE S == {k \in Nat : TreesOf(n) \subseteq TreesOf(n + k)}
<1>1. 0 \in S
  <2>1. n + 0 = n
    OBVIOUS
  <2>2. QED
    BY <2>1
<1>2. ASSUME NEW k \in Nat, k \in S PROVE k + 1 \in S
  <2>1. n + (k + 1) = (n + k) + 1 /\ n + k \in Nat
    OBVIOUS
  <2>2. TreesOf((n + k) + 1) = Grown(TreesOf(n + k))
    BY <2>1, TreeLevels
  <2>3. TreesOf(n + k) \subseteq TreesOf(n + (k + 1))
    BY <2>1, <2>2 DEF Grown
  <2>4. QED
    BY <1>2, <2>3
<1>3. \A k \in Nat : k \in S
  <2> HIDE DEF S
  <2>1. QED
    BY <1>1, <1>2, NatInductiveSet
<1>4. QED
  BY <1>3

LEMMA LeafTree ==
  ASSUME NEW b \in Text
  PROVE  Leaf(b) \in Trees
BY TreeLevels DEF Trees, Leaves

LEMMA BranchTree ==
  ASSUME NEW l \in Trees, NEW r \in Trees
  PROVE  Branch(l, r) \in Trees
<1>1. PICK n \in Nat : l \in TreesOf(n)
  BY DEF Trees
<1>2. PICK m \in Nat : r \in TreesOf(m)
  BY DEF Trees
<1>3. l \in TreesOf(n + m) /\ r \in TreesOf(n + m)
  <2>1. m + n = n + m
    OBVIOUS
  <2>2. TreesOf(n) \subseteq TreesOf(n + m) /\ TreesOf(m) \subseteq TreesOf(m + n)
    BY TreesMonotone
  <2>3. QED
    BY <1>1, <1>2, <2>1, <2>2
<1>4. n + m \in Nat /\ (n + m) + 1 \in Nat
  OBVIOUS
<1> DEFINE k == n + m
<1> HIDE DEF k
<1>5. Branch(l, r) \in Grown(TreesOf(k))
  <2>1. <<l, r>> \in TreesOf(k) \X TreesOf(k) /\ <<l, r>>[1] = l /\ <<l, r>>[2] = r
    BY <1>3 DEF k
  <2> DEFINE p == <<l, r>>
  <2>2. p \in TreesOf(k) \X TreesOf(k) /\ Branch(p[1], p[2]) = Branch(l, r)
    BY <2>1
  <2> HIDE DEF p
  <2>3. QED
    BY <2>2 DEF Grown
<1>6. QED
  BY <1>4, <1>5, TreeLevels DEF Trees, k

LEMMA TreeCases ==
  ASSUME NEW x \in Trees
  PROVE  \/ \E b \in Text : x = Leaf(b)
         \/ \E l, r \in Trees : x = Branch(l, r)
<1> DEFINE S == {y \in Trees : \/ \E b \in Text : y = Leaf(b)
                               \/ \E l, r \in Trees : y = Branch(l, r)}
<1>1. ASSUME NEW b \in Text PROVE Leaf(b) \in S
  BY LeafTree
<1>2. ASSUME NEW l \in Trees, NEW r \in Trees PROVE Branch(l, r) \in S
  BY BranchTree
<1>3. Inductive(S)
  <2> HIDE DEF S
  <2>1. QED
    BY <1>1, <1>2 DEF Inductive
<1>4. Trees \subseteq S
  <2> HIDE DEF S
  <2>1. QED
    BY <1>3, TreeInduction
<1>5. QED
  BY <1>4

LEMMA LargerOf ==
  ASSUME NEW a \in Int, NEW b \in Int
  PROVE  Max({a, b}) = IF a >= b THEN a ELSE b
BY DEF Max

LEMMA SmallerOf ==
  ASSUME NEW a \in Int, NEW b \in Int
  PROVE  Min({a, b}) = IF a <= b THEN a ELSE b
BY DEF Min

LEMMA LeafFigures ==
  ASSUME NEW b
  PROVE  /\ IsLeaf(Leaf(b)) /\ Leaf(b).buf = b /\ TextLen(Leaf(b)) = Len(b)
         /\ Newlines(Leaf(b)) = NewlinesBefore(b, Len(b))
         /\ Height(Leaf(b)) = 0 /\ BalanceFactor(Leaf(b)) = 0
BY DEF Leaf, IsLeaf, TextLen, Newlines, Height, BalanceFactor

LEMMA BranchFigures ==
  ASSUME NEW l, NEW r
  PROVE  /\ ~ IsLeaf(Branch(l, r)) /\ Branch(l, r).left = l /\ Branch(l, r).right = r
         /\ Branch(l, r).left_len = TextLen(l)
         /\ TextLen(Branch(l, r)) = TextLen(l) + TextLen(r)
         /\ Newlines(Branch(l, r)) = Newlines(l) + Newlines(r)
         /\ Height(Branch(l, r)) = 1 + Max({Height(l), Height(r)})
         /\ BalanceFactor(Branch(l, r)) = Height(l) - Height(r)
BY DEF Branch, IsLeaf, TextLen, Newlines, Height, BalanceFactor

LEMMA Figures ==
  ASSUME NEW x \in Trees
  PROVE  TextLen(x) \in Nat /\ Newlines(x) \in Nat /\ Height(x) \in Nat
<1> DEFINE S == {y \in Trees : TextLen(y) \in Nat /\ Newlines(y) \in Nat /\ Height(y) \in Nat}
<1>1. ASSUME NEW b \in Text PROVE Leaf(b) \in S
  <2>1. Len(b) \in Nat
    BY DEF Text
  <2>2. NewlinesBefore(b, Len(b)) \in Nat
    BY <2>1, NewlinesNat
  <2>3. QED
    BY <2>1, <2>2, LeafTree, LeafFigures
<1>2. ASSUME NEW l \in Trees, NEW r \in Trees, l \in S, r \in S PROVE Branch(l, r) \in S
  <2>1. Max({Height(l), Height(r)}) \in Nat
    <3>1. Height(l) \in Nat /\ Height(r) \in Nat
      BY <1>2
    <3>2. QED
      BY <3>1, LargerOf
  <2>2. QED
    BY <1>2, <2>1, BranchTree, BranchFigures
<1>3. Trees \subseteq S
  <2> HIDE DEF S
  <2>1. Inductive(S)
    BY <1>1, <1>2 DEF Inductive
  <2>2. QED
    BY <2>1, TreeInduction
<1>4. QED
  BY <1>3

LEMMA BranchHeight ==
  ASSUME NEW l \in Trees, NEW r \in Trees
  PROVE  Height(Branch(l, r)) = 1 + IF Height(l) >= Height(r) THEN Height(l) ELSE Height(r)
<1> DEFINE a == Height(l)
           b == Height(r)
<1>1. a \in Int /\ b \in Int
  BY Figures
<1>2. Height(Branch(l, r)) = 1 + Max({a, b})
  BY BranchFigures
<1> HIDE DEF a, b
<1>3. Max({a, b}) = IF a >= b THEN a ELSE b
  BY <1>1, LargerOf
<1>4. QED
  BY <1>2, <1>3 DEF a, b

LEMMA LeafParts ==
  ASSUME NEW x \in Trees, IsLeaf(x)
  PROVE  x.buf \in Text /\ x = Leaf(x.buf)
<1>1. ASSUME NEW l \in Trees, NEW r \in Trees, x = Branch(l, r) PROVE FALSE
  <2>1. ~ IsLeaf(Branch(l, r))
    BY BranchFigures
  <2>2. QED
    BY <1>1, <2>1
<1>2. PICK b \in Text : x = Leaf(b)
  BY <1>1, TreeCases
<1>3. QED
  BY <1>2, LeafFigures

LEMMA BranchParts ==
  ASSUME NEW x \in Trees, ~ IsLeaf(x)
  PROVE  /\ x.left \in Trees /\ x.right \in Trees /\ x = Branch(x.left, x.right)
         /\ Height(x.left) < Height(x) /\ Height(x.right) < Height(x)
<1>1. PICK l \in Trees, r \in Trees : x = Branch(l, r)
  BY TreeCases, LeafFigures
<1>2. x.left = l /\ x.right = r
  BY <1>1, BranchFigures
<1>3. Height(l) \in Nat /\ Height(r) \in Nat
  BY Figures
<1>4. Height(x) = 1 + IF Height(l) >= Height(r) THEN Height(l) ELSE Height(r)
  BY <1>1, BranchHeight
<1>5. QED
  BY <1>1, <1>2, <1>3, <1>4

----------------------------------------------------------------------------
(* The nodes below a node *)

ClosedBelow(C) == \A y \in C : ~ IsLeaf(y) => y.left \in C /\ y.right \in C

LEMMA BelowIs ==
  ASSUME NEW S
  PROVE  /\ \A y \in S : ~ IsLeaf(y) => y.left \in Below(S) /\ y.right \in Below(S)
         /\ \A z \in Below(S) : \E y \in S : ~ IsLeaf(y) /\ (z = y.left \/ z = y.right)
BY DEF Below

(* The levels of a tree.                                                    *)
LevelsOf(x, level) ==
  /\ level[0] = {x}
  /\ \A n \in Nat : level[n + 1] = Below(level[n])

LEMMA LevelsHeight ==
  ASSUME NEW x \in Trees, NEW level, LevelsOf(x, level), NEW n \in Nat
  PROVE  level[n] \subseteq {y \in Trees : Height(y) + n <= Height(x)}
<1> DEFINE S == {m \in Nat : level[m] \subseteq {y \in Trees : Height(y) + m <= Height(x)}}
<1>1. 0 \in S
  <2>1. Height(x) \in Nat
    BY Figures
  <2>2. QED
    BY <2>1 DEF LevelsOf
<1>2. ASSUME NEW m \in Nat, m \in S PROVE m + 1 \in S
  <2>1. ASSUME NEW z \in level[m + 1]
        PROVE  z \in Trees /\ Height(z) + (m + 1) <= Height(x)
    <3>1. PICK y \in level[m] : ~ IsLeaf(y) /\ (z = y.left \/ z = y.right)
      BY <2>1, BelowIs DEF LevelsOf
    <3>2. y \in Trees /\ Height(y) + m <= Height(x)
      BY <1>2
    <3>3. z \in Trees /\ Height(z) < Height(y)
      BY <3>1, <3>2, BranchParts
    <3>4. Height(x) \in Nat /\ Height(y) \in Nat /\ Height(z) \in Nat
      BY <3>2, <3>3, Figures
    <3>5. QED
      BY <3>2, <3>3, <3>4
  <2>2. QED
    BY <2>1
<1>3. \A m \in Nat : m \in S
  <2> HIDE DEF S
  <2>1. QED
    BY <1>1, <1>2, NatInductiveSet
<1>4. QED
  BY <1>3

Gathered(level) ==
  (CHOOSE f : f = [n \in Nat |-> LET l == level[n]
                                 IN IF l = {} THEN {} ELSE l \union f[n + 1]])[0]

(* from in Nodes gathers the levels: past the height of x there is none.    *)
LEMMA LevelsGathered ==
  ASSUME NEW x \in Trees, NEW level, LevelsOf(x, level)
  PROVE  Gathered(level) = UNION {level[n] : n \in Nat}
<1> DEFINE h == Height(x)
           Rest(n) == UNION {level[k] : k \in {m \in Nat : m >= n}}
           g == [n \in Nat |-> Rest(n)]
           A == CHOOSE f : f = [n \in Nat |-> IF level[n] = {} THEN {} ELSE level[n] \union f[n + 1]]
<1>1. h \in Nat
  BY Figures
<1>2. ASSUME NEW n \in Nat, n > h PROVE level[n] = {}
  <2>1. \A y \in Trees : Height(y) \in Nat
    BY Figures
  <2>2. level[n] \subseteq {y \in Trees : Height(y) + n <= h}
    BY LevelsHeight
  <2>3. QED
    BY <1>1, <1>2, <2>1, <2>2
<1>3. ASSUME NEW n \in Nat PROVE Rest(n) = level[n] \union Rest(n + 1)
  <2>1. {m \in Nat : m >= n} = {n} \union {m \in Nat : m >= n + 1}
    OBVIOUS
  <2>2. QED
    BY <2>1
<1>4. ASSUME NEW n \in Nat, level[n] = {} PROVE Rest(n) = {}
  <2>1. ASSUME NEW k \in Nat PROVE level[n + k] = {}
    <3> DEFINE S == {m \in Nat : level[n + m] = {}}
    <3>1. 0 \in S
      BY <1>4
    <3>2. ASSUME NEW m \in Nat, m \in S PROVE m + 1 \in S
      <4>1. n + (m + 1) = (n + m) + 1 /\ n + m \in Nat /\ level[n + m] = {}
        BY <3>2
      <4>2. level[(n + m) + 1] = Below(level[n + m])
        BY <4>1 DEF LevelsOf
      <4>3. Below({}) = {}
        BY DEF Below
      <4>4. QED
        BY <4>1, <4>2, <4>3
    <3>3. \A m \in Nat : m \in S
      <4> HIDE DEF S
      <4>1. QED
        BY <3>1, <3>2, NatInductiveSet
    <3>4. QED
      BY <3>3
  <2>2. ASSUME NEW m \in Nat, m >= n PROVE level[m] = {}
    <3>1. m - n \in Nat /\ n + (m - n) = m
      BY <2>2
    <3>2. QED
      BY <2>1, <3>1
  <2>3. QED
    BY <2>2
<1> HIDE DEF Rest
<1>5. g = [n \in Nat |-> IF level[n] = {} THEN {} ELSE level[n] \union g[n + 1]]
  <2>1. ASSUME NEW n \in Nat
        PROVE  g[n] = IF level[n] = {} THEN {} ELSE level[n] \union g[n + 1]
    <3>1. g[n] = Rest(n) /\ g[n + 1] = Rest(n + 1)
      OBVIOUS
    <3>2. QED
      BY <3>1, <1>3, <1>4
  <2>2. QED
    BY <2>1
<1> HIDE DEF g
<1>6. A = [n \in Nat |-> IF level[n] = {} THEN {} ELSE level[n] \union A[n + 1]]
  BY <1>5
<1>7. Gathered(level) = A[0]
  BY DEF Gathered
<1> HIDE DEF A
<1>8. \A n \in Nat : A[n] = IF level[n] = {} THEN {} ELSE level[n] \union A[n + 1]
  BY <1>6
<1> DEFINE S == {k \in Nat : k <= h + 1 => A[(h + 1) - k] = Rest((h + 1) - k)}
<1>9. 0 \in S
  <2>1. h + 1 \in Nat /\ (h + 1) - 0 = h + 1 /\ h + 1 > h
    BY <1>1
  <2>2. level[h + 1] = {}
    BY <2>1, <1>2
  <2>3. A[h + 1] = {} /\ Rest(h + 1) = {}
    BY <2>1, <2>2, <1>4, <1>8
  <2>4. QED
    BY <2>1, <2>3
<1>10. ASSUME NEW k \in Nat, k \in S PROVE k + 1 \in S
  <2>1. SUFFICES ASSUME k + 1 <= h + 1 PROVE A[(h + 1) - (k + 1)] = Rest((h + 1) - (k + 1))
    OBVIOUS
  <2> DEFINE n == (h + 1) - (k + 1)
  <2>2. n \in Nat /\ n + 1 = (h + 1) - k /\ k <= h + 1
    BY <1>1, <2>1
  <2>3. A[n + 1] = Rest(n + 1)
    BY <1>10, <2>2
  <2> HIDE DEF n
  <2>4. A[n] = Rest(n)
    BY <2>2, <2>3, <1>3, <1>4, <1>8
  <2>5. QED
    BY <2>4 DEF n
<1>11. \A k \in Nat : k \in S
  <2> HIDE DEF S
  <2>1. QED
    BY <1>9, <1>10, NatInductiveSet
<1>12. A[0] = Rest(0)
  <2>1. h + 1 \in S /\ h + 1 \in Nat /\ (h + 1) - (h + 1) = 0
    BY <1>1, <1>11
  <2> HIDE DEF h
  <2>2. QED
    BY <2>1
<1>13. Rest(0) = UNION {level[n] : n \in Nat}
  <2>1. {m \in Nat : m >= 0} = Nat
    OBVIOUS
  <2>2. QED
    BY <2>1 DEF Rest
<1>14. QED
  BY <1>7, <1>12, <1>13

(* Nodes(x) is x and what is below it, and no more than any set that has x  *)
(* and the children of its branches.                                        *)
LEMMA NodesAre ==
  ASSUME NEW x \in Trees
  PROVE  /\ x \in Nodes(x) /\ Nodes(x) \subseteq Trees /\ ClosedBelow(Nodes(x))
         /\ \A C : ClosedBelow(C) /\ x \in C => Nodes(x) \subseteq C
<1> DEFINE V == SUBSET Trees
           G == [S \in V |-> Below(S)]
           B == CHOOSE f : f = [n \in Nat |-> IF n = 0 THEN {x} ELSE Below(f[n - 1])]
<1>1. {x} \in V
  OBVIOUS
<1>2. G \in [V -> V]
  <2>1. ASSUME NEW S \in V PROVE Below(S) \in V
    BY BelowIs, BranchParts
  <2>2. QED
    BY <2>1
<1> HIDE DEF V
<1>3. PICK f \in [Nat -> V] : \A n \in Nat : f[n] = IF n = 0 THEN {x} ELSE G[f[n - 1]]
  <2> HIDE DEF G
  <2>1. \E f : Iterates(V, {x}, G, f)
    BY <1>1, <1>2, Iteration
  <2>2. QED
    BY <2>1 DEF Iterates
<1>4. ASSUME NEW n \in Nat PROVE f[n] = IF n = 0 THEN {x} ELSE Below(f[n - 1])
  <2>1. n # 0 => n - 1 \in Nat
    OBVIOUS
  <2>2. QED
    BY <1>3, <2>1
<1>5. f = [n \in Nat |-> IF n = 0 THEN {x} ELSE Below(f[n - 1])]
  BY <1>4
<1>6. B = [n \in Nat |-> IF n = 0 THEN {x} ELSE Below(B[n - 1])]
  BY <1>5
<1>7. Nodes(x) = Gathered(B)
  BY DEF Nodes, Gathered
<1> HIDE DEF B
<1>8. \A n \in Nat : B[n] = IF n = 0 THEN {x} ELSE Below(B[n - 1])
  BY <1>6
<1>9. LevelsOf(x, B)
  <2>1. B[0] = {x}
    BY <1>8
  <2>2. ASSUME NEW n \in Nat PROVE B[n + 1] = Below(B[n])
    <3>1. n + 1 \in Nat /\ n + 1 # 0 /\ (n + 1) - 1 = n
      OBVIOUS
    <3>2. QED
      BY <1>8, <3>1
  <2>3. QED
    BY <2>1, <2>2 DEF LevelsOf
<1>10. Nodes(x) = UNION {B[n] : n \in Nat}
  <2>1. Gathered(B) = UNION {B[n] : n \in Nat}
    BY <1>9, LevelsGathered
  <2>2. QED
    BY <1>7, <2>1
<1>11. x \in Nodes(x)
  BY <1>9, <1>10 DEF LevelsOf
<1>12. Nodes(x) \subseteq Trees
  BY <1>9, <1>10, LevelsHeight
<1>13. ClosedBelow(Nodes(x))
  <2>1. ASSUME NEW y \in Nodes(x), ~ IsLeaf(y) PROVE y.left \in Nodes(x) /\ y.right \in Nodes(x)
    <3>1. PICK n \in Nat : y \in B[n]
      BY <1>10, <2>1
    <3>2. y.left \in B[n + 1] /\ y.right \in B[n + 1]
      BY <2>1, <3>1, <1>9, BelowIs DEF LevelsOf
    <3>3. QED
      BY <1>10, <3>2
  <2>2. QED
    BY <2>1 DEF ClosedBelow
<1>14. ASSUME NEW C, ClosedBelow(C), x \in C PROVE Nodes(x) \subseteq C
  <2> DEFINE S == {n \in Nat : B[n] \subseteq C}
  <2>1. 0 \in S
    BY <1>9, <1>14 DEF LevelsOf
  <2>2. ASSUME NEW n \in Nat, n \in S PROVE n + 1 \in S
    <3>1. B[n + 1] = Below(B[n])
      BY <1>9 DEF LevelsOf
    <3>2. \A z \in Below(B[n]) : z \in C
      BY <2>2, <1>14, BelowIs DEF ClosedBelow
    <3>3. QED
      BY <3>1, <3>2
  <2>3. \A n \in Nat : n \in S
    <3> HIDE DEF S
    <3>1. QED
      BY <2>1, <2>2, NatInductiveSet
  <2>4. QED
    BY <1>10, <2>3
<1>15. QED
  BY <1>11, <1>12, <1>13, <1>14

LEMMA NodesOfNode ==
  ASSUME NEW x \in Trees, NEW y \in Nodes(x)
  PROVE  y \in Trees /\ Nodes(y) \subseteq Nodes(x)
<1>1. ClosedBelow(Nodes(x)) /\ y \in Trees
  BY NodesAre
<1>2. \A C : ClosedBelow(C) /\ y \in C => Nodes(y) \subseteq C
  BY <1>1, NodesAre
<1>3. QED
  BY <1>1, <1>2

LEMMA NodesOfLeaf ==
  ASSUME NEW x \in Trees, IsLeaf(x)
  PROVE  Nodes(x) = {x}
<1>1. ClosedBelow({x})
  BY DEF ClosedBelow
<1>2. QED
  BY <1>1, NodesAre

LEMMA NodesOfBranch ==
  ASSUME NEW l \in Trees, NEW r \in Trees
  PROVE  Nodes(Branch(l, r)) = {Branch(l, r)} \union Nodes(l) \union Nodes(r)
<1> DEFINE x == Branch(l, r)
           C == {x} \union Nodes(l) \union Nodes(r)
<1>1. x \in Trees /\ ~ IsLeaf(x) /\ x.left = l /\ x.right = r
  BY BranchTree, BranchFigures
<1> HIDE DEF x
<1>2. /\ ClosedBelow(Nodes(l)) /\ l \in Nodes(l)
      /\ ClosedBelow(Nodes(r)) /\ r \in Nodes(r)
  BY NodesAre
<1>3. ClosedBelow(C) /\ x \in C
  BY <1>1, <1>2 DEF ClosedBelow
<1>4. Nodes(x) \subseteq C
  <2> HIDE DEF C
  <2>1. QED
    BY <1>1, <1>3, NodesAre
<1>5. x \in Nodes(x) /\ l \in Nodes(x) /\ r \in Nodes(x)
  BY <1>1, NodesAre DEF ClosedBelow
<1>6. Nodes(l) \subseteq Nodes(x) /\ Nodes(r) \subseteq Nodes(x)
  BY <1>1, <1>5, NodesOfNode
<1>7. QED
  BY <1>4, <1>5, <1>6 DEF x

(* Induction over the nodes of a tree, from the leaves up.                  *)
Rises(D, S) ==
  \A y \in D : /\ IsLeaf(y) => y \in S
               /\ ~ IsLeaf(y) /\ y.left \in S /\ y.right \in S => y \in S

LEMMA NodesInduction ==
  ASSUME NEW x \in Trees, NEW S, Rises(Nodes(x), S)
  PROVE  Nodes(x) \subseteq S
<1> DEFINE T == {y \in Trees : y \in Nodes(x) => y \in S}
<1>0. ClosedBelow(Nodes(x)) /\ Nodes(x) \subseteq Trees
  BY NodesAre
<1>1. ASSUME NEW b \in Text PROVE Leaf(b) \in T
  BY LeafTree, LeafFigures DEF Rises
<1>2. ASSUME NEW l \in Trees, NEW r \in Trees, l \in T, r \in T PROVE Branch(l, r) \in T
  <2> DEFINE y == Branch(l, r)
  <2>1. y \in Trees /\ ~ IsLeaf(y) /\ y.left = l /\ y.right = r
    BY BranchTree, BranchFigures
  <2> HIDE DEF y
  <2>2. SUFFICES ASSUME y \in Nodes(x) PROVE y \in S
    BY <2>1 DEF y
  <2>3. l \in Nodes(x) /\ r \in Nodes(x)
    BY <1>0, <2>1, <2>2 DEF ClosedBelow
  <2>4. QED
    BY <1>2, <2>1, <2>2, <2>3 DEF Rises
<1>3. Trees \subseteq T
  <2> HIDE DEF T
  <2>1. Inductive(T)
    BY <1>1, <1>2 DEF Inductive
  <2>2. QED
    BY <2>1, TreeInduction
<1>4. QED
  BY <1>0, <1>3

(* A definition by recursion over D, a set of trees and all that is below   *)
(* them: what F gives for a branch depends on its two children only.        *)
ByChildren(D, V, F) ==
  /\ V # {}
  /\ \A y \in D, g \in [D -> V] : F[<<y, g>>] \in V
  /\ \A y \in D : \A g, h \in [D -> V] :
       IsLeaf(y) \/ (g[y.left] = h[y.left] /\ g[y.right] = h[y.right])
         => F[<<y, g>>] = F[<<y, h>>]

LEMMA WalkDefined ==
  ASSUME NEW D, D \subseteq Trees, ClosedBelow(D), NEW V, NEW F, ByChildren(D, V, F)
  PROVE  Defined(D, V, F)
<1> DEFINE rank == [y \in D |-> Height(y)]
<1>1. rank \in [D -> Nat]
  BY Figures
<1>2. ASSUME NEW y \in D, NEW g \in [D -> V], NEW h \in [D -> V],
             \A z \in D : rank[z] < rank[y] => g[z] = h[z]
      PROVE  F[<<y, g>>] = F[<<y, h>>]
  <2>1. CASE ~ IsLeaf(y)
    <3>1. y.left \in D /\ y.right \in D
      BY <2>1 DEF ClosedBelow
    <3>2. Height(y.left) < Height(y) /\ Height(y.right) < Height(y)
      BY <2>1, BranchParts
    <3>3. g[y.left] = h[y.left] /\ g[y.right] = h[y.right]
      BY <1>2, <3>1, <3>2
    <3>4. QED
      BY <3>3 DEF ByChildren
  <2>2. QED
    BY <2>1 DEF ByChildren
<1> HIDE DEF rank
<1>3. LowerRanksDecide(D, V, rank, F)
  BY <1>2 DEF LowerRanksDecide
<1>4. Recursive(D, V, rank, F)
  BY <1>1, <1>3 DEF Recursive, ByChildren
<1>5. QED
  BY <1>4, RecursionDefines

----------------------------------------------------------------------------
(* The text of a tree, and its figures *)

FlatOf ==
  CHOOSE f \in [Trees -> Text] :
    \A x \in Trees : f[x] = IF IsLeaf(x) THEN x.buf ELSE f[x.left] \o f[x.right]

LEMMA FlatWalk ==
  /\ FlatOf \in [Trees -> Text]
  /\ \A x \in Trees : FlatOf[x] = IF IsLeaf(x) THEN x.buf ELSE FlatOf[x.left] \o FlatOf[x.right]
<1> DEFINE Joined(x, g) == IF IsLeaf(x) THEN x.buf ELSE g[x.left] \o g[x.right]
           F == [q \in Trees \X [Trees -> Text] |-> Joined(q[1], q[2])]
<1>1. ASSUME NEW x \in Trees, NEW g \in [Trees -> Text]
      PROVE  F[<<x, g>>] = Joined(x, g)
  OBVIOUS
<1>2. ASSUME NEW x \in Trees, NEW g \in [Trees -> Text]
      PROVE  Joined(x, g) \in Text
  <2>1. CASE IsLeaf(x)
    BY <2>1, LeafParts
  <2>2. CASE ~ IsLeaf(x)
    <3>1. g[x.left] \in Text /\ g[x.right] \in Text
      BY <2>2, BranchParts
    <3>2. g[x.left] \o g[x.right] \in Text
      BY <3>1, JoinText
    <3>3. QED
      BY <2>2, <3>2
  <2>3. QED
    BY <2>1, <2>2
<1> HIDE DEF F
<1>3. ByChildren(Trees, Text, F)
  <2>1. Text # {}
    <3>1. <<>> \in Text
      BY DEF Text
    <3>2. QED
      BY <3>1
  <2>2. ASSUME NEW x \in Trees, NEW g \in [Trees -> Text], NEW h \in [Trees -> Text],
               IsLeaf(x) \/ (g[x.left] = h[x.left] /\ g[x.right] = h[x.right])
        PROVE  F[<<x, g>>] = F[<<x, h>>]
    BY <1>1, <2>2
  <2> HIDE DEF Joined
  <2>3. QED
    BY <1>1, <1>2, <2>1, <2>2 DEF ByChildren
<1>4. Defined(Trees, Text, F)
  <2>1. ClosedBelow(Trees)
    BY BranchParts DEF ClosedBelow
  <2>2. QED
    BY <1>3, <2>1, WalkDefined
<1>5. \E f \in [Trees -> Text] : \A x \in Trees : f[x] = Joined(x, f)
  <2> HIDE DEF Joined
  <2>1. QED
    BY <1>1, <1>4 DEF Defined
<1>6. QED
  BY <1>5 DEF FlatOf

LEMMA FlatIs ==
  ASSUME NEW x \in Trees
  PROVE  Flat(x) = FlatOf[x]
<1> DEFINE D == Nodes(x)
           f == [y \in D |-> FlatOf[y]]
           A == CHOOSE g : g = [y \in D |-> IF IsLeaf(y) THEN y.buf ELSE g[y.left] \o g[y.right]]
<1>1. x \in D /\ D \subseteq Trees /\ ClosedBelow(D)
  BY NodesAre
<1> HIDE DEF D
<1>2. f = [y \in D |-> IF IsLeaf(y) THEN y.buf ELSE f[y.left] \o f[y.right]]
  <2>1. ASSUME NEW y \in D PROVE f[y] = IF IsLeaf(y) THEN y.buf ELSE f[y.left] \o f[y.right]
    <3>1. FlatOf[y] = IF IsLeaf(y) THEN y.buf ELSE FlatOf[y.left] \o FlatOf[y.right]
      BY <1>1, FlatWalk, ZenonT(40)
    <3>2. ~ IsLeaf(y) => y.left \in D /\ y.right \in D
      BY <1>1 DEF ClosedBelow
    <3>3. QED
      BY <3>1, <3>2
  <2>2. QED
    BY <2>1
<1> HIDE DEF f
<1>3. A = [y \in D |-> IF IsLeaf(y) THEN y.buf ELSE A[y.left] \o A[y.right]]
  BY <1>2, ZenonT(40)
<1>4. Flat(x) = A[x]
  BY DEF Flat, D
<1> HIDE DEF A
<1> DEFINE S == {y \in D : A[y] = FlatOf[y]}
<1>5. Rises(Nodes(x), S)
  <2>1. ASSUME NEW y \in D, IsLeaf(y) PROVE y \in S
    BY <1>1, <1>3, <2>1, FlatWalk
  <2>2. ASSUME NEW y \in D, ~ IsLeaf(y), y.left \in S, y.right \in S PROVE y \in S
    <3>1. A[y] = A[y.left] \o A[y.right]
      BY <1>3, <2>2
    <3>2. FlatOf[y] = FlatOf[y.left] \o FlatOf[y.right]
      BY <1>1, <2>2, FlatWalk
    <3>3. QED
      BY <2>2, <3>1, <3>2
  <2> HIDE DEF S
  <2>3. QED
    BY <2>1, <2>2 DEF Rises, D
<1>6. x \in S
  <2> HIDE DEF S
  <2>1. QED
    BY <1>1, <1>5, NodesInduction DEF D
<1>7. QED
  BY <1>4, <1>6

LEMMA FlatIsText ==
  ASSUME NEW x \in Trees
  PROVE  Flat(x) \in Text
BY FlatIs, FlatWalk

LEMMA FlatLeaf ==
  ASSUME NEW b \in Text
  PROVE  Flat(Leaf(b)) = b
BY FlatIs, FlatWalk, LeafTree, LeafFigures

LEMMA FlatBranch ==
  ASSUME NEW l \in Trees, NEW r \in Trees
  PROVE  Flat(Branch(l, r)) = Flat(l) \o Flat(r)
<1> DEFINE x == Branch(l, r)
<1>1. x \in Trees /\ ~ IsLeaf(x) /\ x.left = l /\ x.right = r
  BY BranchTree, BranchFigures
<1> HIDE DEF x
<1>2. Flat(x) = FlatOf[l] \o FlatOf[r]
  BY <1>1, FlatIs, FlatWalk
<1>3. QED
  BY <1>2, FlatIs DEF x

LEMMA HeightIsReal ==
  ASSUME NEW x \in Trees
  PROVE  RealHeight(x) = Height(x)
<1> DEFINE D == Nodes(x)
           f == [y \in D |-> Height(y)]
           A == CHOOSE g : g = [y \in D |-> IF IsLeaf(y) THEN 0 ELSE 1 + Max({g[y.left], g[y.right]})]
<1>1. x \in D /\ D \subseteq Trees /\ ClosedBelow(D)
  BY NodesAre
<1>2. ASSUME NEW y \in D
      PROVE  Height(y) = IF IsLeaf(y) THEN 0 ELSE 1 + Max({Height(y.left), Height(y.right)})
  <2>1. CASE IsLeaf(y)
    BY <1>1, <2>1, LeafParts, LeafFigures
  <2>2. CASE ~ IsLeaf(y)
    <3>1. y = Branch(y.left, y.right)
      BY <1>1, <2>2, BranchParts
    <3>2. Height(Branch(y.left, y.right)) = 1 + Max({Height(y.left), Height(y.right)})
      BY BranchFigures
    <3>3. QED
      BY <2>2, <3>1, <3>2
  <2>3. QED
    BY <2>1, <2>2
<1> HIDE DEF D
<1>3. f = [y \in D |-> IF IsLeaf(y) THEN 0 ELSE 1 + Max({f[y.left], f[y.right]})]
  <2>1. ASSUME NEW y \in D PROVE f[y] = IF IsLeaf(y) THEN 0 ELSE 1 + Max({f[y.left], f[y.right]})
    <3>1. ~ IsLeaf(y) => f[y.left] = Height(y.left) /\ f[y.right] = Height(y.right)
      BY <1>1 DEF ClosedBelow
    <3>2. QED
      BY <1>2, <3>1
  <2>2. QED
    BY <2>1
<1> HIDE DEF f
<1>4. A = [y \in D |-> IF IsLeaf(y) THEN 0 ELSE 1 + Max({A[y.left], A[y.right]})]
  BY <1>3
<1>5. RealHeight(x) = A[x]
  BY DEF RealHeight, D
<1> HIDE DEF A
<1> DEFINE S == {y \in D : A[y] = Height(y)}
<1>6. Rises(Nodes(x), S)
  <2>1. ASSUME NEW y \in D, IsLeaf(y) PROVE y \in S
    BY <1>2, <1>4, <2>1
  <2>2. ASSUME NEW y \in D, ~ IsLeaf(y), y.left \in S, y.right \in S PROVE y \in S
    <3>1. A[y] = 1 + Max({A[y.left], A[y.right]})
      BY <1>4, <2>2
    <3>2. Height(y) = 1 + Max({Height(y.left), Height(y.right)})
      BY <1>2, <2>2
    <3>3. QED
      BY <2>2, <3>1, <3>2
  <2> HIDE DEF S
  <2>3. QED
    BY <2>1, <2>2 DEF Rises, D
<1>7. x \in S
  <2> HIDE DEF S
  <2>1. QED
    BY <1>1, <1>6, NodesInduction DEF D
<1>8. QED
  BY <1>5, <1>7

(* The line ends of two texts joined.                                       *)
LEMMA NewlinesJoined ==
  ASSUME NEW t \in Text, NEW u \in Text, NEW p \in Nat
  PROVE  /\ p <= Len(t) => NewlinesBefore(t \o u, p) = NewlinesBefore(t, p)
         /\ p <= Len(u) => NewlinesBefore(t \o u, Len(t) + p)
                             = NewlinesBefore(t, Len(t)) + NewlinesBefore(u, p)
<1> DEFINE w == t \o u
           n == Len(t)
           m == Len(u)
<1>1. /\ n \in Nat /\ m \in Nat
      /\ \A i \in 1..n : w[i] = t[i]
      /\ \A i \in 1..m : w[n + i] = u[i]
  BY JoinText DEF Text
<1> HIDE DEF w, n, m
<1>2. ASSUME p <= n PROVE NewlinesBefore(w, p) = NewlinesBefore(t, p)
  <2>1. \A i \in 1..p : w[i] = t[i]
    BY <1>1, <1>2
  <2>2. QED
    BY <2>1, NewlinesPrefix
<1>3. ASSUME p <= m
      PROVE  NewlinesBefore(w, n + p) = NewlinesBefore(t, n) + NewlinesBefore(u, p)
  <2>1. \A i \in 1..p : w[n + i] = u[i]
    BY <1>1, <1>3
  <2>2. NewlinesBefore(w, n + p) = NewlinesBefore(w, n) + NewlinesBefore(u, p)
    BY <1>1, <2>1, NewlinesShift
  <2>3. NewlinesBefore(w, n) = NewlinesBefore(t, n)
    <3>1. \A i \in 1..n : w[i] = t[i]
      BY <1>1
    <3>2. QED
      BY <1>1, <3>1, NewlinesPrefix
  <2>4. QED
    BY <2>2, <2>3
<1>4. QED
  BY <1>2, <1>3 DEF w, n, m

(* The cached figures are those of the text.                                *)
LEMMA FiguresRight ==
  ASSUME NEW x \in Trees
  PROVE  /\ TextLen(x) = Len(Flat(x))
         /\ Newlines(x) = NewlinesBefore(Flat(x), Len(Flat(x)))
<1> DEFINE S == {y \in Trees : /\ TextLen(y) = Len(Flat(y))
                               /\ Newlines(y) = NewlinesBefore(Flat(y), Len(Flat(y)))}
<1>1. ASSUME NEW b \in Text PROVE Leaf(b) \in S
  BY LeafTree, LeafFigures, FlatLeaf
<1>2. ASSUME NEW l \in Trees, NEW r \in Trees, l \in S, r \in S PROVE Branch(l, r) \in S
  <2> DEFINE t == Flat(l)
             u == Flat(r)
  <2>1. t \in Text /\ u \in Text
    BY FlatIsText
  <2>2. /\ TextLen(l) = Len(t) /\ Newlines(l) = NewlinesBefore(t, Len(t))
        /\ TextLen(r) = Len(u) /\ Newlines(r) = NewlinesBefore(u, Len(u))
    BY <1>2
  <2>3. Flat(Branch(l, r)) = t \o u
    BY FlatBranch
  <2> HIDE DEF t, u
  <2>4. Len(t \o u) = Len(t) + Len(u) /\ Len(u) \in Nat
    BY <2>1, JoinText DEF Text
  <2>5. NewlinesBefore(t \o u, Len(t) + Len(u)) = NewlinesBefore(t, Len(t)) + NewlinesBefore(u, Len(u))
    <3> DEFINE m == Len(u)
    <3>1. m \in Nat /\ m <= Len(u)
      BY <2>4
    <3> HIDE DEF m
    <3>2. NewlinesBefore(t \o u, Len(t) + m) = NewlinesBefore(t, Len(t)) + NewlinesBefore(u, m)
      BY <2>1, <3>1, NewlinesJoined
    <3>3. QED
      BY <3>2 DEF m
  <2> DEFINE w == Branch(l, r)
  <2>6. w \in Trees /\ TextLen(w) = TextLen(l) + TextLen(r) /\ Newlines(w) = Newlines(l) + Newlines(r)
    BY BranchTree, BranchFigures
  <2>7. Flat(w) = t \o u
    BY <2>3
  <2> HIDE DEF w
  <2>8. TextLen(w) = Len(Flat(w))
    BY <2>2, <2>4, <2>6, <2>7
  <2>9. Newlines(w) = NewlinesBefore(Flat(w), Len(Flat(w)))
    BY <2>2, <2>4, <2>5, <2>6, <2>7
  <2>10. QED
    BY <2>6, <2>8, <2>9 DEF w
<1>3. Trees \subseteq S
  <2> HIDE DEF S
  <2>1. Inductive(S)
    BY <1>1, <1>2 DEF Inductive
  <2>2. QED
    BY <2>1, TreeInduction
<1>4. QED
  BY <1>3

----------------------------------------------------------------------------
(* Rotations *)

(* No leaf of x is empty or outgrown, and x holds the text t.               *)
Filled(x) == \A y \in Nodes(x) : IsLeaf(y) => Len(y.buf) \in 1..LeafMax

Holds(x, t) == x \in Trees /\ Filled(x) /\ Flat(x) = t

LEMMA HoldsText ==
  ASSUME NEW x, NEW t, Holds(x, t)
  PROVE  t \in Text /\ TextLen(x) = Len(t) /\ TextLen(x) \in Nat
BY FlatIsText, FiguresRight, Figures DEF Holds

LEMMA HoldsLeaf ==
  ASSUME NEW b \in Text, Len(b) \in 1..LeafMax
  PROVE  Holds(Leaf(b), b)
<1> DEFINE x == Leaf(b)
<1>1. x \in Trees /\ IsLeaf(x) /\ x.buf = b /\ Flat(x) = b
  BY LeafTree, LeafFigures, FlatLeaf
<1> HIDE DEF x
<1>2. Nodes(x) = {x}
  BY <1>1, NodesOfLeaf
<1>3. QED
  BY <1>1, <1>2 DEF Holds, Filled, x

LEMMA HoldsBranch ==
  ASSUME NEW l, NEW t, Holds(l, t), NEW r, NEW u, Holds(r, u)
  PROVE  Holds(Branch(l, r), t \o u)
<1> DEFINE x == Branch(l, r)
<1>1. l \in Trees /\ r \in Trees
  BY DEF Holds
<1>2. x \in Trees /\ ~ IsLeaf(x) /\ Flat(x) = Flat(l) \o Flat(r)
  BY <1>1, BranchTree, BranchFigures, FlatBranch
<1>3. Nodes(x) = {x} \union Nodes(l) \union Nodes(r)
  BY <1>1, NodesOfBranch
<1> HIDE DEF x
<1>4. Filled(x)
  BY <1>2, <1>3 DEF Filled, Holds
<1>5. QED
  BY <1>2, <1>4 DEF Holds, x

LEMMA HoldsParts ==
  ASSUME NEW x, NEW t, Holds(x, t)
  PROVE  /\ IsLeaf(x) => x.buf = t /\ Len(t) \in 1..LeafMax
         /\ ~ IsLeaf(x) => /\ Holds(x.left, Flat(x.left)) /\ Holds(x.right, Flat(x.right))
                           /\ t = Flat(x.left) \o Flat(x.right)
                           /\ x.left_len = Len(Flat(x.left))
<1>1. x \in Trees /\ x \in Nodes(x)
  BY NodesAre DEF Holds
<1>2. ASSUME IsLeaf(x) PROVE x.buf = t /\ Len(t) \in 1..LeafMax
  <2>1. x.buf \in Text /\ x = Leaf(x.buf)
    BY <1>1, <1>2, LeafParts
  <2>2. Flat(Leaf(x.buf)) = x.buf
    BY <2>1, FlatLeaf
  <2>3. QED
    BY <1>1, <1>2, <2>1, <2>2 DEF Holds, Filled
<1>3. ASSUME ~ IsLeaf(x)
      PROVE  /\ Holds(x.left, Flat(x.left)) /\ Holds(x.right, Flat(x.right))
             /\ t = Flat(x.left) \o Flat(x.right)
             /\ x.left_len = Len(Flat(x.left))
  <2> DEFINE l == x.left
             r == x.right
  <2>1. l \in Trees /\ r \in Trees /\ x = Branch(l, r)
    BY <1>1, <1>3, BranchParts
  <2> HIDE DEF l, r
  <2>2. Nodes(x) = {x} \union Nodes(l) \union Nodes(r)
    BY <2>1, NodesOfBranch
  <2>3. Flat(x) = Flat(l) \o Flat(r) /\ x.left_len = TextLen(l)
    BY <2>1, FlatBranch, BranchFigures
  <2>4. Filled(l) /\ Filled(r)
    BY <2>2 DEF Holds, Filled
  <2>5. TextLen(l) = Len(Flat(l))
    BY <2>1, FiguresRight
  <2>6. QED
    BY <2>1, <2>3, <2>4, <2>5 DEF Holds, l, r
<1>4. QED
  BY <1>2, <1>3

(* A tree that holds a text is not empty.                                   *)
LEMMA HoldsSome ==
  ASSUME NEW x, NEW t, Holds(x, t)
  PROVE  Len(t) > 0
<1> DEFINE S == {y \in Trees : Filled(y) => Len(Flat(y)) > 0}
<1>1. ASSUME NEW b \in Text PROVE Leaf(b) \in S
  <2> DEFINE y == Leaf(b)
  <2>1. y \in Trees /\ IsLeaf(y) /\ Flat(y) = b
    BY LeafTree, LeafFigures, FlatLeaf
  <2> HIDE DEF y
  <2>2. ASSUME Filled(y) PROVE Len(b) > 0
    <3>1. Holds(y, b)
      BY <2>1, <2>2 DEF Holds
    <3>2. QED
      BY <2>1, <3>1, HoldsParts
  <2>3. QED
    BY <2>1, <2>2 DEF y
<1>2. ASSUME NEW l \in Trees, NEW r \in Trees, l \in S, r \in S PROVE Branch(l, r) \in S
  <2> DEFINE y == Branch(l, r)
  <2>1. y \in Trees /\ ~ IsLeaf(y) /\ y.left = l /\ y.right = r
    BY BranchTree, BranchFigures
  <2> HIDE DEF y
  <2>2. ASSUME Filled(y) PROVE Len(Flat(y)) > 0
    <3>1. Holds(y, Flat(y))
      BY <2>1, <2>2 DEF Holds
    <3>2. Holds(l, Flat(l)) /\ Holds(r, Flat(r)) /\ Flat(y) = Flat(l) \o Flat(r)
      BY <2>1, <3>1, HoldsParts
    <3>3. Len(Flat(l)) > 0 /\ Len(Flat(r)) > 0
      BY <1>2, <3>2 DEF Holds
    <3>4. Flat(l) \in Text /\ Flat(r) \in Text
      BY FlatIsText
    <3>5. Len(Flat(y)) = Len(Flat(l)) + Len(Flat(r)) /\ Len(Flat(l)) \in Nat /\ Len(Flat(r)) \in Nat
      BY <3>2, <3>4, JoinText DEF Text
    <3>6. QED
      BY <3>3, <3>5
  <2>3. QED
    BY <2>1, <2>2 DEF y
<1>3. Trees \subseteq S
  <2> HIDE DEF S
  <2>1. Inductive(S)
    BY <1>1, <1>2 DEF Inductive
  <2>2. QED
    BY <2>1, TreeInduction
<1>4. QED
  BY <1>3 DEF Holds

LEMMA RightRotated ==
  ASSUME NEW x, NEW t, Holds(x, t), ~ IsLeaf(x)
  PROVE  Holds(RotateRight(x), t)
<1> DEFINE l == x.left
           r == x.right
<1>1. x = Branch(l, r) /\ Holds(l, Flat(l)) /\ Holds(r, Flat(r)) /\ t = Flat(l) \o Flat(r)
  BY HoldsParts, BranchParts DEF Holds
<1>2. CASE IsLeaf(l)
  BY <1>1, <1>2 DEF RotateRight
<1>3. CASE ~ IsLeaf(l)
  <2> DEFINE a == l.left
             b == l.right
  <2>1. RotateRight(x) = Branch(a, Branch(b, r))
    BY <1>3 DEF RotateRight
  <2> HIDE DEF l, r
  <2>2. Holds(a, Flat(a)) /\ Holds(b, Flat(b)) /\ Flat(l) = Flat(a) \o Flat(b)
    BY <1>1, <1>3, HoldsParts
  <2> HIDE DEF a, b
  <2>3. Holds(Branch(a, Branch(b, r)), Flat(a) \o (Flat(b) \o Flat(r)))
    BY <1>1, <2>2, HoldsBranch
  <2>4. (Flat(a) \o Flat(b)) \o Flat(r) = Flat(a) \o (Flat(b) \o Flat(r))
    <3> DEFINE u == Flat(a)
               v == Flat(b)
               w == Flat(r)
    <3>1. u \in Text /\ v \in Text /\ w \in Text
      BY <1>1, <2>2, FlatIsText DEF Holds
    <3> HIDE DEF u, v, w
    <3>2. (u \o v) \o w = u \o (v \o w)
      BY <3>1, JoinAssociative
    <3>3. QED
      BY <3>2 DEF u, v, w
  <2>5. QED
    BY <1>1, <2>1, <2>2, <2>3, <2>4
<1>4. QED
  BY <1>2, <1>3

LEMMA LeftRotated ==
  ASSUME NEW x, NEW t, Holds(x, t), ~ IsLeaf(x)
  PROVE  Holds(RotateLeft(x), t)
<1> DEFINE l == x.left
           r == x.right
<1>1. x = Branch(l, r) /\ Holds(l, Flat(l)) /\ Holds(r, Flat(r)) /\ t = Flat(l) \o Flat(r)
  BY HoldsParts, BranchParts DEF Holds
<1>2. CASE IsLeaf(r)
  BY <1>1, <1>2 DEF RotateLeft
<1>3. CASE ~ IsLeaf(r)
  <2> DEFINE a == r.left
             b == r.right
  <2>1. RotateLeft(x) = Branch(Branch(l, a), b)
    BY <1>3 DEF RotateLeft
  <2> HIDE DEF l, r
  <2>2. Holds(a, Flat(a)) /\ Holds(b, Flat(b)) /\ Flat(r) = Flat(a) \o Flat(b)
    BY <1>1, <1>3, HoldsParts
  <2> HIDE DEF a, b
  <2>3. Holds(Branch(Branch(l, a), b), (Flat(l) \o Flat(a)) \o Flat(b))
    BY <1>1, <2>2, HoldsBranch
  <2>4. (Flat(l) \o Flat(a)) \o Flat(b) = Flat(l) \o (Flat(a) \o Flat(b))
    <3> DEFINE u == Flat(l)
               v == Flat(a)
               w == Flat(b)
    <3>1. u \in Text /\ v \in Text /\ w \in Text
      BY <1>1, <2>2, FlatIsText DEF Holds
    <3> HIDE DEF u, v, w
    <3>2. (u \o v) \o w = u \o (v \o w)
      BY <3>1, JoinAssociative
    <3>3. QED
      BY <3>2 DEF u, v, w
  <2>5. QED
    BY <1>1, <2>1, <2>2, <2>3, <2>4
<1>4. QED
  BY <1>2, <1>3

(* The height of a tree tells a leaf from a branch.                         *)
LEMMA LeafHeight ==
  ASSUME NEW x \in Trees
  PROVE  Height(x) \in Nat /\ (IsLeaf(x) <=> Height(x) = 0)
<1>1. Height(x) \in Nat
  BY Figures
<1>2. IsLeaf(x) => Height(x) = 0
  BY DEF Height
<1>3. ASSUME ~ IsLeaf(x) PROVE Height(x) # 0
  <2>1. x.left \in Trees /\ Height(x.left) < Height(x)
    BY <1>3, BranchParts
  <2>2. Height(x.left) \in Nat
    BY <2>1, Figures
  <2>3. QED
    BY <1>1, <2>1, <2>2
<1>4. QED
  BY <1>1, <1>2, <1>3

LEMMA BalanceHolds ==
  ASSUME NEW x, NEW t, Holds(x, t)
  PROVE  Holds(Balance(x), t)
<1> DEFINE l == x.left
           r == x.right
<1>0. x \in Trees
  BY DEF Holds
<1>1. CASE BalanceFactor(x) > 1
  <2>1. ~ IsLeaf(x)
    BY <1>1 DEF BalanceFactor
  <2>2. x = Branch(l, r) /\ Holds(l, Flat(l)) /\ Holds(r, Flat(r)) /\ t = Flat(l) \o Flat(r)
    BY <1>0, <2>1, HoldsParts, BranchParts
  <2>3. Balance(x) = RotateRight(IF BalanceFactor(l) < 0 THEN Branch(RotateLeft(l), r) ELSE x)
    <3>1. l \in Trees /\ r \in Trees /\ BalanceFactor(x) = Height(l) - Height(r)
      BY <2>1, <2>2 DEF Holds, BalanceFactor
    <3>2. Height(l) \in Nat /\ Height(r) \in Nat
      BY <3>1, Figures
    <3>3. ~ (BalanceFactor(x) < -1)
      BY <1>1, <3>1, <3>2
    <3>4. QED
      BY <1>1, <3>3 DEF Balance
  <2> HIDE DEF l, r
  <2>4. CASE BalanceFactor(l) < 0
    <3>1. ~ IsLeaf(l)
      BY <2>4 DEF BalanceFactor
    <3>2. Holds(RotateLeft(l), Flat(l))
      BY <2>2, <3>1, LeftRotated
    <3> DEFINE y == Branch(RotateLeft(l), r)
    <3>3. Holds(y, t) /\ ~ IsLeaf(y)
      BY <2>2, <3>2, HoldsBranch, BranchFigures
    <3> HIDE DEF y
    <3>4. Holds(RotateRight(y), t)
      BY <3>3, RightRotated
    <3>5. QED
      BY <2>3, <2>4, <3>4 DEF y
  <2>5. CASE ~ (BalanceFactor(l) < 0)
    BY <2>1, <2>3, <2>5, RightRotated
  <2>6. QED
    BY <2>4, <2>5
<1>2. CASE ~ (BalanceFactor(x) > 1) /\ BalanceFactor(x) < -1
  <2>1. ~ IsLeaf(x)
    BY <1>2 DEF BalanceFactor
  <2>2. x = Branch(l, r) /\ Holds(l, Flat(l)) /\ Holds(r, Flat(r)) /\ t = Flat(l) \o Flat(r)
    BY <1>0, <2>1, HoldsParts, BranchParts
  <2>3. Balance(x) = RotateLeft(IF BalanceFactor(r) > 0 THEN Branch(l, RotateRight(r)) ELSE x)
    BY <1>2 DEF Balance
  <2> HIDE DEF l, r
  <2>4. CASE BalanceFactor(r) > 0
    <3>1. ~ IsLeaf(r)
      BY <2>4 DEF BalanceFactor
    <3>2. Holds(RotateRight(r), Flat(r))
      BY <2>2, <3>1, RightRotated
    <3> DEFINE y == Branch(l, RotateRight(r))
    <3>3. Holds(y, t) /\ ~ IsLeaf(y)
      BY <2>2, <3>2, HoldsBranch, BranchFigures
    <3> HIDE DEF y
    <3>4. Holds(RotateLeft(y), t)
      BY <3>3, LeftRotated
    <3>5. QED
      BY <2>3, <2>4, <3>4 DEF y
  <2>5. CASE ~ (BalanceFactor(r) > 0)
    BY <2>1, <2>3, <2>5, LeftRotated
  <2>6. QED
    BY <2>4, <2>5
<1>3. CASE ~ (BalanceFactor(x) > 1) /\ ~ (BalanceFactor(x) < -1)
  BY <1>3 DEF Balance
<1>4. QED
  BY <1>1, <1>2, <1>3

----------------------------------------------------------------------------
(* Balance *)

(* A branch's height, and when it is balanced.                              *)
LEMMA BranchShape ==
  ASSUME NEW l \in Trees, NEW r \in Trees
  PROVE  LET x == Branch(l, r) IN
           /\ x \in Trees /\ ~ IsLeaf(x) /\ x.left = l /\ x.right = r
           /\ BalanceFactor(x) = Height(l) - Height(r)
           /\ Height(x) = 1 + IF Height(l) >= Height(r) THEN Height(l) ELSE Height(r)
           /\ IsBalanced(x) <=> /\ Height(l) - Height(r) \in -1..1
                                /\ IsBalanced(l) /\ IsBalanced(r)
<1> DEFINE x == Branch(l, r)
<1>1. x \in Trees /\ ~ IsLeaf(x) /\ x.left = l /\ x.right = r /\ BalanceFactor(x) = Height(l) - Height(r)
  BY BranchTree, BranchFigures
<1>2. Height(x) = 1 + IF Height(l) >= Height(r) THEN Height(l) ELSE Height(r)
  BY BranchHeight
<1>3. Nodes(x) = {x} \union Nodes(l) \union Nodes(r)
  BY NodesOfBranch
<1> HIDE DEF x
<1>4. IsBalanced(x) <=> BalanceFactor(x) \in -1..1 /\ IsBalanced(l) /\ IsBalanced(r)
  BY <1>3 DEF IsBalanced
<1>5. QED
  BY <1>1, <1>2, <1>4 DEF x

LEMMA LeafBalanced ==
  ASSUME NEW x \in Trees, IsLeaf(x)
  PROVE  IsBalanced(x)
<1>1. Nodes(x) = {x} /\ BalanceFactor(x) = 0
  BY NodesOfLeaf DEF BalanceFactor
<1>2. QED
  BY <1>1 DEF IsBalanced

(* Of heights that differ by at most two Balance makes a balanced tree, at  *)
(* most one higher than the higher of the two.                              *)
Taller(a, b) == IF a >= b THEN a ELSE b

BalancedOver(x, l, r) ==
  /\ IsBalanced(x)
  /\ Height(x) \in Taller(Height(l), Height(r))..(Taller(Height(l), Height(r)) + 1)

LEMMA LeftHeavyBalanced ==
  ASSUME NEW l \in Trees, NEW r \in Trees, IsBalanced(l), IsBalanced(r),
         Height(l) = Height(r) + 2
  PROVE  BalancedOver(Balance(Branch(l, r)), l, r)
<1> DEFINE x == Branch(l, r)
           a == l.left
           b == l.right
           h == Height(r)
<1>1. /\ x \in Trees /\ ~ IsLeaf(x) /\ x.left = l /\ x.right = r
      /\ BalanceFactor(x) = Height(l) - Height(r)
  BY BranchShape
<1>2. h \in Nat /\ Height(l) = h + 2 /\ ~ IsLeaf(l)
  <2>1. Height(l) \in Nat /\ Height(r) \in Nat /\ (IsLeaf(l) => Height(l) = 0)
    BY LeafHeight
  <2>2. QED
    BY <2>1
<1>3. a \in Trees /\ b \in Trees /\ l = Branch(a, b)
  BY <1>2, BranchParts
<1> HIDE DEF x, a, b, h
<1>4. Height(a) \in Nat /\ Height(b) \in Nat
  BY <1>3, Figures
<1>5. /\ BalanceFactor(l) = Height(a) - Height(b)
      /\ Height(l) = 1 + IF Height(a) >= Height(b) THEN Height(a) ELSE Height(b)
      /\ Height(a) - Height(b) \in -1..1 /\ IsBalanced(a) /\ IsBalanced(b)
  BY <1>3, BranchShape
<1>6. Balance(x) = RotateRight(IF BalanceFactor(l) < 0 THEN Branch(RotateLeft(l), r) ELSE x)
  <2>1. BalanceFactor(x) > 1 /\ ~ (BalanceFactor(x) < -1)
    BY <1>1, <1>2 DEF h
  <2>2. QED
    BY <1>1, <2>1 DEF Balance
<1>7. ASSUME NEW y, IsBalanced(y), Height(y) \in (h + 2)..(h + 3)
      PROVE  BalancedOver(y, l, r)
  <2>1. Taller(Height(l), Height(r)) = h + 2
    BY <1>2 DEF Taller, h
  <2>2. QED
    BY <1>2, <1>7, <2>1 DEF BalancedOver
<1>8. CASE BalanceFactor(l) < 0
  <2> DEFINE c == b.left
             d == b.right
  <2>1. Height(a) = h /\ Height(b) = h + 1
    BY <1>2, <1>4, <1>5, <1>8
  <2>2. ~ IsLeaf(b)
    BY <1>2, <1>3, <2>1, LeafHeight
  <2>3. c \in Trees /\ d \in Trees /\ b = Branch(c, d)
    BY <1>3, <2>2, BranchParts
  <2>4. ~ IsLeaf(l) /\ l.left = a /\ l.right = b
    BY <1>2 DEF a, b
  <2>5. RotateLeft(l) = Branch(Branch(a, c), d)
    BY <2>2, <2>4 DEF RotateLeft
  <2> HIDE DEF c, d
  <2> DEFINE p == Branch(a, c)
             q == Branch(d, r)
             m == Branch(p, d)
             y == Branch(m, r)
  <2>6. /\ Height(c) \in Nat /\ Height(d) \in Nat /\ Height(c) - Height(d) \in -1..1
        /\ Height(b) = 1 + IF Height(c) >= Height(d) THEN Height(c) ELSE Height(d)
        /\ IsBalanced(c) /\ IsBalanced(d)
    BY <1>5, <2>3, Figures, BranchShape
  <2>7. Height(c) <= h /\ Height(d) <= h /\ h - Height(c) \in 0..1 /\ h - Height(d) \in 0..1
    BY <1>2, <2>1, <2>6
  <2>8. /\ p \in Trees /\ Height(p) = 1 + (IF Height(a) >= Height(c) THEN Height(a) ELSE Height(c))
        /\ IsBalanced(p) <=> Height(a) - Height(c) \in -1..1 /\ IsBalanced(a) /\ IsBalanced(c)
    BY <1>3, <2>3, BranchShape
  <2>9. /\ q \in Trees /\ Height(q) = 1 + (IF Height(d) >= Height(r) THEN Height(d) ELSE Height(r))
        /\ IsBalanced(q) <=> Height(d) - Height(r) \in -1..1 /\ IsBalanced(d) /\ IsBalanced(r)
    BY <2>3, BranchShape
  <2>10. IsBalanced(p) /\ Height(p) = h + 1
    BY <1>2, <1>5, <2>1, <2>6, <2>7, <2>8
  <2>11. IsBalanced(q) /\ Height(q) = h + 1
    BY <1>2, <2>6, <2>7, <2>9 DEF h
  <2> HIDE DEF p, q
  <2> DEFINE z == Branch(p, q)
  <2>12. /\ Height(z) = 1 + (IF Height(p) >= Height(q) THEN Height(p) ELSE Height(q))
         /\ IsBalanced(z) <=> Height(p) - Height(q) \in -1..1 /\ IsBalanced(p) /\ IsBalanced(q)
    BY <2>8, <2>9, BranchShape
  <2>13. IsBalanced(z) /\ Height(z) = h + 2
    BY <1>2, <2>10, <2>11, <2>12
  <2>14. m \in Trees /\ ~ IsLeaf(m) /\ m.left = p /\ m.right = d
    BY <2>3, <2>8, BranchShape
  <2>15. ~ IsLeaf(y) /\ y.left = m /\ y.right = r
    BY <2>14, BranchShape
  <2>16. Balance(x) = RotateRight(y)
    BY <1>6, <1>8, <2>5 DEF p
  <2>17. RotateRight(y) = z
    <3> HIDE DEF m, y
    <3>1. RotateRight(y) = Branch(m.left, Branch(m.right, r))
      BY <2>14, <2>15 DEF RotateRight
    <3>2. QED
      BY <2>14, <3>1 DEF q
  <2> HIDE DEF z, y, m
  <2>18. Height(z) \in (h + 2)..(h + 3)
    BY <1>2, <2>13
  <2>19. QED
    BY <1>7, <2>13, <2>16, <2>17, <2>18 DEF x
<1>9. CASE ~ (BalanceFactor(l) < 0)
  <2> DEFINE q == Branch(b, r)
             z == Branch(a, q)
  <2>1. Height(a) = h + 1 /\ Height(b) \in h..(h + 1)
    BY <1>2, <1>4, <1>5, <1>9
  <2>2. /\ q \in Trees /\ Height(q) = 1 + (IF Height(b) >= Height(r) THEN Height(b) ELSE Height(r))
        /\ IsBalanced(q) <=> Height(b) - Height(r) \in -1..1 /\ IsBalanced(b) /\ IsBalanced(r)
    BY <1>3, BranchShape
  <2>3. IsBalanced(q) /\ Height(q) = Height(b) + 1
    BY <1>2, <1>4, <1>5, <2>1, <2>2 DEF h
  <2> HIDE DEF q
  <2>4. /\ Height(z) = 1 + (IF Height(a) >= Height(q) THEN Height(a) ELSE Height(q))
        /\ IsBalanced(z) <=> Height(a) - Height(q) \in -1..1 /\ IsBalanced(a) /\ IsBalanced(q)
    BY <1>3, <2>2, BranchShape
  <2>5. IsBalanced(z) /\ Height(z) \in (h + 2)..(h + 3)
    BY <1>2, <1>4, <1>5, <2>1, <2>3, <2>4
  <2>6. Balance(x) = z
    BY <1>1, <1>2, <1>6, <1>9 DEF RotateRight, a, b, q
  <2> HIDE DEF z
  <2>7. QED
    BY <1>7, <2>5, <2>6 DEF x
<1>10. QED
  BY <1>8, <1>9

LEMMA RightHeavyBalanced ==
  ASSUME NEW l \in Trees, NEW r \in Trees, IsBalanced(l), IsBalanced(r),
         Height(r) = Height(l) + 2
  PROVE  BalancedOver(Balance(Branch(l, r)), l, r)
<1> DEFINE x == Branch(l, r)
           a == r.left
           b == r.right
           h == Height(l)
<1>1. /\ x \in Trees /\ ~ IsLeaf(x) /\ x.left = l /\ x.right = r
      /\ BalanceFactor(x) = Height(l) - Height(r)
  BY BranchShape
<1>2. h \in Nat /\ Height(r) = h + 2 /\ ~ IsLeaf(r)
  <2>1. Height(l) \in Nat /\ Height(r) \in Nat /\ (IsLeaf(r) => Height(r) = 0)
    BY LeafHeight
  <2>2. QED
    BY <2>1
<1>3. a \in Trees /\ b \in Trees /\ r = Branch(a, b)
  BY <1>2, BranchParts
<1> HIDE DEF x, a, b, h
<1>4. Height(a) \in Nat /\ Height(b) \in Nat
  BY <1>3, Figures
<1>5. /\ BalanceFactor(r) = Height(a) - Height(b)
      /\ Height(r) = 1 + IF Height(a) >= Height(b) THEN Height(a) ELSE Height(b)
      /\ Height(a) - Height(b) \in -1..1 /\ IsBalanced(a) /\ IsBalanced(b)
  BY <1>3, BranchShape
<1>6. Balance(x) = RotateLeft(IF BalanceFactor(r) > 0 THEN Branch(l, RotateRight(r)) ELSE x)
  <2>1. BalanceFactor(x) < -1 /\ ~ (BalanceFactor(x) > 1)
    BY <1>1, <1>2 DEF h
  <2>2. QED
    BY <1>1, <2>1 DEF Balance
<1>7. ASSUME NEW y, IsBalanced(y), Height(y) \in (h + 2)..(h + 3)
      PROVE  BalancedOver(y, l, r)
  <2>1. Taller(Height(l), Height(r)) = h + 2
    BY <1>2 DEF Taller, h
  <2>2. QED
    BY <1>2, <1>7, <2>1 DEF BalancedOver
<1>8. CASE BalanceFactor(r) > 0
  <2> DEFINE c == a.left
             d == a.right
  <2>1. Height(b) = h /\ Height(a) = h + 1
    BY <1>2, <1>4, <1>5, <1>8
  <2>2. ~ IsLeaf(a)
    BY <1>2, <1>3, <2>1, LeafHeight
  <2>3. c \in Trees /\ d \in Trees /\ a = Branch(c, d)
    BY <1>3, <2>2, BranchParts
  <2>4. ~ IsLeaf(r) /\ r.left = a /\ r.right = b
    BY <1>2 DEF a, b
  <2>5. RotateRight(r) = Branch(c, Branch(d, b))
    BY <2>2, <2>4 DEF RotateRight
  <2> HIDE DEF c, d
  <2> DEFINE p == Branch(l, c)
             q == Branch(d, b)
             m == Branch(c, q)
             y == Branch(l, m)
  <2>6. /\ Height(c) \in Nat /\ Height(d) \in Nat /\ Height(c) - Height(d) \in -1..1
        /\ Height(a) = 1 + IF Height(c) >= Height(d) THEN Height(c) ELSE Height(d)
        /\ IsBalanced(c) /\ IsBalanced(d)
    BY <1>5, <2>3, Figures, BranchShape
  <2>7. Height(c) <= h /\ Height(d) <= h /\ h - Height(c) \in 0..1 /\ h - Height(d) \in 0..1
    BY <1>2, <2>1, <2>6
  <2>8. /\ p \in Trees /\ Height(p) = 1 + (IF Height(l) >= Height(c) THEN Height(l) ELSE Height(c))
        /\ IsBalanced(p) <=> Height(l) - Height(c) \in -1..1 /\ IsBalanced(l) /\ IsBalanced(c)
    BY <2>3, BranchShape
  <2>9. /\ q \in Trees /\ Height(q) = 1 + (IF Height(d) >= Height(b) THEN Height(d) ELSE Height(b))
        /\ IsBalanced(q) <=> Height(d) - Height(b) \in -1..1 /\ IsBalanced(d) /\ IsBalanced(b)
    BY <1>3, <2>3, BranchShape
  <2>10. IsBalanced(p) /\ Height(p) = h + 1
    BY <1>2, <2>6, <2>7, <2>8 DEF h
  <2>11. IsBalanced(q) /\ Height(q) = h + 1
    BY <1>2, <1>5, <2>1, <2>6, <2>7, <2>9
  <2> HIDE DEF p, q
  <2> DEFINE z == Branch(p, q)
  <2>12. /\ Height(z) = 1 + (IF Height(p) >= Height(q) THEN Height(p) ELSE Height(q))
         /\ IsBalanced(z) <=> Height(p) - Height(q) \in -1..1 /\ IsBalanced(p) /\ IsBalanced(q)
    BY <2>8, <2>9, BranchShape
  <2>13. IsBalanced(z) /\ Height(z) = h + 2
    BY <1>2, <2>10, <2>11, <2>12
  <2>14. m \in Trees /\ ~ IsLeaf(m) /\ m.left = c /\ m.right = q
    BY <2>3, <2>9, BranchShape
  <2>15. ~ IsLeaf(y) /\ y.left = l /\ y.right = m
    BY <2>14, BranchShape
  <2>16. Balance(x) = RotateLeft(y)
    BY <1>6, <1>8, <2>5 DEF q
  <2>17. RotateLeft(y) = z
    <3> HIDE DEF m, y
    <3>1. RotateLeft(y) = Branch(Branch(l, m.left), m.right)
      BY <2>14, <2>15 DEF RotateLeft
    <3>2. QED
      BY <2>14, <3>1 DEF p
  <2> HIDE DEF z, y, m
  <2>18. Height(z) \in (h + 2)..(h + 3)
    BY <1>2, <2>13
  <2>19. QED
    BY <1>7, <2>13, <2>16, <2>17, <2>18 DEF x
<1>9. CASE ~ (BalanceFactor(r) > 0)
  <2> DEFINE p == Branch(l, a)
             z == Branch(p, b)
  <2>1. Height(b) = h + 1 /\ Height(a) \in h..(h + 1)
    BY <1>2, <1>4, <1>5, <1>9
  <2>2. /\ p \in Trees /\ Height(p) = 1 + (IF Height(l) >= Height(a) THEN Height(l) ELSE Height(a))
        /\ IsBalanced(p) <=> Height(l) - Height(a) \in -1..1 /\ IsBalanced(l) /\ IsBalanced(a)
    BY <1>3, BranchShape
  <2>3. IsBalanced(p) /\ Height(p) = Height(a) + 1
    BY <1>2, <1>4, <1>5, <2>1, <2>2 DEF h
  <2> HIDE DEF p
  <2>4. /\ Height(z) = 1 + (IF Height(p) >= Height(b) THEN Height(p) ELSE Height(b))
        /\ IsBalanced(z) <=> Height(p) - Height(b) \in -1..1 /\ IsBalanced(p) /\ IsBalanced(b)
    BY <1>3, <2>2, BranchShape
  <2>5. IsBalanced(z) /\ Height(z) \in (h + 2)..(h + 3)
    BY <1>2, <1>4, <1>5, <2>1, <2>3, <2>4
  <2>6. Balance(x) = z
    BY <1>1, <1>2, <1>6, <1>9 DEF RotateLeft, a, b, p
  <2> HIDE DEF z
  <2>7. QED
    BY <1>7, <2>5, <2>6 DEF x
<1>10. QED
  BY <1>8, <1>9

LEMMA BalanceBalances ==
  ASSUME NEW l \in Trees, NEW r \in Trees, IsBalanced(l), IsBalanced(r),
         Height(l) - Height(r) \in -2..2
  PROVE  /\ BalancedOver(Balance(Branch(l, r)), l, r)
         /\ Height(l) - Height(r) \in -1..1 =>
              Height(Balance(Branch(l, r))) = Taller(Height(l), Height(r)) + 1
<1>1. Height(l) \in Nat /\ Height(r) \in Nat
  BY Figures
<1>2. CASE Height(l) = Height(r) + 2
  BY <1>1, <1>2, LeftHeavyBalanced
<1>3. CASE Height(r) = Height(l) + 2
  BY <1>1, <1>3, RightHeavyBalanced
<1>4. CASE Height(l) - Height(r) \in -1..1
  <2> DEFINE x == Branch(l, r)
  <2>1. /\ BalanceFactor(x) = Height(l) - Height(r)
        /\ Height(x) = 1 + (IF Height(l) >= Height(r) THEN Height(l) ELSE Height(r))
        /\ IsBalanced(x)
    BY <1>4, BranchShape
  <2> HIDE DEF x
  <2>2. ~ (BalanceFactor(x) > 1) /\ ~ (BalanceFactor(x) < -1)
    BY <1>1, <1>4, <2>1
  <2>3. Balance(x) = x
    BY <2>2 DEF Balance
  <2>4. Height(x) = Taller(Height(l), Height(r)) + 1 /\ Taller(Height(l), Height(r)) \in Nat
    BY <1>1, <2>1 DEF Taller
  <2>5. BalancedOver(x, l, r)
    BY <2>1, <2>4 DEF BalancedOver
  <2>6. QED
    BY <2>3, <2>4, <2>5 DEF x
<1>5. QED
  BY <1>1, <1>2, <1>3, <1>4

----------------------------------------------------------------------------
(* Joining *)

LEMMA RotatedTrees ==
  ASSUME NEW x \in Trees, ~ IsLeaf(x)
  PROVE  RotateRight(x) \in Trees /\ RotateLeft(x) \in Trees
<1> DEFINE l == x.left
           r == x.right
<1>1. l \in Trees /\ r \in Trees
  BY BranchParts
<1>2. RotateRight(x) \in Trees
  <2>1. CASE IsLeaf(l)
    BY <1>1, <2>1, BranchTree DEF RotateRight
  <2>2. CASE ~ IsLeaf(l)
    <3>1. l.left \in Trees /\ l.right \in Trees
      BY <1>1, <2>2, BranchParts
    <3>2. Branch(l.right, r) \in Trees
      BY <1>1, <3>1, BranchTree
    <3>3. QED
      BY <2>2, <3>1, <3>2, BranchTree DEF RotateRight
  <2>3. QED
    BY <2>1, <2>2
<1>3. RotateLeft(x) \in Trees
  <2>1. CASE IsLeaf(r)
    BY <1>1, <2>1, BranchTree DEF RotateLeft
  <2>2. CASE ~ IsLeaf(r)
    <3>1. r.left \in Trees /\ r.right \in Trees
      BY <1>1, <2>2, BranchParts
    <3>2. Branch(l, r.left) \in Trees
      BY <1>1, <3>1, BranchTree
    <3>3. QED
      BY <2>2, <3>1, <3>2, BranchTree DEF RotateLeft
  <2>3. QED
    BY <2>1, <2>2
<1>4. QED
  BY <1>2, <1>3

LEMMA BalancedTree ==
  ASSUME NEW x \in Trees
  PROVE  Balance(x) \in Trees
<1> DEFINE l == x.left
           r == x.right
<1>1. ASSUME ~ IsLeaf(x)
      PROVE  /\ l \in Trees /\ r \in Trees
             /\ RotateRight(IF BalanceFactor(l) < 0 THEN Branch(RotateLeft(l), r) ELSE x) \in Trees
             /\ RotateLeft(IF BalanceFactor(r) > 0 THEN Branch(l, RotateRight(r)) ELSE x) \in Trees
             /\ BalanceFactor(x) = Height(l) - Height(r)
  <2>1. l \in Trees /\ r \in Trees
    BY <1>1, BranchParts
  <2>2. BalanceFactor(l) < 0 => ~ IsLeaf(l)
    BY DEF BalanceFactor
  <2>3. BalanceFactor(r) > 0 => ~ IsLeaf(r)
    BY DEF BalanceFactor
  <2>4. BalanceFactor(l) < 0 => RotateLeft(l) \in Trees
    BY <2>1, <2>2, RotatedTrees
  <2>5. BalanceFactor(r) > 0 => RotateRight(r) \in Trees
    BY <2>1, <2>3, RotatedTrees
  <2> HIDE DEF l, r
  <2>6. BalanceFactor(l) < 0 => Branch(RotateLeft(l), r) \in Trees /\ ~ IsLeaf(Branch(RotateLeft(l), r))
    BY <2>1, <2>4, BranchTree, BranchFigures
  <2>7. BalanceFactor(r) > 0 => Branch(l, RotateRight(r)) \in Trees /\ ~ IsLeaf(Branch(l, RotateRight(r)))
    BY <2>1, <2>5, BranchTree, BranchFigures
  <2>8. RotateRight(IF BalanceFactor(l) < 0 THEN Branch(RotateLeft(l), r) ELSE x) \in Trees
    BY <1>1, <2>6, RotatedTrees
  <2>9. RotateLeft(IF BalanceFactor(r) > 0 THEN Branch(l, RotateRight(r)) ELSE x) \in Trees
    BY <1>1, <2>7, RotatedTrees
  <2>10. BalanceFactor(x) = Height(l) - Height(r)
    BY <1>1 DEF BalanceFactor, l, r
  <2>11. QED
    BY <2>1, <2>8, <2>9, <2>10
<1>2. CASE IsLeaf(x)
  <2>1. BalanceFactor(x) = 0
    BY <1>2 DEF BalanceFactor
  <2>2. ~ (BalanceFactor(x) > 1) /\ ~ (BalanceFactor(x) < -1)
    BY <2>1
  <2>3. QED
    BY <2>2 DEF Balance
<1>3. CASE ~ IsLeaf(x)
  <2>1. BalanceFactor(x) \in Int
    BY <1>1, <1>3, Figures
  <2>2. \/ BalanceFactor(x) > 1 /\ ~ (BalanceFactor(x) < -1)
        \/ ~ (BalanceFactor(x) > 1) /\ BalanceFactor(x) < -1
        \/ ~ (BalanceFactor(x) > 1) /\ ~ (BalanceFactor(x) < -1)
    BY <2>1
  <2>3. QED
    BY <1>1, <1>3, <2>2 DEF Balance
<1>4. QED
  BY <1>2, <1>3

(* What JoinNodes makes of x and y, given the joins a step further down.    *)
JoinStep(x, y, rightmost, leftmost) ==
  IF TextLen(x) = 0 THEN y
  ELSE IF TextLen(y) = 0 THEN x
  ELSE IF MergesInto(x, y) THEN Leaf(x.buf \o y.buf)
  ELSE IF Height(x) - Height(y) \in -1..1 THEN Branch(x, y)
  ELSE IF Height(x) > Height(y) THEN Balance(Branch(x.left, rightmost))
  ELSE Balance(Branch(leftmost, y.right))

Joining(l, r, f) ==
  \A x \in Nodes(l), y \in Nodes(r) :
    f[<<x, y>>] = JoinStep(x, y, f[<<x.right, y>>], f[<<x, y.left>>])

(* The recursion goes down the higher of the two trees.                     *)
LEMMA JoinStepParts ==
  ASSUME NEW x \in Trees, NEW y \in Trees
  PROVE  /\ \A a, b \in Trees : JoinStep(x, y, a, b) \in Trees
         /\ \A a, b, c, d : /\ IsLeaf(x) \/ a = c
                            /\ IsLeaf(y) \/ b = d
                            => JoinStep(x, y, a, b) = JoinStep(x, y, c, d)
<1> DEFINE hx == Height(x)
           hy == Height(y)
<1>1. hx \in Nat /\ hy \in Nat /\ (IsLeaf(x) => hx = 0) /\ (IsLeaf(y) => hy = 0)
  BY LeafHeight
<1>2. hx - hy \notin -1..1 /\ hx > hy => ~ IsLeaf(x)
  <2> HIDE DEF hx, hy
  <2>1. QED
    BY <1>1
<1>3. hx - hy \notin -1..1 /\ ~ (hx > hy) => ~ IsLeaf(y)
  <2> HIDE DEF hx, hy
  <2>1. QED
    BY <1>1
<1>4. ASSUME NEW a \in Trees, NEW b \in Trees PROVE JoinStep(x, y, a, b) \in Trees
  <2>1. CASE TextLen(x) = 0 \/ TextLen(y) = 0
    BY <2>1 DEF JoinStep
  <2>2. CASE ~ (TextLen(x) = 0 \/ TextLen(y) = 0) /\ MergesInto(x, y)
    <3>1. x.buf \in Text /\ y.buf \in Text
      BY <2>2, LeafParts DEF MergesInto
    <3>2. Leaf(x.buf \o y.buf) \in Trees
      BY <3>1, JoinText, LeafTree
    <3>3. QED
      BY <2>2, <3>2 DEF JoinStep
  <2>3. CASE /\ ~ (TextLen(x) = 0 \/ TextLen(y) = 0) /\ ~ MergesInto(x, y)
             /\ hx - hy \in -1..1
    BY <2>3, BranchTree DEF JoinStep
  <2>4. CASE /\ ~ (TextLen(x) = 0 \/ TextLen(y) = 0) /\ ~ MergesInto(x, y)
             /\ hx - hy \notin -1..1 /\ hx > hy
    <3>1. x.left \in Trees
      BY <1>2, <2>4, BranchParts
    <3>2. Balance(Branch(x.left, a)) \in Trees
      BY <3>1, BranchTree, BalancedTree
    <3>3. QED
      BY <2>4, <3>2 DEF JoinStep
  <2>5. CASE /\ ~ (TextLen(x) = 0 \/ TextLen(y) = 0) /\ ~ MergesInto(x, y)
             /\ hx - hy \notin -1..1 /\ ~ (hx > hy)
    <3>1. y.right \in Trees
      BY <1>3, <2>5, BranchParts
    <3>2. Balance(Branch(b, y.right)) \in Trees
      BY <3>1, BranchTree, BalancedTree
    <3>3. QED
      BY <2>5, <3>2 DEF JoinStep
  <2>6. QED
    BY <2>1, <2>2, <2>3, <2>4, <2>5
<1>5. ASSUME NEW a, NEW b, NEW c, NEW d, IsLeaf(x) \/ a = c, IsLeaf(y) \/ b = d
      PROVE  JoinStep(x, y, a, b) = JoinStep(x, y, c, d)
  BY <1>2, <1>3, <1>5 DEF JoinStep
<1>6. QED
  BY <1>4, <1>5

LEMMA JoinIs ==
  ASSUME NEW l \in Trees, NEW r \in Trees
  PROVE  \E f : Joining(l, r, f) /\ JoinNodes(l, r) = f[<<l, r>>]
<1> DEFINE L == Nodes(l)
           R == Nodes(r)
           D == L \X R
           V == Trees
           rank == [p \in D |-> Height(p[1]) + Height(p[2])]
           Step(p, g) == JoinStep(p[1], p[2], g[<<p[1].right, p[2]>>], g[<<p[1], p[2].left>>])
           F == [q \in D \X [D -> V] |-> Step(q[1], q[2])]
           A == CHOOSE g : g = [p \in D |-> Step(p, g)]
<1>1. /\ l \in L /\ L \subseteq Trees /\ ClosedBelow(L)
      /\ r \in R /\ R \subseteq Trees /\ ClosedBelow(R)
  BY NodesAre
<1> HIDE DEF L, R
<1>2. ASSUME NEW p \in D, NEW g \in [D -> V] PROVE F[<<p, g>>] = Step(p, g)
  OBVIOUS
<1>3. ASSUME NEW x \in L, ~ IsLeaf(x), NEW y \in R
      PROVE  <<x.right, y>> \in D /\ rank[<<x.right, y>>] < rank[<<x, y>>]
  <2>1. x \in Trees /\ y \in Trees /\ x.right \in L
    BY <1>1, <1>3 DEF ClosedBelow
  <2>2. Height(x.right) < Height(x) /\ Height(x) \in Nat /\ Height(x.right) \in Nat /\ Height(y) \in Nat
    BY <1>1, <1>3, <2>1, BranchParts, Figures
  <2>3. QED
    BY <2>1, <2>2
<1>4. ASSUME NEW x \in L, NEW y \in R, ~ IsLeaf(y)
      PROVE  <<x, y.left>> \in D /\ rank[<<x, y.left>>] < rank[<<x, y>>]
  <2>1. x \in Trees /\ y \in Trees /\ y.left \in R
    BY <1>1, <1>4 DEF ClosedBelow
  <2>2. Height(y.left) < Height(y) /\ Height(y) \in Nat /\ Height(y.left) \in Nat /\ Height(x) \in Nat
    BY <1>1, <1>4, <2>1, BranchParts, Figures
  <2>3. QED
    BY <2>1, <2>2
<1>5. rank \in [D -> Nat]
  <2>1. ASSUME NEW p \in D PROVE Height(p[1]) + Height(p[2]) \in Nat
    BY <1>1, Figures
  <2>2. QED
    BY <2>1
<1>6. ASSUME NEW x \in L, NEW y \in R, NEW g \in [D -> V], NEW h \in [D -> V],
             \A q \in D : rank[q] < rank[<<x, y>>] => g[q] = h[q]
      PROVE  Step(<<x, y>>, g) = Step(<<x, y>>, h)
  <2> HIDE DEF D, rank, V
  <2>1. IsLeaf(x) \/ g[<<x.right, y>>] = h[<<x.right, y>>]
    BY <1>3, <1>6
  <2>2. IsLeaf(y) \/ g[<<x, y.left>>] = h[<<x, y.left>>]
    BY <1>4, <1>6
  <2>3. x \in Trees /\ y \in Trees
    BY <1>1
  <2>4. JoinStep(x, y, g[<<x.right, y>>], g[<<x, y.left>>])
          = JoinStep(x, y, h[<<x.right, y>>], h[<<x, y.left>>])
    BY <2>1, <2>2, <2>3, JoinStepParts
  <2>5. QED
    BY <2>4
<1>7. ASSUME NEW x \in L, NEW y \in R, NEW g \in [D -> V] PROVE Step(<<x, y>>, g) \in V
  <2>1. x \in Trees /\ y \in Trees
    BY <1>1
  <2>2. \E v \in Trees : JoinStep(x, y, g[<<x.right, y>>], g[<<x, y.left>>]) = JoinStep(x, y, v, g[<<x, y.left>>])
    <3>1. CASE IsLeaf(x)
      BY <2>1, <3>1, JoinStepParts
    <3>2. CASE ~ IsLeaf(x)
      BY <1>3, <3>2
    <3>3. QED
      BY <3>1, <3>2
  <2>3. PICK v \in Trees : JoinStep(x, y, g[<<x.right, y>>], g[<<x, y.left>>]) = JoinStep(x, y, v, g[<<x, y.left>>])
    BY <2>2
  <2>4. \E w \in Trees : JoinStep(x, y, v, g[<<x, y.left>>]) = JoinStep(x, y, v, w)
    <3>1. CASE IsLeaf(y)
      BY <2>1, <3>1, JoinStepParts
    <3>2. CASE ~ IsLeaf(y)
      BY <1>4, <3>2
    <3>3. QED
      BY <3>1, <3>2
  <2>5. PICK w \in Trees : JoinStep(x, y, v, g[<<x, y.left>>]) = JoinStep(x, y, v, w)
    BY <2>4
  <2>6. JoinStep(x, y, v, w) \in Trees
    BY <2>1, JoinStepParts
  <2>7. QED
    BY <2>3, <2>5, <2>6
<1>8. \A p \in D : \E x \in L, y \in R : p = <<x, y>>
  OBVIOUS
<1>9. Defined(D, V, F)
  <2> HIDE DEF F, Step, rank
  <2>1. V # {}
    BY <1>1
  <2>2. ASSUME NEW p \in D, NEW g \in [D -> V] PROVE F[<<p, g>>] \in V
    <3>1. PICK x \in L, y \in R : p = <<x, y>>
      BY <1>8
    <3>2. Step(<<x, y>>, g) \in V
      BY <1>7
    <3> HIDE DEF D, V
    <3>3. QED
      BY <1>2, <3>1, <3>2
  <2>3. ASSUME NEW p \in D, NEW g \in [D -> V], NEW h \in [D -> V],
               \A q \in D : rank[q] < rank[p] => g[q] = h[q]
        PROVE  F[<<p, g>>] = F[<<p, h>>]
    <3>1. PICK x \in L, y \in R : p = <<x, y>>
      BY <1>8
    <3> HIDE DEF D, V
    <3>2. Step(<<x, y>>, g) = Step(<<x, y>>, h)
      BY <1>6, <2>3, <3>1
    <3>3. QED
      BY <1>2, <3>1, <3>2
  <2> HIDE DEF D, V
  <2>4. Recursive(D, V, rank, F)
    BY <1>5, <2>1, <2>2, <2>3 DEF Recursive, LowerRanksDecide
  <2>5. QED
    BY <2>4, RecursionDefines
<1>10. PICK f \in [D -> V] : \A p \in D : f[p] = Step(p, f)
  <2> HIDE DEF Step, D, V, F
  <2>1. QED
    BY <1>2, <1>9 DEF Defined
<1>11. f = [p \in D |-> Step(p, f)]
  <2> HIDE DEF Step
  <2>1. QED
    BY <1>10
<1>12. A = [p \in D |-> Step(p, A)]
  <2> HIDE DEF Step
  <2>1. QED
    BY <1>11
<1>13. JoinNodes(l, r) = A[<<l, r>>]
  <2> DEFINE B == CHOOSE g : g = [p \in Nodes(l) \X Nodes(r) |-> Step(p, g)]
  <2>1. JoinNodes(l, r) = B[<<l, r>>]
    BY DEF JoinNodes, JoinStep
  <2>2. QED
    BY <2>1 DEF L, R
<1>14. ASSUME NEW x \in L, NEW y \in R
       PROVE  A[<<x, y>>] = JoinStep(x, y, A[<<x.right, y>>], A[<<x, y.left>>])
  <2> HIDE DEF A
  <2>1. QED
    BY <1>12
<1>15. Joining(l, r, A)
  <2> HIDE DEF A
  <2>1. QED
    BY <1>14 DEF Joining, L, R
<1>16. QED
  <2> HIDE DEF A
  <2>1. QED
    BY <1>13, <1>15

(* The join of x and y, neither of them empty, holds both their texts, and  *)
(* of balanced trees makes one at most a level higher than the higher.      *)
JoinsTo(x, y, z) ==
  /\ z \in Trees
  /\ Filled(x) /\ Filled(y) =>
       /\ Holds(z, Flat(x) \o Flat(y))
       /\ IsBalanced(x) /\ IsBalanced(y) => BalancedOver(z, x, y)

LEMMA LeavesMerge ==
  ASSUME NEW x, NEW t, Holds(x, t), NEW y, NEW u, Holds(y, u), MergesInto(x, y)
  PROVE  /\ Holds(Leaf(x.buf \o y.buf), t \o u)
         /\ BalancedOver(Leaf(x.buf \o y.buf), x, y)
<1>1. /\ IsLeaf(x) /\ x.buf = t /\ Len(t) \in 1..LeafMax /\ t \in Text /\ TextLen(x) = Len(t)
      /\ IsLeaf(y) /\ y.buf = u /\ Len(u) \in 1..LeafMax /\ u \in Text /\ TextLen(y) = Len(u)
  BY HoldsParts, HoldsText DEF MergesInto
<1>2. Len(t) + Len(u) <= LeafMax
  BY <1>1 DEF MergesInto
<1> DEFINE z == Leaf(t \o u)
<1>3. t \o u \in Text /\ Len(t \o u) = Len(t) + Len(u)
  BY <1>1, JoinText
<1>4. Len(t \o u) \in 1..LeafMax
  <2> DEFINE m == Len(t)
             n == Len(u)
  <2>1. m \in 1..LeafMax /\ n \in 1..LeafMax /\ m + n <= LeafMax /\ LeafMax \in Nat
    BY <1>1, <1>2, RopeAssumption
  <2> HIDE DEF m, n
  <2>2. m + n \in 1..LeafMax
    BY <2>1
  <2>3. QED
    BY <1>3, <2>2 DEF m, n
<1>5. Holds(z, t \o u)
  BY <1>3, <1>4, HoldsLeaf
<1>6. z \in Trees /\ IsLeaf(z) /\ Height(z) = 0 /\ Height(x) = 0 /\ Height(y) = 0
  BY <1>1, <1>3, LeafTree, LeafFigures DEF Height
<1> HIDE DEF z
<1>7. IsBalanced(z)
  BY <1>6, LeafBalanced
<1>8. BalancedOver(z, x, y)
  BY <1>6, <1>7 DEF BalancedOver, Taller
<1>9. QED
  BY <1>1, <1>5, <1>8 DEF z

LEMMA LeftJoined ==
  ASSUME NEW a \in Trees, NEW b \in Trees, NEW y \in Trees, NEW z \in Trees,
         IsBalanced(Branch(a, b)), BalancedOver(z, b, y), Height(Branch(a, b)) >= Height(y) + 2
  PROVE  BalancedOver(Balance(Branch(a, z)), Branch(a, b), y)
<1> DEFINE x == Branch(a, b)
           v == Balance(Branch(a, z))
           ha == Height(a)
           hb == Height(b)
           hx == Height(x)
           hy == Height(y)
           hz == Height(z)
           hv == Height(v)
<1>1. /\ hx = 1 + (IF ha >= hb THEN ha ELSE hb)
      /\ ha - hb \in -1..1 /\ IsBalanced(a) /\ IsBalanced(b)
  BY BranchShape
<1>2. ha \in Nat /\ hb \in Nat /\ hy \in Nat /\ hz \in Nat
  BY Figures
<1>3. hx >= hy + 2
  OBVIOUS
<1>4. IsBalanced(z) /\ hz \in (IF hb >= hy THEN hb ELSE hy)..((IF hb >= hy THEN hb ELSE hy) + 1)
  BY DEF BalancedOver, Taller
<1>5. ha - hz \in -2..1
  <2> HIDE DEF ha, hb, hx, hy, hz
  <2>1. QED
    BY <1>1, <1>2, <1>3, <1>4
<1>6. /\ BalancedOver(v, a, z)
      /\ ha - hz \in -1..1 => hv = Taller(ha, hz) + 1
  <2>1. ha - hz \in -2..2
    BY <1>5
  <2> HIDE DEF v
  <2>2. QED
    BY <1>1, <1>4, <2>1, BalanceBalances DEF v
<1>7. IsBalanced(v) /\ hv \in (IF ha >= hz THEN ha ELSE hz)..((IF ha >= hz THEN ha ELSE hz) + 1)
  BY <1>6 DEF BalancedOver, Taller
<1>8. ha - hz \in -1..1 => hv = (IF ha >= hz THEN ha ELSE hz) + 1
  BY <1>6 DEF Taller
<1>9. hv \in (IF hx >= hy THEN hx ELSE hy)..((IF hx >= hy THEN hx ELSE hy) + 1)
  <2> HIDE DEF ha, hb, hx, hy, hz, hv
  <2>1. QED
    BY <1>1, <1>2, <1>3, <1>4, <1>5, <1>7, <1>8
<1>10. QED
  BY <1>7, <1>9 DEF BalancedOver, Taller

LEMMA RightJoined ==
  ASSUME NEW a \in Trees, NEW b \in Trees, NEW x \in Trees, NEW z \in Trees,
         IsBalanced(Branch(a, b)), BalancedOver(z, x, a), Height(Branch(a, b)) >= Height(x) + 2
  PROVE  BalancedOver(Balance(Branch(z, b)), x, Branch(a, b))
<1> DEFINE y == Branch(a, b)
           v == Balance(Branch(z, b))
           ha == Height(a)
           hb == Height(b)
           hx == Height(x)
           hy == Height(y)
           hz == Height(z)
           hv == Height(v)
<1>1. /\ hy = 1 + (IF ha >= hb THEN ha ELSE hb)
      /\ ha - hb \in -1..1 /\ IsBalanced(a) /\ IsBalanced(b)
  BY BranchShape
<1>2. ha \in Nat /\ hb \in Nat /\ hx \in Nat /\ hz \in Nat
  BY Figures
<1>3. hy >= hx + 2
  OBVIOUS
<1>4. IsBalanced(z) /\ hz \in (IF hx >= ha THEN hx ELSE ha)..((IF hx >= ha THEN hx ELSE ha) + 1)
  BY DEF BalancedOver, Taller
<1>5. hz - hb \in -1..2
  <2> HIDE DEF ha, hb, hx, hy, hz
  <2>1. QED
    BY <1>1, <1>2, <1>3, <1>4
<1>6. /\ BalancedOver(v, z, b)
      /\ hz - hb \in -1..1 => hv = Taller(hz, hb) + 1
  <2>1. hz - hb \in -2..2
    BY <1>5
  <2> HIDE DEF v
  <2>2. QED
    BY <1>1, <1>4, <2>1, BalanceBalances DEF v
<1>7. IsBalanced(v) /\ hv \in (IF hz >= hb THEN hz ELSE hb)..((IF hz >= hb THEN hz ELSE hb) + 1)
  BY <1>6 DEF BalancedOver, Taller
<1>8. hz - hb \in -1..1 => hv = (IF hz >= hb THEN hz ELSE hb) + 1
  BY <1>6 DEF Taller
<1>9. hv \in (IF hx >= hy THEN hx ELSE hy)..((IF hx >= hy THEN hx ELSE hy) + 1)
  <2> HIDE DEF ha, hb, hx, hy, hz, hv
  <2>1. QED
    BY <1>1, <1>2, <1>3, <1>4, <1>5, <1>7, <1>8
<1>10. QED
  BY <1>7, <1>9 DEF BalancedOver, Taller

(* One step of the join, given that the joins further down are right.       *)
LEMMA JoinStepJoins ==
  ASSUME NEW x \in Trees, NEW y \in Trees, NEW a, NEW b,
         IsLeaf(x) \/ JoinsTo(x.right, y, a), IsLeaf(y) \/ JoinsTo(x, y.left, b)
  PROVE  JoinsTo(x, y, JoinStep(x, y, a, b))
<1> DEFINE t == Flat(x)
           u == Flat(y)
           hx == Height(x)
           hy == Height(y)
           z == JoinStep(x, y, a, b)
<1>1. SUFFICES ASSUME Filled(x), Filled(y)
               PROVE  /\ Holds(z, t \o u)
                      /\ IsBalanced(x) /\ IsBalanced(y) => BalancedOver(z, x, y)
  <2>1. \E c \in Trees : JoinStep(x, y, a, b) = JoinStep(x, y, c, b)
    <3>1. CASE IsLeaf(x)
      BY <3>1, JoinStepParts
    <3>2. CASE ~ IsLeaf(x)
      BY <3>2 DEF JoinsTo
    <3>3. QED
      BY <3>1, <3>2
  <2>2. PICK c \in Trees : JoinStep(x, y, a, b) = JoinStep(x, y, c, b)
    BY <2>1
  <2>3. \E d \in Trees : JoinStep(x, y, c, b) = JoinStep(x, y, c, d)
    <3>1. CASE IsLeaf(y)
      BY <3>1, JoinStepParts
    <3>2. CASE ~ IsLeaf(y)
      BY <3>2 DEF JoinsTo
    <3>3. QED
      BY <3>1, <3>2
  <2>4. z \in Trees
    BY <2>2, <2>3, JoinStepParts
  <2>5. QED
    BY <2>4 DEF JoinsTo
<1>2. Holds(x, t) /\ Holds(y, u)
  BY <1>1 DEF Holds
<1>3. TextLen(x) # 0 /\ TextLen(y) # 0
  BY <1>2, HoldsSome, HoldsText
<1>4. hx \in Nat /\ hy \in Nat /\ (IsLeaf(x) => hx = 0) /\ (IsLeaf(y) => hy = 0)
  BY LeafHeight
<1>5. t \in Text /\ u \in Text
  BY FlatIsText
<1> HIDE DEF t, u
<1>6. CASE MergesInto(x, y)
  <2>1. z = Leaf(x.buf \o y.buf)
    BY <1>3, <1>6 DEF JoinStep
  <2> HIDE DEF z
  <2>2. QED
    BY <1>2, <1>6, <2>1, LeavesMerge
<1>7. CASE ~ MergesInto(x, y) /\ hx - hy \in -1..1
  <2>1. z = Branch(x, y)
    BY <1>3, <1>7 DEF JoinStep
  <2> HIDE DEF z
  <2>2. Holds(z, t \o u)
    BY <1>2, <2>1, HoldsBranch
  <2>3. ASSUME IsBalanced(x), IsBalanced(y) PROVE BalancedOver(z, x, y)
    <3>1. IsBalanced(z) /\ Height(z) = 1 + (IF hx >= hy THEN hx ELSE hy)
      BY <1>7, <2>1, <2>3, BranchShape
    <3>2. Height(z) \in (IF hx >= hy THEN hx ELSE hy)..((IF hx >= hy THEN hx ELSE hy) + 1)
      <4> HIDE DEF hx, hy
      <4>1. QED
        BY <1>4, <3>1
    <3>3. QED
      BY <3>1, <3>2 DEF BalancedOver, Taller
  <2>4. QED
    BY <2>2, <2>3
<1>8. CASE ~ MergesInto(x, y) /\ hx - hy \notin -1..1 /\ hx > hy
  <2> DEFINE p == x.left
             q == x.right
  <2>1. hx >= hy + 2 /\ hx # 0
    <3> HIDE DEF hx, hy
    <3>1. QED
      BY <1>4, <1>8
  <2>2. ~ IsLeaf(x)
    BY <1>4, <2>1
  <2>3. /\ p \in Trees /\ q \in Trees /\ x = Branch(p, q)
        /\ Holds(p, Flat(p)) /\ Holds(q, Flat(q)) /\ t = Flat(p) \o Flat(q)
    BY <1>2, <2>2, BranchParts, HoldsParts
  <2>4. z = Balance(Branch(p, a))
    BY <1>3, <1>8 DEF JoinStep
  <2>5. /\ Holds(a, Flat(q) \o u)
        /\ IsBalanced(q) /\ IsBalanced(y) => BalancedOver(a, q, y)
    BY <1>1, <2>2, <2>3 DEF JoinsTo, Holds, u
  <2> HIDE DEF z, p, q
  <2>6. Holds(Balance(Branch(p, a)), Flat(p) \o (Flat(q) \o u))
    <3>1. Holds(Branch(p, a), Flat(p) \o (Flat(q) \o u))
      BY <2>3, <2>5, HoldsBranch
    <3>2. QED
      BY <3>1, BalanceHolds
  <2>7. Flat(p) \o (Flat(q) \o u) = t \o u
    <3>1. Flat(p) \in Text /\ Flat(q) \in Text
      BY <2>3, FlatIsText
    <3>2. QED
      BY <1>5, <2>3, <3>1, JoinAssociative
  <2>8. ASSUME IsBalanced(x), IsBalanced(y) PROVE BalancedOver(z, x, y)
    <3>1. IsBalanced(q)
      BY <2>3, <2>8, BranchShape
    <3>2. BalancedOver(a, q, y) /\ a \in Trees
      BY <2>5, <2>8, <3>1 DEF Holds
    <3>3. QED
      BY <2>1, <2>3, <2>4, <2>8, <3>2, LeftJoined
  <2>9. QED
    BY <2>4, <2>6, <2>7, <2>8
<1>9. CASE ~ MergesInto(x, y) /\ hx - hy \notin -1..1 /\ ~ (hx > hy)
  <2> DEFINE p == y.left
             q == y.right
  <2>1. hy >= hx + 2 /\ hy # 0
    <3> HIDE DEF hx, hy
    <3>1. QED
      BY <1>4, <1>9
  <2>2. ~ IsLeaf(y)
    BY <1>4, <2>1
  <2>3. /\ p \in Trees /\ q \in Trees /\ y = Branch(p, q)
        /\ Holds(p, Flat(p)) /\ Holds(q, Flat(q)) /\ u = Flat(p) \o Flat(q)
    BY <1>2, <2>2, BranchParts, HoldsParts
  <2>4. z = Balance(Branch(b, q))
    BY <1>3, <1>9 DEF JoinStep
  <2>5. /\ Holds(b, t \o Flat(p))
        /\ IsBalanced(x) /\ IsBalanced(p) => BalancedOver(b, x, p)
    BY <1>1, <2>2, <2>3 DEF JoinsTo, Holds, t
  <2> HIDE DEF z, p, q
  <2>6. Holds(Balance(Branch(b, q)), (t \o Flat(p)) \o Flat(q))
    <3>1. Holds(Branch(b, q), (t \o Flat(p)) \o Flat(q))
      BY <2>3, <2>5, HoldsBranch
    <3>2. QED
      BY <3>1, BalanceHolds
  <2>7. (t \o Flat(p)) \o Flat(q) = t \o u
    <3>1. Flat(p) \in Text /\ Flat(q) \in Text
      BY <2>3, FlatIsText
    <3>2. QED
      BY <1>5, <2>3, <3>1, JoinAssociative
  <2>8. ASSUME IsBalanced(x), IsBalanced(y) PROVE BalancedOver(z, x, y)
    <3>1. IsBalanced(p)
      BY <2>3, <2>8, BranchShape
    <3>2. BalancedOver(b, x, p) /\ b \in Trees
      BY <2>5, <2>8, <3>1 DEF Holds
    <3>3. QED
      BY <2>1, <2>3, <2>4, <2>8, <3>2, RightJoined
  <2>9. QED
    BY <2>4, <2>6, <2>7, <2>8
<1>10. QED
  BY <1>6, <1>7, <1>8, <1>9

LEMMA JoinHolds ==
  ASSUME NEW l \in Trees, NEW r \in Trees
  PROVE  JoinsTo(l, r, JoinNodes(l, r))
<1>1. PICK f : Joining(l, r, f) /\ JoinNodes(l, r) = f[<<l, r>>]
  BY JoinIs
<1> DEFINE L == Nodes(l)
           R == Nodes(r)
<1>2. /\ l \in L /\ L \subseteq Trees /\ ClosedBelow(L)
      /\ r \in R /\ R \subseteq Trees /\ ClosedBelow(R)
  BY NodesAre
<1>3. ASSUME NEW x \in L, NEW y \in R
      PROVE  f[<<x, y>>] = JoinStep(x, y, f[<<x.right, y>>], f[<<x, y.left>>])
  BY <1>1 DEF Joining
<1> HIDE DEF L, R
<1> DEFINE S == {n \in Nat : \A x \in L, y \in R : Height(x) + Height(y) < n => JoinsTo(x, y, f[<<x, y>>])}
<1>4. 0 \in S
  <2>1. ASSUME NEW x \in L, NEW y \in R PROVE ~ (Height(x) + Height(y) < 0)
    <3>1. Height(x) \in Nat /\ Height(y) \in Nat
      BY <1>2, Figures
    <3>2. QED
      BY <3>1
  <2>2. QED
    BY <2>1
<1>5. ASSUME NEW n \in Nat, n \in S PROVE n + 1 \in S
  <2>1. ASSUME NEW x \in L, NEW y \in R, Height(x) + Height(y) < n + 1 PROVE JoinsTo(x, y, f[<<x, y>>])
    <3>1. x \in Trees /\ y \in Trees /\ Height(x) \in Nat /\ Height(y) \in Nat
      BY <1>2, Figures
    <3>2. IsLeaf(x) \/ JoinsTo(x.right, y, f[<<x.right, y>>])
      <4>1. SUFFICES ASSUME ~ IsLeaf(x) PROVE JoinsTo(x.right, y, f[<<x.right, y>>])
        OBVIOUS
      <4>2. x.right \in L
        BY <1>2, <4>1 DEF ClosedBelow
      <4>3. Height(x.right) \in Nat /\ Height(x.right) < Height(x)
        BY <1>2, <3>1, <4>1, <4>2, BranchParts, Figures
      <4>4. Height(x.right) + Height(y) < n
        BY <2>1, <3>1, <4>3
      <4>5. QED
        BY <1>5, <4>2, <4>4
    <3>3. IsLeaf(y) \/ JoinsTo(x, y.left, f[<<x, y.left>>])
      <4>1. SUFFICES ASSUME ~ IsLeaf(y) PROVE JoinsTo(x, y.left, f[<<x, y.left>>])
        OBVIOUS
      <4>2. y.left \in R
        BY <1>2, <4>1 DEF ClosedBelow
      <4>3. Height(y.left) \in Nat /\ Height(y.left) < Height(y)
        BY <1>2, <3>1, <4>1, <4>2, BranchParts, Figures
      <4>4. Height(x) + Height(y.left) < n
        BY <2>1, <3>1, <4>3
      <4>5. QED
        BY <1>5, <4>2, <4>4
    <3> HIDE DEF S
    <3>4. QED
      BY <1>3, <3>1, <3>2, <3>3, JoinStepJoins
  <2>2. QED
    BY <2>1
<1>6. \A n \in Nat : n \in S
  <2> HIDE DEF S
  <2>1. QED
    BY <1>4, <1>5, NatInductiveSet
<1>7. Height(l) + Height(r) + 1 \in Nat /\ Height(l) + Height(r) < Height(l) + Height(r) + 1
  <2>1. Height(l) \in Nat /\ Height(r) \in Nat
    BY Figures
  <2>2. QED
    BY <2>1
<1>8. QED
  BY <1>1, <1>2, <1>6, <1>7

(* A tree that carries a text: the empty leaf for the empty text only.      *)
Carries(x, t) == t \in Text /\ IF t = <<>> THEN x = EmptyLeaf ELSE Holds(x, t)

LEMMA EmptyLeafIs ==
  /\ EmptyLeaf \in Trees /\ IsLeaf(EmptyLeaf) /\ EmptyLeaf.buf = <<>> /\ TextLen(EmptyLeaf) = 0
  /\ Flat(EmptyLeaf) = <<>> /\ IsBalanced(EmptyLeaf) /\ <<>> \in Text
<1>1. <<>> \in Text
  BY DEF Text
<1>2. EmptyLeaf \in Trees /\ IsLeaf(EmptyLeaf) /\ EmptyLeaf.buf = <<>> /\ TextLen(EmptyLeaf) = 0
      /\ Flat(EmptyLeaf) = <<>>
  BY <1>1, LeafTree, LeafFigures, FlatLeaf DEF EmptyLeaf
<1>3. QED
  BY <1>1, <1>2, LeafBalanced

LEMMA CarriesFigures ==
  ASSUME NEW x, NEW t, Carries(x, t)
  PROVE  /\ x \in Trees /\ Flat(x) = t /\ TextLen(x) = Len(t) /\ t \in Text /\ Len(t) \in Nat
         /\ TextLen(x) = 0 <=> t = <<>>
<1>1. t \in Text /\ Len(t) \in Nat /\ (Len(t) = 0 <=> t = <<>>)
  BY DEF Carries, Text
<1>2. CASE t = <<>>
  BY <1>1, <1>2, EmptyLeafIs DEF Carries
<1>3. CASE t # <<>>
  BY <1>1, <1>3, HoldsText DEF Carries, Holds
<1>4. QED
  BY <1>2, <1>3

LEMMA JoinOfEmpty ==
  ASSUME NEW l \in Trees, NEW r \in Trees
  PROVE  /\ TextLen(l) = 0 => JoinNodes(l, r) = r
         /\ TextLen(l) # 0 /\ TextLen(r) = 0 => JoinNodes(l, r) = l
<1>1. PICK f : Joining(l, r, f) /\ JoinNodes(l, r) = f[<<l, r>>]
  BY JoinIs
<1>2. l \in Nodes(l) /\ r \in Nodes(r)
  BY NodesAre
<1>3. JoinNodes(l, r) = JoinStep(l, r, f[<<l.right, r>>], f[<<l, r.left>>])
  BY <1>1, <1>2 DEF Joining
<1>4. QED
  BY <1>3 DEF JoinStep

LEMMA JoinCarries ==
  ASSUME NEW l, NEW t, Carries(l, t), NEW r, NEW u, Carries(r, u)
  PROVE  /\ Carries(JoinNodes(l, r), t \o u)
         /\ IsBalanced(l) /\ IsBalanced(r) => IsBalanced(JoinNodes(l, r))
<1>1. /\ l \in Trees /\ Flat(l) = t /\ t \in Text /\ Len(t) \in Nat /\ (TextLen(l) = 0 <=> t = <<>>)
      /\ r \in Trees /\ Flat(r) = u /\ u \in Text /\ Len(u) \in Nat /\ (TextLen(r) = 0 <=> u = <<>>)
  BY CarriesFigures
<1>2. CASE t = <<>>
  <2>1. t \o u = u
    BY <1>1, <1>2 DEF Text
  <2>2. JoinNodes(l, r) = r
    BY <1>1, <1>2, JoinOfEmpty
  <2>3. QED
    BY <2>1, <2>2
<1>3. CASE t # <<>> /\ u = <<>>
  <2>1. t \o u = t
    BY <1>1, <1>3 DEF Text
  <2>2. JoinNodes(l, r) = l
    BY <1>1, <1>3, JoinOfEmpty
  <2>3. QED
    BY <2>1, <2>2
<1>4. CASE t # <<>> /\ u # <<>>
  <2>1. Holds(l, t) /\ Holds(r, u)
    BY <1>4 DEF Carries
  <2>2. /\ Holds(JoinNodes(l, r), t \o u)
        /\ IsBalanced(l) /\ IsBalanced(r) => BalancedOver(JoinNodes(l, r), l, r)
    BY <1>1, <2>1, JoinHolds DEF JoinsTo, Holds
  <2>3. t \o u \in Text
    BY <1>1, JoinText
  <2>4. t \o u # <<>>
    <3>1. Len(t \o u) > 0
      BY <2>2, HoldsSome
    <3>2. Len(<<>>) = 0
      OBVIOUS
    <3>3. QED
      BY <3>1, <3>2
  <2>5. QED
    BY <2>2, <2>3, <2>4 DEF Carries, BalancedOver
<1>5. QED
  BY <1>2, <1>3, <1>4

----------------------------------------------------------------------------
(* Parts of a text *)

LEMMA JoinedParts ==
  ASSUME NEW u \in Text, NEW v \in Text, NEW a \in Nat, NEW b \in Nat, a <= b
  PROVE  /\ b <= Len(u) => SubSeq(u \o v, a + 1, b) = SubSeq(u, a + 1, b)
         /\ b <= Len(v) => SubSeq(u \o v, Len(u) + a + 1, Len(u) + b) = SubSeq(v, a + 1, b)
<1> DEFINE t == u \o v
           m == Len(u)
           n == Len(v)
           d == b - a
<1>1. /\ t \in Text /\ Len(t) = m + n /\ m \in Nat /\ n \in Nat
      /\ (\A i \in 1..m : t[i] = u[i]) /\ (\A i \in 1..n : t[m + i] = v[i])
  BY JoinText DEF Text
<1> HIDE DEF t, m, n
<1>2. ASSUME b <= m PROVE SubSeq(t, a + 1, b) = SubSeq(u, a + 1, b)
  <2>1. b <= Len(t) /\ b <= Len(u)
    BY <1>1, <1>2 DEF m
  <2>2. /\ SubSeq(t, a + 1, b) \in Text /\ Len(SubSeq(t, a + 1, b)) = d
        /\ \A i \in 1..d : SubSeq(t, a + 1, b)[i] = t[a + i]
    BY <1>1, <2>1, PartText
  <2>3. /\ SubSeq(u, a + 1, b) \in Text /\ Len(SubSeq(u, a + 1, b)) = d
        /\ \A i \in 1..d : SubSeq(u, a + 1, b)[i] = u[a + i]
    BY <2>1, PartText
  <2>4. \A i \in 1..d : a + i \in 1..m
    BY <1>1, <1>2
  <2>5. \A i \in 1..d : t[a + i] = u[a + i]
    BY <1>1, <2>4
  <2> HIDE DEF d
  <2>6. QED
    BY <2>2, <2>3, <2>5, TextEqual
<1>3. ASSUME b <= n PROVE SubSeq(t, m + a + 1, m + b) = SubSeq(v, a + 1, b)
  <2>1. m + a \in Nat /\ m + b \in Nat /\ m + a <= m + b /\ m + b <= Len(t) /\ (m + b) - (m + a) = d
    BY <1>1, <1>3
  <2>2. /\ SubSeq(t, m + a + 1, m + b) \in Text /\ Len(SubSeq(t, m + a + 1, m + b)) = d
        /\ \A i \in 1..d : SubSeq(t, m + a + 1, m + b)[i] = t[m + a + i]
    <3> DEFINE c == m + a
               e == m + b
    <3> HIDE DEF c, e, d
    <3>1. /\ SubSeq(t, c + 1, e) \in Text /\ Len(SubSeq(t, c + 1, e)) = d
          /\ \A i \in 1..d : SubSeq(t, c + 1, e)[i] = t[c + i]
      BY <1>1, <2>1, PartText DEF c, e
    <3>2. QED
      BY <3>1 DEF c, e
  <2>3. /\ SubSeq(v, a + 1, b) \in Text /\ Len(SubSeq(v, a + 1, b)) = d
        /\ \A i \in 1..d : SubSeq(v, a + 1, b)[i] = v[a + i]
    BY <1>3, PartText DEF n
  <2>4. \A i \in 1..d : a + i \in 1..n /\ m + (a + i) = m + a + i
    BY <1>1, <1>3
  <2>5. \A i \in 1..d : t[m + a + i] = v[a + i]
    BY <1>1, <2>4
  <2> HIDE DEF d
  <2>6. QED
    BY <2>2, <2>3, <2>5, TextEqual
<1>4. QED
  BY <1>2, <1>3 DEF t, m, n

LEMMA PartOfPart ==
  ASSUME NEW t \in Text, NEW p \in Nat, NEW n \in Nat, p + n <= Len(t)
  PROVE  LET r == SubSeq(t, p + 1, Len(t)) IN
           /\ r \in Text /\ Len(r) = Len(t) - p
           /\ SubSeq(r, n + 1, Len(r)) = SubSeq(t, p + n + 1, Len(t))
<1> DEFINE m == Len(t)
           r == SubSeq(t, p + 1, m)
           d == m - p
           x == SubSeq(r, n + 1, d)
           y == SubSeq(t, p + n + 1, m)
           e == d - n
<1>1. m \in Nat /\ p + n \in Nat /\ p <= m /\ n <= d /\ d \in Nat /\ e \in Nat /\ m - (p + n) = e
  BY DEF Text
<1>2. r \in Text /\ Len(r) = d /\ \A i \in 1..d : r[i] = t[p + i]
  <2> HIDE DEF m
  <2>1. m <= Len(t)
    BY DEF m
  <2>2. QED
    BY <1>1, <2>1, PartText
<1> HIDE DEF r
<1>3. x \in Text /\ Len(x) = e /\ \A i \in 1..e : x[i] = r[n + i]
  <2> HIDE DEF d
  <2>1. d <= Len(r)
    BY <1>1, <1>2
  <2>2. QED
    BY <1>1, <1>2, <2>1, PartText
<1>4. y \in Text /\ Len(y) = e /\ \A i \in 1..e : y[i] = t[p + n + i]
  <2> DEFINE c == p + n
  <2>1. c \in Nat /\ c <= m /\ m - c = e /\ m \in Nat /\ m <= Len(t)
    BY <1>1
  <2> HIDE DEF c, x, y, m, d, e
  <2>2. SubSeq(t, c + 1, m) \in Text /\ Len(SubSeq(t, c + 1, m)) = m - c
        /\ \A i \in 1..(m - c) : SubSeq(t, c + 1, m)[i] = t[c + i]
    BY <2>1, PartText
  <2>3. QED
    BY <2>1, <2>2 DEF c, y
<1>5. \A i \in 1..e : n + i \in 1..d /\ p + (n + i) = p + n + i
  BY <1>1
<1>6. \A i \in 1..e : x[i] = y[i]
  BY <1>2, <1>3, <1>4, <1>5
<1> HIDE DEF x, y, e
<1>7. x = y
  BY <1>3, <1>4, <1>6, TextEqual
<1>8. QED
  BY <1>2, <1>7 DEF r, x, y

LEMMA JoinedHead ==
  ASSUME NEW u \in Text, NEW v \in Text, NEW b \in Nat
  PROVE  /\ b <= Len(u) => SubSeq(u \o v, 1, b) = SubSeq(u, 1, b)
         /\ b <= Len(v) => SubSeq(u \o v, Len(u) + 1, Len(u) + b) = SubSeq(v, 1, b)
<1>1. 0 \in Nat /\ 0 <= b /\ 0 + 1 = 1 /\ Len(u) \in Nat /\ Len(u) + 0 + 1 = Len(u) + 1
  BY DEF Text
<1>2. /\ b <= Len(u) => SubSeq(u \o v, 0 + 1, b) = SubSeq(u, 0 + 1, b)
      /\ b <= Len(v) => SubSeq(u \o v, Len(u) + 0 + 1, Len(u) + b) = SubSeq(v, 0 + 1, b)
  BY <1>1, JoinedParts
<1>3. QED
  BY <1>1, <1>2

LEMMA HeadParts ==
  ASSUME NEW t \in Text, NEW b \in Nat, NEW c \in Nat, b <= c, c <= Len(t)
  PROVE  SubSeq(t, 1, c) = SubSeq(t, 1, b) \o SubSeq(t, b + 1, c)
<1>1. 0 \in Nat /\ 0 <= b /\ 0 + 1 = 1
  OBVIOUS
<1>2. SubSeq(t, 0 + 1, c) = SubSeq(t, 0 + 1, b) \o SubSeq(t, b + 1, c)
  BY <1>1, PartsJoin
<1>3. QED
  BY <1>1, <1>2

----------------------------------------------------------------------------
(* Splitting *)

(* What a split gives, given the splits of the children.                    *)
SplitStep(x, p, a, b) ==
  IF p = 0 THEN <<EmptyLeaf, x>>
  ELSE IF p >= TextLen(x) THEN <<x, EmptyLeaf>>
  ELSE IF IsLeaf(x) THEN SplitLeaf(x.buf, p)
  ELSE IF p = x.left_len THEN <<x.left, x.right>>
  ELSE IF p < x.left_len THEN <<a[1], JoinNodes(a[2], x.right)>>
  ELSE <<JoinNodes(x.left, b[1]), b[2]>>

Splitting(x, f) ==
  \A y \in Nodes(x), p \in Nat :
    f[y][p] = SplitStep(y, p, f[y.left][p], f[y.right][p - y.left_len])

LEMMA JoinTree ==
  ASSUME NEW l \in Trees, NEW r \in Trees
  PROVE  JoinNodes(l, r) \in Trees
BY JoinHolds DEF JoinsTo

LEMMA LeafSplits ==
  ASSUME NEW x \in Trees, IsLeaf(x), NEW p \in 0..TextLen(x)
  PROVE  SplitLeaf(x.buf, p) \in Trees \X Trees
<1>1. x.buf \in Text /\ TextLen(x) = Len(x.buf) /\ Len(x.buf) \in Nat
  BY LeafParts DEF TextLen, Text
<1>2. SubSeq(x.buf, 1, p) \in Text /\ SubSeq(x.buf, p + 1, Len(x.buf)) \in Text
  <2> DEFINE b == x.buf
             n == Len(b)
  <2>1. b \in Text /\ p \in Nat /\ p <= n /\ n \in Nat /\ n <= n /\ 0 + 1 = 1 /\ 0 \in Nat /\ 0 <= p
    BY <1>1
  <2> HIDE DEF b
  <2>2. SubSeq(b, 0 + 1, p) \in Text /\ SubSeq(b, p + 1, n) \in Text
    BY <2>1, PartText
  <2>3. QED
    BY <2>1, <2>2 DEF b
<1>3. Leaf(SubSeq(x.buf, 1, p)) \in Trees /\ Leaf(SubSeq(x.buf, p + 1, Len(x.buf))) \in Trees
  BY <1>2, LeafTree
<1>4. QED
  BY <1>3 DEF SplitLeaf

LEMMA LeftLength ==
  ASSUME NEW x \in Trees, ~ IsLeaf(x)
  PROVE  /\ x.left_len \in Nat /\ x.left_len = TextLen(x.left) /\ TextLen(x.right) \in Nat
         /\ TextLen(x) = x.left_len + TextLen(x.right)
<1> DEFINE l == x.left
           r == x.right
<1>1. l \in Trees /\ r \in Trees /\ x = Branch(l, r)
  BY BranchParts
<1> HIDE DEF l, r
<1>2. x.left_len = TextLen(l) /\ TextLen(x) = TextLen(l) + TextLen(r)
  BY <1>1, BranchFigures
<1>3. QED
  BY <1>1, <1>2, Figures DEF l, r

LEMMA SplitIs ==
  ASSUME NEW x \in Trees
  PROVE  \E f : Splitting(x, f) /\ \A p \in Nat : SplitNode(x, p) = f[x][p]
<1> DEFINE D == Nodes(x)
           V == [Nat -> Trees \X Trees]
           Step(y, g) == [p \in Nat |-> SplitStep(y, p, g[y.left][p], g[y.right][p - y.left_len])]
           F == [q \in D \X [D -> V] |-> Step(q[1], q[2])]
           A == CHOOSE g : g = [y \in D |-> Step(y, g)]
<1>1. x \in D /\ D \subseteq Trees /\ ClosedBelow(D)
  BY NodesAre
<1> HIDE DEF D
<1>2. ASSUME NEW y \in D, NEW g \in [D -> V] PROVE F[<<y, g>>] = Step(y, g)
  OBVIOUS
<1>3. ASSUME NEW y \in D, NEW g \in [D -> V] PROVE Step(y, g) \in V
  <2>1. y \in Trees /\ EmptyLeaf \in Trees
    BY <1>1, EmptyLeafIs
  <2>2. ASSUME NEW p \in Nat PROVE SplitStep(y, p, g[y.left][p], g[y.right][p - y.left_len]) \in Trees \X Trees
    <3>1. CASE p = 0 \/ p >= TextLen(y)
      BY <2>1, <3>1 DEF SplitStep
    <3>2. CASE ~ (p = 0 \/ p >= TextLen(y)) /\ IsLeaf(y)
      <4>1. p \in 0..TextLen(y)
        BY <2>1, <3>2, Figures
      <4>2. SplitLeaf(y.buf, p) \in Trees \X Trees
        BY <2>1, <3>2, <4>1, LeafSplits
      <4>3. QED
        BY <3>2, <4>2 DEF SplitStep
    <3>3. CASE ~ (p = 0 \/ p >= TextLen(y)) /\ ~ IsLeaf(y)
      <4>1. y.left \in D /\ y.right \in D /\ y.left \in Trees /\ y.right \in Trees
        BY <1>1, <2>1, <3>3 DEF ClosedBelow
      <4>2. y.left_len \in Nat
        BY <2>1, <3>3, LeftLength
      <4>3. CASE p = y.left_len
        BY <3>3, <4>1, <4>3 DEF SplitStep
      <4>4. CASE p < y.left_len
        <5> DEFINE a == g[y.left][p]
        <5>1. a \in Trees \X Trees
          BY <4>1
        <5> HIDE DEF a
        <5>2. <<a[1], JoinNodes(a[2], y.right)>> \in Trees \X Trees
          BY <4>1, <5>1, JoinTree
        <5>3. p # y.left_len
          BY <4>2, <4>4
        <5>4. QED
          BY <3>3, <4>4, <5>2, <5>3 DEF SplitStep, a
      <4>5. CASE p > y.left_len
        <5> DEFINE b == g[y.right][p - y.left_len]
        <5>1. p - y.left_len \in Nat /\ p # y.left_len /\ ~ (p < y.left_len)
          BY <4>2, <4>5
        <5>2. b \in Trees \X Trees
          BY <4>1, <5>1
        <5> HIDE DEF b
        <5>3. <<JoinNodes(y.left, b[1]), b[2]>> \in Trees \X Trees
          BY <4>1, <5>2, JoinTree
        <5>4. QED
          BY <3>3, <5>1, <5>3 DEF SplitStep, b
      <4>6. p = y.left_len \/ p < y.left_len \/ p > y.left_len
        <5> HIDE DEF V, Step, F, A
        <5>1. \A n \in Nat : p = n \/ p < n \/ p > n
          OBVIOUS
        <5>2. QED
          BY <4>2, <5>1
      <4>7. QED
        BY <4>3, <4>4, <4>5, <4>6
    <3>4. QED
      BY <3>1, <3>2, <3>3
  <2>3. QED
    BY <2>2
<1>4. ASSUME NEW y \in D, NEW g \in [D -> V], NEW h \in [D -> V],
             IsLeaf(y) \/ (g[y.left] = h[y.left] /\ g[y.right] = h[y.right])
      PROVE  Step(y, g) = Step(y, h)
  <2>1. ASSUME NEW p \in Nat
        PROVE  SplitStep(y, p, g[y.left][p], g[y.right][p - y.left_len])
                 = SplitStep(y, p, h[y.left][p], h[y.right][p - y.left_len])
    BY <1>4 DEF SplitStep
  <2>2. QED
    BY <2>1
<1>5. Defined(D, V, F)
  <2> HIDE DEF Step, F
  <2>1. V # {}
    <3>1. [p \in Nat |-> <<x, x>>] \in V
      BY <1>1
    <3>2. QED
      BY <3>1
  <2> HIDE DEF V
  <2>2. ByChildren(D, V, F)
    BY <1>2, <1>3, <1>4, <2>1 DEF ByChildren
  <2>3. QED
    BY <1>1, <2>2, WalkDefined
<1>6. PICK f \in [D -> V] : \A y \in D : f[y] = Step(y, f)
  <2> HIDE DEF Step, V, F
  <2>1. QED
    BY <1>2, <1>5 DEF Defined
<1>7. f = [y \in D |-> Step(y, f)]
  <2> HIDE DEF Step
  <2>1. QED
    BY <1>6
<1>8. A = [y \in D |-> Step(y, A)]
  <2> HIDE DEF Step
  <2>1. QED
    BY <1>7
<1>9. ASSUME NEW p \in Nat PROVE SplitNode(x, p) = A[x][p]
  <2> DEFINE B == CHOOSE g : g = [y \in Nodes(x) |-> Step(y, g)]
  <2>1. SplitNode(x, p) = B[x][p]
    BY DEF SplitNode, SplitStep
  <2>2. QED
    BY <2>1 DEF D
<1>10. Splitting(x, A)
  <2>1. ASSUME NEW y \in D, NEW p \in Nat
        PROVE  A[y][p] = SplitStep(y, p, A[y.left][p], A[y.right][p - y.left_len])
    <3> HIDE DEF A
    <3>1. A[y] = Step(y, A)
      <4> HIDE DEF Step
      <4>1. QED
        BY <1>8
    <3>2. QED
      BY <3>1
  <2> HIDE DEF A
  <2>2. QED
    BY <2>1 DEF Splitting, D
<1>11. QED
  <2> HIDE DEF A
  <2>1. QED
    BY <1>9, <1>10

(* A split at p of a tree without empty leaves carries the two parts of its *)
(* text, and both are balanced when the tree was.                           *)
SplitsTo(x, p, s) ==
  Filled(x) =>
    LET t == Flat(x)
        q == IF p <= Len(t) THEN p ELSE Len(t)
    IN /\ Carries(s[1], SubSeq(t, 1, q)) /\ Carries(s[2], SubSeq(t, q + 1, Len(t)))
       /\ IsBalanced(x) => IsBalanced(s[1]) /\ IsBalanced(s[2])

LEMMA SplitStepSplits ==
  ASSUME NEW x \in Trees, NEW p \in Nat, NEW a, NEW b,
         IsLeaf(x) \/ SplitsTo(x.left, p, a),
         IsLeaf(x) \/ p < x.left_len \/ SplitsTo(x.right, p - x.left_len, b)
  PROVE  SplitsTo(x, p, SplitStep(x, p, a, b))
<1> DEFINE t == Flat(x)
           n == Len(t)
           q == IF p <= n THEN p ELSE n
           s == SplitStep(x, p, a, b)
<1>1. SUFFICES ASSUME Filled(x)
               PROVE  /\ Carries(s[1], SubSeq(t, 1, q)) /\ Carries(s[2], SubSeq(t, q + 1, n))
                      /\ IsBalanced(x) => IsBalanced(s[1]) /\ IsBalanced(s[2])
  BY DEF SplitsTo
<1>2. Holds(x, t) /\ t \in Text /\ n \in Nat /\ TextLen(x) = n /\ n > 0
  BY <1>1, HoldsText, HoldsSome DEF Holds
<1>3. Carries(x, t)
  BY <1>2 DEF Carries
<1>4. Carries(EmptyLeaf, <<>>) /\ IsBalanced(EmptyLeaf)
  BY EmptyLeafIs DEF Carries
<1>5. SubSeq(t, 1, 0) = <<>> /\ SubSeq(t, n + 1, n) = <<>> /\ SubSeq(t, 1, n) = t
  <2>1. SubSeq(t, 0 + 1, 0) = <<>> /\ SubSeq(t, n + 1, n) = <<>> /\ SubSeq(t, 1, n) = t
    BY <1>2, WholePart
  <2>2. QED
    BY <2>1
<1> HIDE DEF t, n
<1>6. CASE p = 0
  <2>1. s = <<EmptyLeaf, x>> /\ q = 0 /\ SubSeq(t, q + 1, n) = t
    BY <1>2, <1>5, <1>6 DEF SplitStep
  <2> HIDE DEF s
  <2>2. QED
    BY <1>3, <1>4, <1>5, <2>1
<1>7. CASE p # 0 /\ p >= n
  <2>1. s = <<x, EmptyLeaf>> /\ q = n
    BY <1>2, <1>7 DEF SplitStep
  <2> HIDE DEF s, q
  <2>2. QED
    BY <1>3, <1>4, <1>5, <2>1
<1>8. CASE p # 0 /\ ~ (p >= n) /\ IsLeaf(x)
  <2> DEFINE u == SubSeq(t, 1, p)
             v == SubSeq(t, p + 1, n)
  <2>1. q = p /\ p <= n /\ p > 0 /\ n - p > 0
    BY <1>2, <1>8
  <2>2. x.buf = t /\ n \in 1..LeafMax
    BY <1>2, <1>8, HoldsParts DEF n
  <2>3. s = <<Leaf(u), Leaf(v)>>
    BY <1>2, <1>8, <2>2 DEF SplitStep, SplitLeaf, n
  <2>4. u \in Text /\ Len(u) = p
    <3>1. SubSeq(t, 0 + 1, p) \in Text /\ Len(SubSeq(t, 0 + 1, p)) = p - 0
      BY <1>2, <2>1, PartText DEF n
    <3>2. QED
      BY <3>1
  <2>5. v \in Text /\ Len(v) = n - p
    BY <1>2, <2>1, PartText DEF n
  <2>6. p \in 1..LeafMax /\ n - p \in 1..LeafMax
    BY <1>2, <2>1, <2>2, RopeAssumption
  <2> HIDE DEF s, q, u, v
  <2>7. Holds(Leaf(u), u) /\ Holds(Leaf(v), v)
    BY <2>4, <2>5, <2>6, HoldsLeaf
  <2>8. Carries(Leaf(u), u) /\ Carries(Leaf(v), v)
    <3>1. Len(u) # 0 /\ Len(v) # 0 /\ Len(<<>>) = 0
      BY <2>1, <2>4, <2>5
    <3>2. u # <<>> /\ v # <<>>
      BY <3>1
    <3>3. QED
      BY <2>4, <2>5, <2>7, <3>2 DEF Carries
  <2>9. IsBalanced(Leaf(u)) /\ IsBalanced(Leaf(v))
    BY <2>4, <2>5, LeafTree, LeafFigures, LeafBalanced
  <2>10. QED
    BY <2>1, <2>3, <2>8, <2>9 DEF u, v
<1>9. CASE p # 0 /\ ~ (p >= n) /\ ~ IsLeaf(x)
  <2> DEFINE l == x.left
             r == x.right
             u == Flat(l)
             v == Flat(r)
             m == Len(u)
  <2>1. /\ l \in Trees /\ r \in Trees /\ x = Branch(l, r)
        /\ Holds(l, u) /\ Holds(r, v) /\ t = u \o v /\ x.left_len = m
    BY <1>2, <1>9, BranchParts, HoldsParts
  <2>2. /\ u \in Text /\ v \in Text /\ m \in Nat /\ m > 0 /\ Len(v) \in Nat /\ Len(v) > 0
        /\ n = m + Len(v)
    <3>1. u \in Text /\ v \in Text /\ Len(u) > 0 /\ Len(v) > 0
      BY <2>1, HoldsText, HoldsSome
    <3>2. Len(u \o v) = Len(u) + Len(v)
      BY <3>1, JoinText
    <3>3. QED
      BY <2>1, <3>1, <3>2 DEF Text, n
  <2>3. Carries(l, u) /\ Carries(r, v)
    <3>1. u # <<>> /\ v # <<>>
      <4>1. Len(<<>>) = 0
        OBVIOUS
      <4>2. QED
        BY <2>2, <4>1
    <3>2. QED
      BY <2>1, <2>2, <3>1 DEF Carries
  <2>5. q = p /\ p <= n
    BY <1>2, <1>9
  <2>6. /\ x.left = l /\ x.right = r /\ Filled(l) /\ Filled(r)
    BY <2>1 DEF Holds
  <2> HIDE DEF l, r, u, v, m, q
  <2>4. IsBalanced(x) => IsBalanced(l) /\ IsBalanced(r)
    BY <2>1, BranchShape
  <2>7. CASE p = m
    <3>1. s = <<l, r>>
      BY <1>2, <1>9, <2>1, <2>6, <2>7 DEF SplitStep
    <3> HIDE DEF s
    <3>2. SubSeq(t, 1, p) = u
      <4>1. SubSeq(u \o v, 0 + 1, m) = SubSeq(u, 0 + 1, m) /\ SubSeq(u, 1, m) = u
        BY <2>2, JoinedParts, WholePart DEF m
      <4>2. QED
        BY <2>1, <2>7, <4>1
    <3>3. SubSeq(t, p + 1, n) = v
      <4>1. SubSeq(u \o v, Len(u) + 0 + 1, Len(u) + Len(v)) = SubSeq(v, 0 + 1, Len(v))
        BY <2>2, JoinedParts
      <4>2. SubSeq(v, 1, Len(v)) = v
        BY <2>2, WholePart
      <4>3. Len(u) + 0 + 1 = p + 1 /\ Len(u) + Len(v) = n
        BY <2>2, <2>7 DEF m
      <4>4. QED
        BY <2>1, <4>1, <4>2, <4>3
    <3>4. QED
      BY <2>3, <2>4, <2>5, <3>1, <3>2, <3>3
  <2>8. CASE p < m
    <3> DEFINE w == SubSeq(u, p + 1, m)
               j == JoinNodes(a[2], r)
    <3>1. s = <<a[1], j>>
      <4>1. p # m
        BY <2>2, <2>8
      <4>2. QED
        BY <1>2, <1>9, <2>1, <2>6, <2>8, <4>1 DEF SplitStep
    <3>2. p <= m
      BY <2>2, <2>8
    <3>3. /\ Carries(a[1], SubSeq(u, 1, p)) /\ Carries(a[2], w)
          /\ IsBalanced(l) => IsBalanced(a[1]) /\ IsBalanced(a[2])
      BY <1>9, <2>6, <3>2 DEF SplitsTo, u, m
    <3> HIDE DEF s, j, w
    <3>4. /\ Carries(j, w \o v)
          /\ IsBalanced(a[2]) /\ IsBalanced(r) => IsBalanced(j)
      BY <2>3, <3>3, JoinCarries DEF j
    <3>5. SubSeq(t, 1, p) = SubSeq(u, 1, p)
      <4>1. SubSeq(u \o v, 1, p) = SubSeq(u, 1, p)
        BY <2>2, <3>2, JoinedHead DEF m
      <4>2. QED
        BY <2>1, <4>1
    <3>6. SubSeq(t, p + 1, n) = w \o v
      <4>1. SubSeq(t, p + 1, n) = SubSeq(t, p + 1, m) \o SubSeq(t, m + 1, n)
        <5>1. m <= n /\ n <= Len(t)
          BY <2>2 DEF n
        <5>2. QED
          BY <1>2, <2>2, <3>2, <5>1, PartsJoin, ZenonT(60)
      <4>2. SubSeq(t, p + 1, m) = w
        BY <2>1, <2>2, <3>2, JoinedParts, SMTT(40) DEF m, w
      <4>3. SubSeq(t, m + 1, n) = v
        <5>1. SubSeq(u \o v, Len(u) + 1, Len(u) + Len(v)) = SubSeq(v, 1, Len(v))
          BY <2>2, JoinedHead
        <5>2. SubSeq(v, 1, Len(v)) = v
          BY <2>2, WholePart
        <5>3. m = Len(u) /\ Len(u) + Len(v) = n
          BY <2>2 DEF m
        <5>4. QED
          BY <2>1, <5>1, <5>2, <5>3
      <4>4. QED
        BY <4>1, <4>2, <4>3
    <3>7. QED
      BY <2>4, <2>5, <3>1, <3>3, <3>4, <3>5, <3>6
  <2>9. CASE p > m
    <3> DEFINE k == p - m
               w == SubSeq(v, 1, k)
               j == JoinNodes(l, b[1])
    <3>1. k \in Nat /\ k <= Len(v) /\ p # m /\ ~ (p < m) /\ m + k = p
      BY <1>2, <1>9, <2>2, <2>9
    <3>2. s = <<j, b[2]>>
      BY <1>2, <1>9, <2>1, <2>6, <3>1 DEF SplitStep
    <3>3. SplitsTo(r, k, b)
      BY <1>9, <2>1, <2>6, <3>1
    <3>4. /\ Carries(b[1], w) /\ Carries(b[2], SubSeq(v, k + 1, Len(v)))
          /\ IsBalanced(r) => IsBalanced(b[1]) /\ IsBalanced(b[2])
      <4> HIDE DEF k
      <4>1. QED
        BY <2>6, <3>1, <3>3 DEF SplitsTo, v
    <3> HIDE DEF s, j, w, k
    <3>5. /\ Carries(j, u \o w)
          /\ IsBalanced(l) /\ IsBalanced(b[1]) => IsBalanced(j)
      BY <2>3, <3>4, JoinCarries DEF j
    <3>6. SubSeq(t, 1, p) = u \o w
      <4>1. SubSeq(t, 1, p) = SubSeq(t, 1, m) \o SubSeq(t, m + 1, p)
        <5>1. m <= p /\ p <= Len(t)
          BY <2>2, <2>5, <2>9 DEF n
        <5>2. QED
          BY <1>2, <2>2, <5>1, HeadParts
      <4>2. SubSeq(t, 1, m) = u
        <5>1. SubSeq(u \o v, 1, m) = SubSeq(u, 1, m) /\ SubSeq(u, 1, m) = u
          BY <2>2, JoinedHead, WholePart DEF m
        <5>2. QED
          BY <2>1, <5>1
      <4>3. SubSeq(t, m + 1, p) = w
        <5>1. SubSeq(u \o v, Len(u) + 1, Len(u) + k) = SubSeq(v, 1, k)
          BY <2>2, <3>1, JoinedHead
        <5>2. m = Len(u) /\ Len(u) + k = p
          BY <3>1 DEF m
        <5>3. QED
          BY <2>1, <5>1, <5>2 DEF w
      <4>4. QED
        BY <4>1, <4>2, <4>3
    <3>7. SubSeq(t, p + 1, n) = SubSeq(v, k + 1, Len(v))
      <4>1. SubSeq(u \o v, Len(u) + k + 1, Len(u) + Len(v)) = SubSeq(v, k + 1, Len(v))
        BY <2>2, <3>1, JoinedParts
      <4>2. Len(u) + k + 1 = p + 1 /\ Len(u) + Len(v) = n
        BY <2>2, <3>1 DEF m
      <4>3. QED
        BY <2>1, <4>1, <4>2
    <3>8. QED
      BY <2>4, <2>5, <3>2, <3>4, <3>5, <3>6, <3>7
  <2>10. QED
    BY <2>2, <2>7, <2>8, <2>9
<1>10. QED
  BY <1>6, <1>7, <1>8, <1>9

LEMMA SplitHolds ==
  ASSUME NEW x \in Trees, NEW p \in Nat
  PROVE  SplitsTo(x, p, SplitNode(x, p))
<1>1. PICK f : Splitting(x, f) /\ \A q \in Nat : SplitNode(x, q) = f[x][q]
  BY SplitIs
<1> DEFINE D == Nodes(x)
           S == {y \in D : \A q \in Nat : SplitsTo(y, q, f[y][q])}
<1>2. x \in D /\ D \subseteq Trees /\ ClosedBelow(D)
  BY NodesAre
<1>3. ASSUME NEW y \in D, NEW q \in Nat
      PROVE  f[y][q] = SplitStep(y, q, f[y.left][q], f[y.right][q - y.left_len])
  BY <1>1 DEF Splitting
<1> HIDE DEF D
<1>4. ASSUME NEW y \in D, IsLeaf(y) \/ (y.left \in S /\ y.right \in S) PROVE y \in S
  <2>1. ASSUME NEW q \in Nat PROVE SplitsTo(y, q, f[y][q])
    <3>1. IsLeaf(y) \/ SplitsTo(y.left, q, f[y.left][q])
      BY <1>4
    <3>2. IsLeaf(y) \/ q < y.left_len \/ SplitsTo(y.right, q - y.left_len, f[y.right][q - y.left_len])
      <4>1. SUFFICES ASSUME ~ IsLeaf(y), ~ (q < y.left_len)
                     PROVE  SplitsTo(y.right, q - y.left_len, f[y.right][q - y.left_len])
        OBVIOUS
      <4>2. y.left_len \in Nat
        BY <1>2, <4>1, LeftLength
      <4>3. q - y.left_len \in Nat
        BY <4>1, <4>2
      <4>4. QED
        BY <1>4, <4>1, <4>3
    <3>3. y \in Trees
      BY <1>2
    <3>4. SplitsTo(y, q, SplitStep(y, q, f[y.left][q], f[y.right][q - y.left_len]))
      BY <3>1, <3>2, <3>3, SplitStepSplits
    <3>5. QED
      BY <1>3, <3>4
  <2>2. QED
    BY <2>1
<1>5. x \in S
  <2> HIDE DEF S
  <2>1. Rises(Nodes(x), S)
    BY <1>4 DEF Rises, D
  <2>2. QED
    BY <1>2, <2>1, NodesInduction DEF D
<1>6. QED
  BY <1>1, <1>5

LEMMA SplitCarries ==
  ASSUME NEW x, NEW t, Carries(x, t), NEW p \in 0..Len(t)
  PROVE  LET s == SplitNode(x, p) IN
           /\ Carries(s[1], SubSeq(t, 1, p)) /\ Carries(s[2], SubSeq(t, p + 1, Len(t)))
           /\ IsBalanced(x) => IsBalanced(s[1]) /\ IsBalanced(s[2])
<1> DEFINE s == SplitNode(x, p)
<1>1. x \in Trees /\ Flat(x) = t /\ TextLen(x) = Len(t) /\ t \in Text /\ Len(t) \in Nat
  BY CarriesFigures
<1>2. CASE t = <<>>
  <2>1. x = EmptyLeaf /\ p = 0
    BY <1>2 DEF Carries
  <2>2. PICK f : Splitting(x, f) /\ \A q \in Nat : SplitNode(x, q) = f[x][q]
    BY <1>1, SplitIs
  <2>3. s = <<EmptyLeaf, x>>
    <3>1. x \in Nodes(x)
      BY <1>1, NodesAre
    <3>2. s = SplitStep(x, 0, f[x.left][0], f[x.right][0 - x.left_len])
      BY <2>1, <2>2, <3>1 DEF Splitting
    <3>3. QED
      BY <3>2 DEF SplitStep
  <2> HIDE DEF s
  <2>4. SubSeq(t, 1, p) = <<>> /\ SubSeq(t, p + 1, Len(t)) = <<>>
    BY <1>2, <2>1
  <2>5. Carries(EmptyLeaf, <<>>) /\ IsBalanced(EmptyLeaf)
    BY EmptyLeafIs DEF Carries
  <2>6. s[1] = EmptyLeaf /\ s[2] = EmptyLeaf
    BY <2>1, <2>3
  <2>7. QED
    BY <2>4, <2>5, <2>6 DEF s
<1>3. CASE t # <<>>
  <2>1. Filled(x) /\ p \in Nat /\ p <= Len(t)
    BY <1>1, <1>3 DEF Carries, Holds
  <2>2. SplitsTo(x, p, s)
    BY <1>1, SplitHolds
  <2>3. QED
    BY <1>1, <2>1, <2>2 DEF SplitsTo
<1>4. QED
  BY <1>2, <1>3

LEMMA InsertCarries ==
  ASSUME NEW x, NEW t, Carries(x, t), NEW p \in Nat, NEW y, NEW u, Carries(y, u)
  PROVE  /\ Carries(InsertNode(x, p, y), WithInserted(t, IF p <= Len(t) THEN p ELSE Len(t), u))
         /\ IsBalanced(x) /\ IsBalanced(y) => IsBalanced(InsertNode(x, p, y))
<1> DEFINE s == SplitNode(x, p)
           q == IF p <= Len(t) THEN p ELSE Len(t)
           j == JoinNodes(s[1], y)
<1>1. x \in Trees /\ Flat(x) = t /\ t \in Text /\ Len(t) \in Nat /\ TextLen(x) = Len(t)
  BY CarriesFigures
<1>2. /\ Carries(s[1], SubSeq(t, 1, q)) /\ Carries(s[2], SubSeq(t, q + 1, Len(t)))
      /\ IsBalanced(x) => IsBalanced(s[1]) /\ IsBalanced(s[2])
  <2>1. CASE p <= Len(t)
    <3>1. p \in 0..Len(t) /\ q = p
      BY <1>1, <2>1
    <3>2. QED
      BY <3>1, SplitCarries
  <2>2. CASE ~ (p <= Len(t))
    <3>1. q = Len(t) /\ p # 0 /\ p >= TextLen(x)
      BY <1>1, <2>2
    <3>2. PICK f : Splitting(x, f) /\ \A k \in Nat : SplitNode(x, k) = f[x][k]
      BY <1>1, SplitIs
    <3>3. s = <<x, EmptyLeaf>>
      <4>1. x \in Nodes(x)
        BY <1>1, NodesAre
      <4>2. s = SplitStep(x, p, f[x.left][p], f[x.right][p - x.left_len])
        BY <3>2, <4>1 DEF Splitting
      <4>3. QED
        BY <3>1, <4>2 DEF SplitStep
    <3> HIDE DEF s, q
    <3>4. SubSeq(t, 1, q) = t /\ SubSeq(t, q + 1, Len(t)) = <<>>
      BY <1>1, <3>1, WholePart
    <3>5. Carries(EmptyLeaf, <<>>) /\ IsBalanced(EmptyLeaf)
      BY EmptyLeafIs DEF Carries
    <3>6. QED
      BY <3>3, <3>4, <3>5
  <2>3. QED
    BY <2>1, <2>2
<1>3. InsertNode(x, p, y) = JoinNodes(j, s[2])
  BY DEF InsertNode
<1> HIDE DEF s, q
<1>4. /\ Carries(j, SubSeq(t, 1, q) \o u)
      /\ IsBalanced(s[1]) /\ IsBalanced(y) => IsBalanced(j)
  BY <1>2, JoinCarries
<1> HIDE DEF j
<1>5. /\ Carries(JoinNodes(j, s[2]), (SubSeq(t, 1, q) \o u) \o SubSeq(t, q + 1, Len(t)))
      /\ IsBalanced(j) /\ IsBalanced(s[2]) => IsBalanced(JoinNodes(j, s[2]))
  BY <1>2, <1>4, JoinCarries
<1>6. WithInserted(t, q, u) = (SubSeq(t, 1, q) \o u) \o SubSeq(t, q + 1, Len(t))
  BY DEF WithInserted
<1>7. QED
  BY <1>2, <1>3, <1>4, <1>5, <1>6 DEF q

LEMMA DeleteCarries ==
  ASSUME NEW x, NEW t, Carries(x, t), NEW p \in 0..Len(t), NEW n \in 0..(Len(t) - p)
  PROVE  /\ Carries(DeleteRange(x, p, n), WithoutRange(t, p, n))
         /\ IsBalanced(x) => IsBalanced(DeleteRange(x, p, n))
<1> DEFINE s == SplitNode(x, p)
           u == SubSeq(t, p + 1, Len(t))
           k == SplitNode(s[2], n)
<1>1. t \in Text /\ Len(t) \in Nat
  BY CarriesFigures
<1>2. /\ Carries(s[1], SubSeq(t, 1, p)) /\ Carries(s[2], u)
      /\ IsBalanced(x) => IsBalanced(s[1]) /\ IsBalanced(s[2])
  BY SplitCarries
<1>3. /\ u \in Text /\ Len(u) = Len(t) - p
      /\ SubSeq(u, n + 1, Len(u)) = SubSeq(t, p + n + 1, Len(t))
  BY <1>1, PartOfPart
<1>4. DeleteRange(x, p, n) = JoinNodes(s[1], k[2])
  BY DEF DeleteRange
<1> HIDE DEF s, u
<1>5. n \in 0..Len(u)
  BY <1>3
<1>6. /\ Carries(k[2], SubSeq(u, n + 1, Len(u)))
      /\ IsBalanced(s[2]) => IsBalanced(k[2])
  BY <1>2, <1>5, SplitCarries
<1> HIDE DEF k
<1>7. /\ Carries(JoinNodes(s[1], k[2]), SubSeq(t, 1, p) \o SubSeq(t, p + n + 1, Len(t)))
      /\ IsBalanced(s[1]) /\ IsBalanced(k[2]) => IsBalanced(JoinNodes(s[1], k[2]))
  BY <1>2, <1>3, <1>6, JoinCarries
<1>8. WithoutRange(t, p, n) = SubSeq(t, 1, p) \o SubSeq(t, p + n + 1, Len(t))
  BY DEF WithoutRange
<1>9. QED
  BY <1>2, <1>4, <1>6, <1>7, <1>8

----------------------------------------------------------------------------
(* Building *)

LEMMA Division ==
  ASSUME NEW a \in Nat, NEW k \in Nat \ {0}
  PROVE  a \div k \in Nat /\ (a \div k) * k <= a /\ a < (a \div k) * k + k
OBVIOUS

LEMMA Times ==
  ASSUME NEW a \in Nat, NEW b \in Nat, NEW k \in Nat
  PROVE  /\ a * k \in Nat /\ b * k \in Nat
         /\ a <= b => a * k <= b * k
         /\ (a - 1) * k = a * k - k
OBVIOUS

(* A row of trees that hold t between them: tree i has what lies between    *)
(* the cuts i - 1 and i.                                                    *)
Cuts(nodes, t, c) ==
  /\ c[0] = 0 /\ c[Len(nodes)] = Len(t)
  /\ \A i \in 1..Len(nodes) :
       /\ c[i - 1] \in 0..Len(t) /\ c[i] \in 0..Len(t) /\ c[i - 1] <= c[i]
       /\ Holds(nodes[i], SubSeq(t, c[i - 1] + 1, c[i]))

Row(nodes, t) == nodes \in Seq(Trees) /\ Len(nodes) > 0 /\ \E c : Cuts(nodes, t, c)

LEMMA ChunksRow ==
  ASSUME NEW t \in Text, t # <<>>
  PROVE  Row(Chunks(t), t)
<1> DEFINE K == LeafMax
           m == Len(t)
           n == (m + K - 1) \div K
           lo(i) == (i - 1) * K
           hi(i) == IF i * K <= m THEN i * K ELSE m
           c == [i \in 0..n |-> IF i * K <= m THEN i * K ELSE m]
           nodes == Chunks(t)
<1>1. K \in Nat \ {0} /\ m \in Nat /\ m > 0
  <2>1. m # 0 /\ m \in Nat
    BY DEF Text
  <2>2. QED
    BY <2>1, RopeAssumption
<1> HIDE DEF K, m
<1>2. n \in Nat /\ n * K <= m + K - 1 /\ m + K - 1 < n * K + K
  <2>1. m + K - 1 \in Nat
    BY <1>1
  <2>2. QED
    BY <1>1, <2>1, Division
<1>3. nodes = [i \in 1..n |-> Leaf(SubSeq(t, lo(i) + 1, Min({i * K, m})))]
  BY DEF Chunks, K, m
<1> HIDE DEF n
<1>4. n > 0 /\ n * K >= m
  <2>1. n # 0
    <3>1. ASSUME n = 0 PROVE FALSE
      <4>1. n * K = 0
        BY <1>1, <3>1
      <4>2. QED
        BY <1>1, <1>2, <4>1
    <3>2. QED
      BY <3>1
  <2>2. n * K \in Nat
    BY <1>1, <1>2
  <2>3. QED
    BY <1>1, <1>2, <2>1, <2>2
<1>5. ASSUME NEW i \in 1..n
      PROVE  /\ i * K \in Nat /\ lo(i) \in Nat /\ lo(i) = i * K - K /\ lo(i) <= m
             /\ Min({i * K, m}) = hi(i) /\ hi(i) \in 0..m /\ hi(i) - lo(i) \in 1..K
  <2>1. i \in Nat /\ i - 1 \in Nat /\ i - 1 <= n - 1 /\ n - 1 \in Nat /\ K \in Nat
    BY <1>1, <1>2
  <2>2. i * K \in Nat /\ lo(i) \in Nat /\ lo(i) = i * K - K
    BY <2>1, Times
  <2>3. lo(i) <= (n - 1) * K /\ (n - 1) * K = n * K - K /\ n * K \in Nat
    <3>1. (n - 1) * K = n * K - K /\ n * K \in Nat
      BY <1>2, <2>1, Times
    <3>2. (i - 1) * K <= (n - 1) * K
      BY <2>1, Times
    <3>3. QED
      BY <3>1, <3>2
  <2> DEFINE a == i * K
             b == n * K
             d == lo(i)
  <2>4. a \in Nat /\ d \in Nat /\ d = a - K /\ d <= b - K /\ b <= m + K - 1 /\ b \in Nat
    BY <1>2, <2>2, <2>3
  <2>5. d <= m /\ (IF a <= m THEN a ELSE m) - d \in 1..K /\ (IF a <= m THEN a ELSE m) \in 0..m
    <3> HIDE DEF a, b, d
    <3>1. QED
      BY <1>1, <2>4
  <2>6. Min({a, m}) = IF a <= m THEN a ELSE m
    <3> HIDE DEF a
    <3>1. QED
      BY <1>1, <2>4, SmallerOf
  <2>7. QED
    BY <2>2, <2>5, <2>6
<1>6. ASSUME NEW i \in 1..n PROVE c[i] = hi(i) /\ c[i - 1] = lo(i)
  <2>1. i \in 0..n /\ i - 1 \in 0..n
    BY <1>2
  <2>2. lo(i) <= m
    BY <1>5
  <2>3. QED
    BY <2>1, <2>2
<1>7. c[0] = 0 /\ c[n] = m
  <2>1. 0 \in 0..n /\ n \in 0..n /\ 0 * K = 0 /\ 0 <= m
    BY <1>1, <1>2
  <2>2. n * K \in Nat
    BY <1>1, <1>2
  <2>3. c[0] = 0
    BY <2>1
  <2>4. c[n] = IF n * K <= m THEN n * K ELSE m
    BY <2>1
  <2>5. QED
    BY <1>1, <1>4, <2>2, <2>3, <2>4
<1> HIDE DEF c
<1>8. ASSUME NEW i \in 1..n
      PROVE  /\ nodes[i] = Leaf(SubSeq(t, lo(i) + 1, hi(i)))
             /\ Holds(nodes[i], SubSeq(t, lo(i) + 1, hi(i))) /\ nodes[i] \in Trees
  <2> DEFINE a == lo(i)
             b == hi(i)
             u == SubSeq(t, a + 1, b)
  <2>1. nodes[i] = Leaf(u)
    BY <1>3, <1>5
  <2>2. a \in Nat /\ b \in Nat /\ a <= b /\ b <= m /\ b - a \in 1..K
    <3>1. a \in Nat /\ b \in 0..m /\ b - a \in 1..K
      BY <1>5
    <3> HIDE DEF a, b
    <3>2. QED
      BY <1>1, <3>1
  <2> HIDE DEF a, b
  <2>3. u \in Text /\ Len(u) = b - a
    BY <2>2, PartText DEF m
  <2>4. Holds(Leaf(u), u)
    <3>1. Len(u) \in 1..LeafMax
      BY <2>2, <2>3 DEF K
    <3> HIDE DEF u
    <3>2. QED
      BY <2>3, <3>1, HoldsLeaf
  <2>5. QED
    BY <2>1, <2>4 DEF a, b, Holds
<1>9. nodes \in Seq(Trees) /\ Len(nodes) = n
  <2> HIDE DEF nodes
  <2>1. DOMAIN nodes = 1..n
    BY <1>3
  <2>2. nodes = [i \in 1..n |-> nodes[i]]
    BY <1>3, <2>1
  <2>3. nodes \in [1..n -> Trees]
    BY <1>8, <2>2
  <2>4. QED
    BY <1>2, <2>1, <2>3
<1>10. Cuts(nodes, t, c)
  <2>1. ASSUME NEW i \in 1..n
        PROVE  /\ c[i - 1] \in 0..m /\ c[i] \in 0..m /\ c[i - 1] <= c[i]
               /\ Holds(nodes[i], SubSeq(t, c[i - 1] + 1, c[i]))
    <3> DEFINE a == lo(i)
               b == hi(i)
    <3>1. a \in Nat /\ b \in 0..m /\ b - a \in 1..K /\ c[i - 1] = a /\ c[i] = b
      BY <1>5, <1>6
    <3>2. Holds(nodes[i], SubSeq(t, a + 1, b))
      BY <1>8
    <3> HIDE DEF a, b, nodes
    <3>3. a \in 0..m /\ a <= b
      BY <1>1, <3>1
    <3>4. QED
      BY <3>1, <3>2, <3>3
  <2> HIDE DEF nodes
  <2>2. QED
    BY <1>7, <1>9, <2>1 DEF Cuts, m
<1>11. QED
  <2> HIDE DEF nodes
  <2>1. Len(nodes) > 0
    BY <1>4, <1>9
  <2>2. QED
    BY <1>9, <1>10, <2>1 DEF Row, nodes

LEMMA PairedTrees ==
  ASSUME NEW nodes \in Seq(Trees)
  PROVE  /\ Paired(nodes) \in Seq(Trees)
         /\ Len(Paired(nodes)) = (Len(nodes) + 1) \div 2 /\ Len(Paired(nodes)) \in Nat
         /\ 2 * Len(Paired(nodes)) \in Len(nodes)..(Len(nodes) + 1)
         /\ \A i \in 1..Len(Paired(nodes)) :
              Paired(nodes)[i] = IF 2 * i <= Len(nodes) THEN Branch(nodes[2 * i - 1], nodes[2 * i])
                                 ELSE nodes[2 * i - 1]
<1> DEFINE m == Len(nodes)
           k == (m + 1) \div 2
           New(i) == IF 2 * i <= m THEN Branch(nodes[2 * i - 1], nodes[2 * i]) ELSE nodes[2 * i - 1]
           r == [i \in 1..k |-> New(i)]
<1>1. m \in Nat /\ k \in Nat /\ 2 * k \in m..(m + 1)
  <2>1. m \in Nat
    OBVIOUS
  <2> HIDE DEF m
  <2>2. QED
    BY <2>1
<1>2. Paired(nodes) = r
  BY DEF Paired
<1>3. ASSUME NEW i \in 1..k PROVE New(i) \in Trees
  <2>1. 2 * i - 1 \in 1..m /\ (2 * i <= m => 2 * i \in 1..m)
    <3> HIDE DEF m, k
    <3>1. QED
      BY <1>1
  <2>2. nodes[2 * i - 1] \in Trees /\ (2 * i <= m => nodes[2 * i] \in Trees)
    BY <2>1
  <2>3. QED
    BY <2>2, BranchTree
<1> HIDE DEF k, New
<1>4. r \in Seq(Trees) /\ Len(r) = k /\ \A i \in 1..k : r[i] = New(i)
  <2>1. r \in [1..k -> Trees] /\ DOMAIN r = 1..k
    BY <1>3
  <2>2. QED
    BY <1>1, <2>1
<1> HIDE DEF r
<1>5. QED
  BY <1>1, <1>2, <1>4 DEF k, New

LEMMA PairedRow ==
  ASSUME NEW t \in Text, NEW nodes, Row(nodes, t)
  PROVE  Row(Paired(nodes), t)
<1> DEFINE m == Len(nodes)
           next == Paired(nodes)
           k == Len(next)
<1>1. /\ nodes \in Seq(Trees) /\ m \in Nat /\ m > 0
      /\ next \in Seq(Trees) /\ k \in Nat /\ 2 * k \in m..(m + 1)
      /\ \A i \in 1..k : next[i] = IF 2 * i <= m THEN Branch(nodes[2 * i - 1], nodes[2 * i])
                                   ELSE nodes[2 * i - 1]
  <2>1. nodes \in Seq(Trees) /\ m > 0
    BY DEF Row
  <2>2. QED
    BY <2>1, PairedTrees
<1>2. PICK c : Cuts(nodes, t, c)
  BY DEF Row
<1> DEFINE d == [i \in 0..k |-> IF 2 * i <= m THEN c[2 * i] ELSE c[m]]
<1> HIDE DEF m, next, k
<1>3. ASSUME NEW i \in 1..m
      PROVE  /\ c[i - 1] \in 0..Len(t) /\ c[i] \in 0..Len(t) /\ c[i - 1] <= c[i]
             /\ Holds(nodes[i], SubSeq(t, c[i - 1] + 1, c[i]))
  BY <1>2 DEF Cuts, m
<1>4. c[0] = 0 /\ c[m] = Len(t) /\ Len(t) \in Nat
  BY <1>2 DEF Cuts, m, Text
<1>5. d[0] = 0 /\ d[k] = Len(t)
  <2>1. 0 \in 0..k /\ k \in 0..k /\ 2 * 0 = 0 /\ 0 <= m /\ (2 * k <= m => 2 * k = m)
    BY <1>1
  <2>2. QED
    BY <1>4, <2>1
<1>6. ASSUME NEW i \in 1..k
      PROVE  /\ d[i - 1] \in 0..Len(t) /\ d[i] \in 0..Len(t) /\ d[i - 1] <= d[i]
             /\ Holds(next[i], SubSeq(t, d[i - 1] + 1, d[i]))
  <2> DEFINE j == 2 * i
             a == c[j - 2]
             b == c[j - 1]
             e == c[j]
  <2>1. /\ i \in 0..k /\ i - 1 \in 0..k /\ 2 * (i - 1) = j - 2 /\ j - 2 <= m
        /\ j - 1 \in 1..m /\ (j - 1) - 1 = j - 2
        /\ (j <= m => j \in 1..m) /\ (~ (j <= m) => j - 1 = m)
    <3>1. m \in Nat /\ k \in Nat /\ 2 * k \in m..(m + 1) /\ i \in 1..k
      BY <1>1
    <3>2. 2 * (i - 1) = j - 2 /\ j \in Nat /\ j >= 2 /\ j <= m + 1
      BY <3>1
    <3>3. i \in 0..k /\ i - 1 \in 0..k
      BY <3>1
    <3> HIDE DEF j
    <3>4. QED
      BY <3>1, <3>2, <3>3
  <2>2. d[i - 1] = a /\ d[i] = IF j <= m THEN e ELSE b
    BY <2>1
  <2>3. a \in 0..Len(t) /\ b \in 0..Len(t) /\ a <= b /\ Holds(nodes[j - 1], SubSeq(t, a + 1, b))
    BY <1>3, <2>1
  <2>4. CASE j <= m
    <3>1. e \in 0..Len(t) /\ b <= e /\ Holds(nodes[j], SubSeq(t, b + 1, e))
      BY <1>3, <2>1, <2>4
    <3>2. next[i] = Branch(nodes[j - 1], nodes[j])
      BY <1>1, <2>4
    <3> HIDE DEF j, a, b, e, d
    <3>3. a \in Nat /\ b \in Nat /\ e \in Nat /\ e <= Len(t) /\ a <= e
      BY <1>4, <2>3, <3>1
    <3>4. SubSeq(t, a + 1, e) = SubSeq(t, a + 1, b) \o SubSeq(t, b + 1, e)
      BY <2>3, <3>1, <3>3, PartsJoin
    <3>5. Holds(next[i], SubSeq(t, a + 1, e))
      BY <2>3, <3>1, <3>2, <3>4, HoldsBranch
    <3>6. QED
      BY <2>2, <2>3, <2>4, <3>1, <3>3, <3>5
  <2>5. CASE ~ (j <= m)
    <3>1. next[i] = nodes[j - 1]
      BY <1>1, <2>5
    <3> HIDE DEF j, a, b, e, d
    <3>2. QED
      BY <2>2, <2>3, <2>5, <3>1
  <2>6. QED
    BY <2>4, <2>5
<1> HIDE DEF d
<1>7. Cuts(next, t, d)
  BY <1>5, <1>6 DEF Cuts, k
<1>8. k > 0
  BY <1>1
<1>9. QED
  BY <1>1, <1>7, <1>8 DEF Row, next, k

LEMMA RowOfOne ==
  ASSUME NEW t \in Text, NEW nodes, Row(nodes, t), Len(nodes) = 1
  PROVE  Holds(nodes[1], t)
<1>1. PICK c : Cuts(nodes, t, c)
  BY DEF Row
<1>2. /\ c[0] = 0 /\ c[1] = Len(t)
      /\ \A i \in 1..1 : Holds(nodes[i], SubSeq(t, c[i - 1] + 1, c[i]))
  BY <1>1 DEF Cuts
<1>3. 1 \in 1..1 /\ 1 - 1 = 0 /\ 0 + 1 = 1
  OBVIOUS
<1>4. Holds(nodes[1], SubSeq(t, 1, Len(t)))
  BY <1>2, <1>3
<1>5. SubSeq(t, 1, Len(t)) = t
  <2>1. 0 \in Nat /\ 0 <= Len(t)
    BY DEF Text
  <2>2. QED
    BY <2>1, WholePart
<1>6. QED
  BY <1>4, <1>5

LEMMA MergeHolds ==
  ASSUME NEW t \in Text, NEW nodes, Row(nodes, t)
  PROVE  Holds(MergePairs(nodes), t)
<1> DEFINE m == Len(nodes)
           V == Seq(Trees)
           After(last) == IF Len(last) = 1 THEN last ELSE Paired(last)
           G == [last \in V |-> After(last)]
           B == CHOOSE g : g = [n \in Nat |-> IF n = 0 THEN nodes ELSE After(g[n - 1])]
<1>1. nodes \in V /\ m \in Nat /\ m > 0
  BY DEF Row
<1>2. G \in [V -> V]
  <2>1. ASSUME NEW last \in V PROVE After(last) \in V
    BY PairedTrees
  <2> HIDE DEF V, After
  <2>2. QED
    BY <2>1
<1>3. PICK f \in [Nat -> V] : \A n \in Nat : f[n] = IF n = 0 THEN nodes ELSE G[f[n - 1]]
  <2> HIDE DEF G, V
  <2>1. \E f : Iterates(V, nodes, G, f)
    BY <1>1, <1>2, Iteration
  <2>2. QED
    BY <2>1 DEF Iterates
<1>4. ASSUME NEW n \in Nat PROVE f[n] = IF n = 0 THEN nodes ELSE After(f[n - 1])
  <2>1. n # 0 => n - 1 \in Nat
    OBVIOUS
  <2>2. n # 0 => f[n - 1] \in V
    BY <2>1
  <2> HIDE DEF V, After
  <2>3. QED
    BY <1>3, <2>1, <2>2
<1>5. f = [n \in Nat |-> IF n = 0 THEN nodes ELSE After(f[n - 1])]
  <2> HIDE DEF V, After
  <2>1. QED
    BY <1>4
<1>6. B = [n \in Nat |-> IF n = 0 THEN nodes ELSE After(B[n - 1])]
  <2> HIDE DEF After
  <2>1. QED
    BY <1>5
<1>7. MergePairs(nodes) = B[m][1]
  BY DEF MergePairs
<1>8. ASSUME NEW n \in Nat PROVE B[n] = IF n = 0 THEN nodes ELSE After(B[n - 1])
  <2> HIDE DEF B, After
  <2>1. QED
    BY <1>6
<1> HIDE DEF B, m
<1> DEFINE S == {n \in Nat : Row(B[n], t) /\ (Len(B[n]) = 1 \/ Len(B[n]) + n <= m)}
<1>9. 0 \in S
  <2>1. B[0] = nodes
    BY <1>8
  <2>2. QED
    BY <1>1, <2>1 DEF m
<1>10. ASSUME NEW n \in Nat, n \in S PROVE n + 1 \in S
  <2> DEFINE last == B[n]
             k == Len(last)
  <2>1. B[n + 1] = After(last)
    <3>1. n + 1 \in Nat /\ n + 1 # 0 /\ (n + 1) - 1 = n
      OBVIOUS
    <3> HIDE DEF After
    <3>2. QED
      BY <1>8, <3>1
  <2>2. Row(last, t) /\ (k = 1 \/ k + n <= m)
    BY <1>10
  <2>3. last \in V /\ k \in Nat /\ k > 0
    BY <2>2 DEF Row
  <2> HIDE DEF last
  <2>4. CASE k = 1
    BY <2>1, <2>2, <2>4
  <2>5. CASE k # 1
    <3> DEFINE next == Paired(last)
               h == Len(next)
    <3>1. B[n + 1] = next
      BY <2>1, <2>5
    <3>2. Row(next, t)
      BY <2>2, PairedRow
    <3>3. h \in Nat /\ 2 * h \in k..(k + 1)
      BY <2>3, PairedTrees
    <3> HIDE DEF k, next, h
    <3>4. h + (n + 1) <= m
      BY <1>1, <2>2, <2>3, <2>5, <3>3
    <3>5. Row(B[n + 1], t) /\ Len(B[n + 1]) + (n + 1) <= m /\ n + 1 \in Nat
      BY <3>1, <3>2, <3>4 DEF h
    <3>6. QED
      BY <3>5
  <2>6. QED
    BY <2>4, <2>5
<1>11. m \in S
  <2> HIDE DEF S
  <2>1. QED
    BY <1>1, <1>9, <1>10, NatInductiveSet
<1>12. Row(B[m], t) /\ Len(B[m]) = 1
  <2> DEFINE k == Len(B[m])
  <2>1. Row(B[m], t) /\ (k = 1 \/ k + m <= m)
    BY <1>11
  <2>2. k \in Nat /\ k > 0
    BY <2>1 DEF Row
  <2> HIDE DEF k
  <2>3. k = 1
    BY <1>1, <2>1, <2>2
  <2>4. QED
    BY <2>1, <2>3 DEF k
<1>13. QED
  BY <1>7, <1>12, RowOfOne

LEMMA BuildCarries ==
  ASSUME NEW t \in Text
  PROVE  Carries(BuildRope(t), t)
<1>1. CASE t = <<>>
  BY <1>1 DEF BuildRope, Carries
<1>2. CASE t # <<>>
  BY <1>2, ChunksRow, MergeHolds DEF BuildRope, Carries
<1>3. QED
  BY <1>1, <1>2

----------------------------------------------------------------------------
(* Reading *)

(* A tree for a text t, however its leaves are filled, as the walks see it. *)
LEMMA WalkTree ==
  ASSUME NEW x \in Trees
  PROVE  /\ Flat(x) \in Text /\ Len(Flat(x)) \in Nat
         /\ IsLeaf(x) => x.buf = Flat(x) /\ Newlines(x) = NewlinesBefore(Flat(x), Len(Flat(x)))
         /\ ~ IsLeaf(x) =>
              /\ x.left \in Trees /\ x.right \in Trees
              /\ Flat(x) = Flat(x.left) \o Flat(x.right) /\ x.left_len = Len(Flat(x.left))
              /\ Newlines(x.left) = NewlinesBefore(Flat(x.left), Len(Flat(x.left)))
<1>1. Flat(x) \in Text /\ Len(Flat(x)) \in Nat
  BY FlatIsText DEF Text
<1>2. IsLeaf(x) => x.buf = Flat(x) /\ Newlines(x) = NewlinesBefore(Flat(x), Len(Flat(x)))
  <2>1. SUFFICES ASSUME IsLeaf(x) PROVE x.buf = Flat(x)
    BY FiguresRight
  <2>2. x.buf \in Text /\ x = Leaf(x.buf)
    BY <2>1, LeafParts
  <2>3. QED
    BY <2>2, FlatLeaf
<1>3. ASSUME ~ IsLeaf(x)
      PROVE  /\ x.left \in Trees /\ x.right \in Trees
             /\ Flat(x) = Flat(x.left) \o Flat(x.right) /\ x.left_len = Len(Flat(x.left))
             /\ Newlines(x.left) = NewlinesBefore(Flat(x.left), Len(Flat(x.left)))
  <2>1. x.left \in Trees /\ x.right \in Trees /\ x = Branch(x.left, x.right)
    BY <1>3, BranchParts
  <2>2. Flat(x) = Flat(x.left) \o Flat(x.right)
    BY <2>1, FlatBranch
  <2>3. x.left_len = TextLen(x.left)
    BY <1>3, LeftLength
  <2>4. QED
    BY <2>1, <2>2, <2>3, FiguresRight
<1>4. QED
  BY <1>1, <1>2, <1>3

(* The part of a text from i to j, or to its end.                           *)
PartOf(t, i, j) == SubSeq(t, i + 1, IF j <= Len(t) THEN j ELSE Len(t))

LEMMA PartOfJoined ==
  ASSUME NEW u \in Text, NEW v \in Text, NEW i \in Nat, NEW j \in Nat, i < j
  PROVE  PartOf(u \o v, i, j)
           = (IF i < Len(u) THEN PartOf(u, i, IF j <= Len(u) THEN j ELSE Len(u)) ELSE <<>>)
             \o (IF j > Len(u)
                 THEN PartOf(v, IF i - Len(u) >= 0 THEN i - Len(u) ELSE 0, j - Len(u)) ELSE <<>>)
<1> DEFINE t == u \o v
           m == Len(u)
           n == Len(v)
           k == IF j <= m + n THEN j ELSE m + n
           part == PartOf(t, i, j)
<1>1. t \in Text /\ Len(t) = m + n /\ m \in Nat /\ n \in Nat
  BY JoinText DEF Text
<1>2. part = SubSeq(t, i + 1, k)
  BY <1>1 DEF PartOf
<1>3. k \in Nat /\ k <= m + n
  <2> HIDE DEF m, n
  <2>1. QED
    BY <1>1
<1> HIDE DEF part, t
<1>4. CASE j <= m
  <2> DEFINE p == SubSeq(u, i + 1, j)
  <2>1. i < m /\ ~ (j > m) /\ k = j /\ i <= j
    <3> HIDE DEF m, n
    <3>1. QED
      BY <1>1, <1>4
  <2>2. part = p
    BY <1>2, <1>4, <2>1, JoinedParts DEF t
  <2>3. p \in Text
    BY <1>4, <2>1, PartText
  <2>4. p \o <<>> = p
    <3> HIDE DEF p
    <3>1. QED
      BY <2>3 DEF Text
  <2>5. PartOf(u, i, IF j <= m THEN j ELSE m) = p
    BY <1>4 DEF PartOf
  <2> HIDE DEF p, m
  <2>6. QED
    BY <1>4, <2>1, <2>2, <2>4, <2>5 DEF part, t, m
<1>5. CASE j > m /\ i < m
  <2> DEFINE p == SubSeq(u, i + 1, m)
             q == SubSeq(v, 1, k - m)
             e == k - m
  <2>1. /\ i <= m /\ m <= k /\ e \in Nat /\ e <= n /\ m + e = k /\ ~ (j <= m) /\ ~ (i - m >= 0)
        /\ e = IF j - m <= n THEN j - m ELSE n
    <3> HIDE DEF m, n
    <3>1. QED
      BY <1>1, <1>5
  <2>2. part = SubSeq(t, i + 1, m) \o SubSeq(t, m + 1, k)
    <3> HIDE DEF k, m
    <3>1. k <= Len(t) /\ t \in Text /\ m \in Nat /\ k \in Nat /\ i <= m /\ m <= k
      BY <1>1, <1>3, <2>1
    <3>2. SubSeq(t, i + 1, k) = SubSeq(t, i + 1, m) \o SubSeq(t, m + 1, k)
      BY <3>1, PartsJoin
    <3>3. QED
      BY <1>2, <3>2
  <2>3. SubSeq(t, i + 1, m) = p
    BY <1>1, <2>1, JoinedParts DEF t
  <2>4. SubSeq(t, m + 1, k) = q
    <3> HIDE DEF k
    <3>1. SubSeq(u \o v, Len(u) + 1, Len(u) + e) = SubSeq(v, 1, e)
      <4> HIDE DEF e
      <4>1. QED
        BY <2>1, JoinedHead
    <3>2. QED
      BY <2>1, <3>1 DEF t
  <2>5. PartOf(u, i, m) = p
    BY <1>1 DEF PartOf
  <2>6. PartOf(v, 0, j - m) = q
    <3>1. PartOf(v, 0, j - m) = SubSeq(v, 0 + 1, IF j - m <= n THEN j - m ELSE n)
      BY DEF PartOf
    <3>2. 0 + 1 = 1
      OBVIOUS
    <3>3. QED
      BY <2>1, <3>1, <3>2
  <2> HIDE DEF p, q, e, k, m
  <2>7. QED
    BY <1>5, <2>1, <2>2, <2>3, <2>4, <2>5, <2>6 DEF part, t, m
<1>6. CASE j > m /\ i >= m
  <2> DEFINE a == i - m
             e == k - m
             q == SubSeq(v, a + 1, e)
  <2>1. /\ a \in Nat /\ e \in Nat /\ e <= n /\ m + e = k /\ m + a = i /\ a >= 0 /\ ~ (i < m)
        /\ e = IF j - m <= n THEN j - m ELSE n
    <3> HIDE DEF m, n
    <3>1. QED
      BY <1>1, <1>6
  <2>2. PartOf(v, a, j - m) = q
    BY <2>1 DEF PartOf
  <2>3. part = q /\ q \in Text
    <3>1. CASE a <= e
      <4> HIDE DEF a, e, k
      <4>1. SubSeq(u \o v, Len(u) + a + 1, Len(u) + e) = SubSeq(v, a + 1, e)
        BY <2>1, <3>1, JoinedParts
      <4>2. SubSeq(v, a + 1, e) \in Text
        BY <2>1, <3>1, PartText
      <4>3. Len(u) + a = i /\ Len(u) + e = k
        BY <2>1
      <4>4. QED
        BY <1>2, <4>1, <4>2, <4>3 DEF t
    <3>2. CASE ~ (a <= e)
      <4> HIDE DEF a, e, k
      <4>1. k < i + 1 /\ e < a + 1 /\ i + 1 \in Int /\ k \in Int /\ a + 1 \in Int /\ e \in Int
        BY <1>1, <2>1, <3>2
      <4>2. SubSeq(t, i + 1, k) = <<>> /\ SubSeq(v, a + 1, e) = <<>>
        BY <4>1, SubSeqEmpty
      <4>3. <<>> \in Text
        BY DEF Text
      <4>4. QED
        BY <1>2, <4>2, <4>3
    <3>3. QED
      BY <3>1, <3>2
  <2>4. <<>> \o q = q
    <3> HIDE DEF q
    <3>1. QED
      BY <2>3 DEF Text
  <2> HIDE DEF a, e, k, q, m
  <2>5. QED
    BY <1>6, <2>1, <2>2, <2>3, <2>4 DEF part, t, m, a
<1>7. QED
  <2> HIDE DEF m
  <2>1. j <= m \/ (j > m /\ i < m) \/ (j > m /\ i >= m)
    BY <1>1
  <2>2. QED
    BY <1>4, <1>5, <1>6, <2>1

CollectStep(x, i, j, a, b) ==
  IF i >= j THEN <<>>
  ELSE IF IsLeaf(x) THEN SubSeq(x.buf, i + 1, Min({j, Len(x.buf)}))
  ELSE (IF i < x.left_len THEN a ELSE <<>>) \o (IF j > x.left_len THEN b ELSE <<>>)

LEMMA CollectStepIs ==
  ASSUME NEW x \in Trees, NEW i \in Nat, NEW j \in Nat, NEW a, NEW b,
         IsLeaf(x) \/ a = PartOf(Flat(x.left), i, Min({j, x.left_len})),
         IsLeaf(x) \/ ~ (j > x.left_len)
           \/ b = PartOf(Flat(x.right), Max({i - x.left_len, 0}), j - x.left_len)
  PROVE  CollectStep(x, i, j, a, b) = PartOf(Flat(x), i, j)
<1> DEFINE t == Flat(x)
<1>1. t \in Text /\ Len(t) \in Nat
  BY WalkTree
<1>2. CASE i >= j
  <2> DEFINE k == IF j <= Len(t) THEN j ELSE Len(t)
  <2>1. k < i + 1 /\ k \in Int /\ i + 1 \in Int
    <3> HIDE DEF t
    <3>1. QED
      BY <1>1, <1>2
  <2>2. SubSeq(t, i + 1, k) = <<>>
    <3> HIDE DEF k
    <3>1. QED
      BY <2>1, SubSeqEmpty
  <2>3. QED
    BY <1>2, <2>2 DEF CollectStep, PartOf
<1>3. CASE ~ (i >= j) /\ IsLeaf(x)
  <2>1. x.buf = t
    BY <1>3, WalkTree
  <2> HIDE DEF t
  <2>2. Min({j, Len(t)}) = IF j <= Len(t) THEN j ELSE Len(t)
    BY <1>1, SmallerOf
  <2>3. QED
    BY <1>3, <2>1, <2>2 DEF CollectStep, PartOf, t
<1>4. CASE ~ (i >= j) /\ ~ IsLeaf(x)
  <2> DEFINE u == Flat(x.left)
             v == Flat(x.right)
             m == Len(u)
  <2>1. u \in Text /\ v \in Text /\ m \in Nat /\ t = u \o v /\ x.left_len = m
    BY <1>4, WalkTree
  <2> HIDE DEF t, u, v, m
  <2>2. Min({j, m}) = (IF j <= m THEN j ELSE m) /\ Max({i - m, 0}) = (IF i - m >= 0 THEN i - m ELSE 0)
    <3>1. i - m \in Int
      BY <2>1
    <3>2. QED
      BY <2>1, <3>1, SmallerOf, LargerOf
  <2>3. /\ a = PartOf(u, i, IF j <= m THEN j ELSE m)
        /\ j > m => b = PartOf(v, IF i - m >= 0 THEN i - m ELSE 0, j - m)
    BY <1>4, <2>1, <2>2 DEF u, v
  <2>4. i < j
    BY <1>4
  <2>5. PartOf(t, i, j) = (IF i < m THEN a ELSE <<>>) \o (IF j > m THEN b ELSE <<>>)
    BY <2>1, <2>3, <2>4, PartOfJoined, ZenonT(60) DEF m
  <2>6. QED
    BY <1>4, <2>1, <2>5 DEF CollectStep, t
<1>5. QED
  BY <1>2, <1>3, <1>4

LEMMA CollectIs ==
  ASSUME NEW x \in Trees, NEW i \in Nat, NEW j \in Nat
  PROVE  CollectRange(x, i, j) = PartOf(Flat(x), i, j)
<1> DEFINE D == Nodes(x)
           N == Nat \X Nat
           Step(y, g) == [q \in N |-> CollectStep(y, q[1], q[2],
                            g[y.left][<<q[1], Min({q[2], y.left_len})>>],
                            g[y.right][<<Max({q[1] - y.left_len, 0}), q[2] - y.left_len>>])]
           f == [y \in D |-> [q \in N |-> PartOf(Flat(y), q[1], q[2])]]
           A == CHOOSE g : g = [y \in D |-> Step(y, g)]
           S == {y \in D : \A q \in N : A[y][q] = PartOf(Flat(y), q[1], q[2])}
<1>1. x \in D /\ D \subseteq Trees /\ ClosedBelow(D)
  BY NodesAre
<1> HIDE DEF D
<1>2. ASSUME NEW y \in D, ~ IsLeaf(y), NEW k \in Nat, NEW n \in Nat
      PROVE  /\ y.left \in D /\ y.right \in D /\ y \in Trees
             /\ <<k, Min({n, y.left_len})>> \in N
             /\ n > y.left_len => <<Max({k - y.left_len, 0}), n - y.left_len>> \in N
  <2>1. y.left \in D /\ y.right \in D /\ y \in Trees /\ y.left_len \in Nat
    BY <1>1, <1>2, LeftLength DEF ClosedBelow
  <2> DEFINE m == y.left_len
  <2> HIDE DEF m
  <2>2. m \in Nat /\ k - m \in Int /\ 0 \in Int
    BY <2>1 DEF m
  <2>3. Min({n, m}) \in Nat
    BY <2>2, SmallerOf
  <2>4. Max({k - m, 0}) \in Nat
    <3>1. Max({k - m, 0}) = IF k - m >= 0 THEN k - m ELSE 0
      BY <2>2, LargerOf
    <3>2. QED
      BY <2>2, <3>1
  <2>5. n > m => n - m \in Nat
    BY <2>2
  <2>6. QED
    BY <2>1, <2>3, <2>4, <2>5 DEF m
<1>3. f = [y \in D |-> Step(y, f)]
  <2>1. ASSUME NEW y \in D, NEW k \in Nat, NEW n \in Nat
        PROVE  PartOf(Flat(y), k, n)
                 = CollectStep(y, k, n, f[y.left][<<k, Min({n, y.left_len})>>],
                               f[y.right][<<Max({k - y.left_len, 0}), n - y.left_len>>])
    <3>1. IsLeaf(y) \/ f[y.left][<<k, Min({n, y.left_len})>>]
                         = PartOf(Flat(y.left), k, Min({n, y.left_len}))
      BY <1>2
    <3>2. IsLeaf(y) \/ ~ (n > y.left_len) \/
            f[y.right][<<Max({k - y.left_len, 0}), n - y.left_len>>]
              = PartOf(Flat(y.right), Max({k - y.left_len, 0}), n - y.left_len)
      BY <1>2
    <3>3. y \in Trees
      BY <1>1
    <3> HIDE DEF f
    <3>4. QED
      BY <3>1, <3>2, <3>3, CollectStepIs
  <2>2. ASSUME NEW y \in D PROVE f[y] = Step(y, f)
    <3> DEFINE g == f
    <3>1. f[y] = [q \in N |-> PartOf(Flat(y), q[1], q[2])]
      OBVIOUS
    <3> HIDE DEF f
    <3>2. ASSUME NEW q \in N
          PROVE  PartOf(Flat(y), q[1], q[2]) = CollectStep(y, q[1], q[2],
                            f[y.left][<<q[1], Min({q[2], y.left_len})>>],
                            f[y.right][<<Max({q[1] - y.left_len, 0}), q[2] - y.left_len>>])
      BY <2>1
    <3>3. QED
      BY <3>1, <3>2
  <2>3. f = [y \in D |-> f[y]]
    OBVIOUS
  <2> HIDE DEF f, Step
  <2>4. QED
    BY <2>2, <2>3
<1>4. A = [y \in D |-> Step(y, A)]
  <2> HIDE DEF f, Step
  <2>1. QED
    BY <1>3
<1>5. CollectRange(x, i, j) = A[x][<<i, j>>]
  <2> DEFINE B == CHOOSE g : g = [y \in Nodes(x) |-> Step(y, g)]
  <2>1. CollectRange(x, i, j) = B[x][<<i, j>>]
    BY DEF CollectRange, CollectStep
  <2>2. QED
    BY <2>1 DEF D
<1> HIDE DEF A, f
<1>6. ASSUME NEW y \in D, NEW k \in Nat, NEW n \in Nat
      PROVE  A[y][<<k, n>>] = CollectStep(y, k, n, A[y.left][<<k, Min({n, y.left_len})>>],
                                 A[y.right][<<Max({k - y.left_len, 0}), n - y.left_len>>])
  <2>1. A[y] = Step(y, A)
    <3> HIDE DEF Step
    <3>1. QED
      BY <1>4
  <2>2. <<k, n>> \in N
    OBVIOUS
  <2>3. QED
    BY <2>1, <2>2
<1>7. ASSUME NEW y \in D, IsLeaf(y) \/ (y.left \in S /\ y.right \in S) PROVE y \in S
  <2>1. ASSUME NEW k \in Nat, NEW n \in Nat PROVE A[y][<<k, n>>] = PartOf(Flat(y), k, n)
    <3>1. IsLeaf(y) \/ A[y.left][<<k, Min({n, y.left_len})>>]
                         = PartOf(Flat(y.left), k, Min({n, y.left_len}))
      BY <1>2, <1>7
    <3>2. IsLeaf(y) \/ ~ (n > y.left_len) \/
            A[y.right][<<Max({k - y.left_len, 0}), n - y.left_len>>]
              = PartOf(Flat(y.right), Max({k - y.left_len, 0}), n - y.left_len)
      <4>1. SUFFICES ASSUME ~ IsLeaf(y), n > y.left_len
                     PROVE  A[y.right][<<Max({k - y.left_len, 0}), n - y.left_len>>]
                              = PartOf(Flat(y.right), Max({k - y.left_len, 0}), n - y.left_len)
        OBVIOUS
      <4> DEFINE c == Max({k - y.left_len, 0})
                 e == n - y.left_len
      <4>2. <<c, e>> \in N
        BY <1>2, <4>1
      <4>3. \A q \in N : A[y.right][q] = PartOf(Flat(y.right), q[1], q[2])
        BY <1>7, <4>1
      <4> HIDE DEF c, e, S, N
      <4>4. A[y.right][<<c, e>>] = PartOf(Flat(y.right), <<c, e>>[1], <<c, e>>[2])
        BY <4>2, <4>3
      <4>5. QED
        BY <4>4 DEF c, e
    <3>3. y \in Trees
      BY <1>1
    <3> HIDE DEF S
    <3>4. QED
      BY <1>6, <3>1, <3>2, <3>3, CollectStepIs
  <2>2. QED
    BY <2>1
<1>8. x \in S
  <2> HIDE DEF S, N
  <2>1. Rises(Nodes(x), S)
    BY <1>7 DEF Rises, D
  <2>2. QED
    BY <1>1, <2>1, NodesInduction DEF D
<1>9. QED
  BY <1>5, <1>8

(* The newlines before an offset, or in the whole text.                     *)
CountAt(t, p) == NewlinesBefore(t, IF p <= Len(t) THEN p ELSE Len(t))

CountStep(x, p, a, b) ==
  IF IsLeaf(x) THEN NewlinesBefore(x.buf, Min({p, Len(x.buf)}))
  ELSE IF p <= x.left_len THEN a ELSE Newlines(x.left) + b

LEMMA CountStepIs ==
  ASSUME NEW x \in Trees, NEW p \in Nat, NEW a, NEW b,
         IsLeaf(x) \/ a = CountAt(Flat(x.left), p),
         IsLeaf(x) \/ p <= x.left_len \/ b = CountAt(Flat(x.right), p - x.left_len)
  PROVE  CountStep(x, p, a, b) = CountAt(Flat(x), p)
<1> DEFINE t == Flat(x)
<1>1. t \in Text /\ Len(t) \in Nat
  BY WalkTree
<1>2. CASE IsLeaf(x)
  <2>1. x.buf = t
    BY <1>2, WalkTree
  <2> HIDE DEF t
  <2>2. Min({p, Len(t)}) = IF p <= Len(t) THEN p ELSE Len(t)
    BY <1>1, SmallerOf
  <2>3. QED
    BY <1>2, <2>1, <2>2 DEF CountStep, CountAt, t
<1>3. CASE ~ IsLeaf(x)
  <2> DEFINE u == Flat(x.left)
             v == Flat(x.right)
             m == Len(u)
             n == Len(v)
  <2>1. /\ u \in Text /\ v \in Text /\ m \in Nat /\ t = u \o v /\ x.left_len = m
        /\ Newlines(x.left) = NewlinesBefore(u, m)
    BY <1>3, WalkTree
  <2>2. n \in Nat /\ Len(t) = m + n
    BY <2>1, JoinText DEF Text
  <2> HIDE DEF t, u, v, m, n
  <2>3. CASE p <= m
    <3>1. CountStep(x, p, a, b) = a /\ a = NewlinesBefore(u, p)
      BY <1>3, <2>1, <2>3 DEF CountStep, CountAt, u, m
    <3>2. NewlinesBefore(u \o v, p) = NewlinesBefore(u, p)
      BY <2>1, <2>3, NewlinesJoined DEF m
    <3>3. p <= Len(t)
      BY <2>1, <2>2, <2>3
    <3>4. QED
      BY <2>1, <3>1, <3>2, <3>3 DEF CountAt, t
  <2>4. CASE ~ (p <= m)
    <3> DEFINE k == IF p - m <= n THEN p - m ELSE n
    <3>1. k \in Nat /\ k <= n /\ m + k = IF p <= Len(t) THEN p ELSE Len(t)
      BY <2>1, <2>2, <2>4
    <3>2. CountStep(x, p, a, b) = NewlinesBefore(u, m) + b
      BY <1>3, <2>1, <2>4 DEF CountStep
    <3>3. b = NewlinesBefore(v, k)
      BY <1>3, <2>1, <2>4 DEF CountAt, v, n
    <3> HIDE DEF k
    <3>4. NewlinesBefore(u \o v, Len(u) + k) = NewlinesBefore(u, Len(u)) + NewlinesBefore(v, k)
      BY <2>1, <3>1, NewlinesJoined DEF n
    <3>5. CountAt(t, p) = NewlinesBefore(t, m + k)
      BY <3>1 DEF CountAt
    <3>6. QED
      BY <2>1, <3>2, <3>3, <3>4, <3>5 DEF m, t
  <2>5. QED
    BY <2>3, <2>4
<1>4. QED
  BY <1>2, <1>3

LEMMA CountIs ==
  ASSUME NEW x \in Trees, NEW p \in Nat
  PROVE  CountNewlinesBefore(x, p) = CountAt(Flat(x), p)
<1> DEFINE D == Nodes(x)
           Step(y, g) == [k \in Nat |-> CountStep(y, k, g[y.left][k], g[y.right][k - y.left_len])]
           f == [y \in D |-> [k \in Nat |-> CountAt(Flat(y), k)]]
           A == CHOOSE g : g = [y \in D |-> Step(y, g)]
           S == {y \in D : \A k \in Nat : A[y][k] = CountAt(Flat(y), k)}
<1>1. x \in D /\ D \subseteq Trees /\ ClosedBelow(D)
  BY NodesAre
<1> HIDE DEF D
<1>2. ASSUME NEW y \in D, ~ IsLeaf(y), NEW k \in Nat
      PROVE  /\ y.left \in D /\ y.right \in D
             /\ ~ (k <= y.left_len) => k - y.left_len \in Nat
  <2>1. y.left \in D /\ y.right \in D /\ y.left_len \in Nat
    BY <1>1, <1>2, LeftLength DEF ClosedBelow
  <2> DEFINE m == y.left_len
  <2>2. m \in Nat
    BY <2>1
  <2> HIDE DEF m
  <2>3. ~ (k <= m) => k - m \in Nat
    BY <2>2
  <2>4. QED
    BY <2>1, <2>3 DEF m
<1>3. f = [y \in D |-> Step(y, f)]
  <2>1. ASSUME NEW y \in D, NEW k \in Nat
        PROVE  CountAt(Flat(y), k) = CountStep(y, k, f[y.left][k], f[y.right][k - y.left_len])
    <3>1. IsLeaf(y) \/ f[y.left][k] = CountAt(Flat(y.left), k)
      BY <1>2
    <3>2. IsLeaf(y) \/ k <= y.left_len \/ f[y.right][k - y.left_len] = CountAt(Flat(y.right), k - y.left_len)
      BY <1>2
    <3>3. y \in Trees
      BY <1>1
    <3> HIDE DEF f
    <3>4. QED
      BY <3>1, <3>2, <3>3, CountStepIs
  <2>2. ASSUME NEW y \in D PROVE f[y] = Step(y, f)
    <3>1. f[y] = [k \in Nat |-> CountAt(Flat(y), k)]
      OBVIOUS
    <3> HIDE DEF f
    <3>2. QED
      BY <2>1, <3>1
  <2>3. f = [y \in D |-> f[y]]
    OBVIOUS
  <2> HIDE DEF f, Step
  <2>4. QED
    BY <2>2, <2>3
<1>4. A = [y \in D |-> Step(y, A)]
  <2> HIDE DEF f, Step
  <2>1. QED
    BY <1>3
<1>5. CountNewlinesBefore(x, p) = A[x][p]
  <2> DEFINE B == CHOOSE g : g = [y \in Nodes(x) |-> Step(y, g)]
  <2>1. CountNewlinesBefore(x, p) = B[x][p]
    BY DEF CountNewlinesBefore, CountStep
  <2>2. QED
    BY <2>1 DEF D
<1> HIDE DEF A, f
<1>6. ASSUME NEW y \in D, NEW k \in Nat
      PROVE  A[y][k] = CountStep(y, k, A[y.left][k], A[y.right][k - y.left_len])
  <2>1. A[y] = Step(y, A)
    <3> HIDE DEF Step
    <3>1. QED
      BY <1>4
  <2>2. QED
    BY <2>1
<1>7. ASSUME NEW y \in D, IsLeaf(y) \/ (y.left \in S /\ y.right \in S) PROVE y \in S
  <2>1. ASSUME NEW k \in Nat PROVE A[y][k] = CountAt(Flat(y), k)
    <3>1. IsLeaf(y) \/ A[y.left][k] = CountAt(Flat(y.left), k)
      BY <1>7
    <3>2. IsLeaf(y) \/ k <= y.left_len \/ A[y.right][k - y.left_len] = CountAt(Flat(y.right), k - y.left_len)
      BY <1>2, <1>7
    <3>3. y \in Trees
      BY <1>1
    <3> HIDE DEF S
    <3>4. QED
      BY <1>6, <3>1, <3>2, <3>3, CountStepIs
  <2>2. QED
    BY <2>1
<1>8. x \in S
  <2> HIDE DEF S
  <2>1. Rises(Nodes(x), S)
    BY <1>7 DEF Rises, D
  <2>2. QED
    BY <1>1, <2>1, NodesInduction DEF D
<1>9. QED
  BY <1>5, <1>8

(* The newline that ends a line is found where the next line starts.        *)
LEMMA LineStarts ==
  ASSUME NEW t \in Text, NEW k \in Nat, k < NewlinesBefore(t, Len(t))
  PROVE  LET s == LineStart(t, k + 1) IN
           s \in 1..Len(t) /\ t[s] = NL /\ NewlinesBefore(t, s) = k + 1
<1>1. Len(t) \in Nat
  BY DEF Text
<1>2. NewlinesBefore(t, Len(t)) \in Nat
  BY <1>1, NewlinesNat
<1>3. k + 1 \in Nat /\ k + 1 < LineCount(t)
  BY <1>2 DEF LineCount
<1>4. PICK o \in 0..Len(t) : NewlinesBefore(t, o) = k + 1
  BY <1>3, RowReached
<1>5. PICK s \in 0..o : IsStart(t, s) /\ NewlinesBefore(t, s) = NewlinesBefore(t, o)
  BY StartBehind
<1>6. s \in 0..Len(t)
  BY <1>1
<1>7. s # 0
  <2>1. NewlinesBefore(t, 0) = 0
    BY NoNewlines
  <2>2. QED
    BY <1>4, <1>5, <2>1
<1>8. LineStart(t, k + 1) = s
  BY <1>4, <1>5, <1>6, LineStartIs
<1>9. QED
  BY <1>4, <1>5, <1>6, <1>7, <1>8 DEF IsStart

LEMMA LineStartFound ==
  ASSUME NEW t \in Text, NEW k \in Nat, NEW s \in 1..Len(t), t[s] = NL, NewlinesBefore(t, s) = k + 1
  PROVE  LineStart(t, k + 1) = s /\ k < NewlinesBefore(t, Len(t))
<1>1. s \in 0..Len(t) /\ IsStart(t, s) /\ Len(t) \in Nat /\ s \in Nat /\ s <= Len(t)
  BY DEF IsStart, Text
<1>2. LineStart(t, k + 1) = s
  BY <1>1, LineStartIs
<1>3. NewlinesBefore(t, s) <= NewlinesBefore(t, Len(t)) /\ NewlinesBefore(t, Len(t)) \in Nat
  BY <1>1, NewlinesGrow, NewlinesNat
<1>4. QED
  BY <1>2, <1>3

(* The offset of newline k of a text, counted from 0.                       *)
NewlineAt(t, k) == IF k < NewlinesBefore(t, Len(t)) THEN LineStart(t, k + 1) - 1 ELSE NoOffset

LEMMA NewlineAtRange ==
  ASSUME NEW t \in Text, NEW k \in Nat
  PROVE  /\ k < NewlinesBefore(t, Len(t)) => NewlineAt(t, k) \in 0..(Len(t) - 1)
         /\ (NewlineAt(t, k) = NoOffset) <=> ~ (k < NewlinesBefore(t, Len(t)))
<1>1. ASSUME k < NewlinesBefore(t, Len(t)) PROVE NewlineAt(t, k) \in 0..(Len(t) - 1)
  <2> DEFINE s == LineStart(t, k + 1)
  <2>1. s \in 1..Len(t) /\ Len(t) \in Nat
    BY <1>1, LineStarts DEF Text
  <2> HIDE DEF s
  <2>2. s - 1 \in 0..(Len(t) - 1)
    BY <2>1
  <2>3. QED
    BY <1>1, <2>2 DEF NewlineAt, s
<1>2. Len(t) \in Nat
  BY DEF Text
<1>3. NoOffset \notin 0..(Len(t) - 1)
  BY <1>2 DEF NoOffset
<1>4. QED
  BY <1>1, <1>3 DEF NewlineAt

LEMMA NewlineInLeaf ==
  ASSUME NEW t \in Text, NEW k \in Nat, k < NewlinesBefore(t, Len(t))
  PROVE  Min({i \in DOMAIN t : NewlinesBefore(t, i) = k + 1}) - 1 = NewlineAt(t, k)
<1> DEFINE s == LineStart(t, k + 1)
           T == {i \in DOMAIN t : NewlinesBefore(t, i) = k + 1}
<1>1. s \in 1..Len(t) /\ t[s] = NL /\ NewlinesBefore(t, s) = k + 1
  BY LineStarts
<1>2. DOMAIN t = 1..Len(t) /\ Len(t) \in Nat
  BY DEF Text
<1> HIDE DEF s
<1>3. ASSUME NEW i \in T PROVE s <= i
  <2>1. i \in 1..Len(t) /\ NewlinesBefore(t, i) = k + 1
    BY <1>2
  <2>2. SUFFICES ASSUME i < s PROVE FALSE
    BY <1>1, <1>2, <2>1
  <2>3. i \in 0..Len(t) /\ s \in 0..Len(t) /\ IsStart(t, s)
    BY <1>1, <1>2, <2>1 DEF IsStart
  <2>4. NewlinesBefore(t, i) # NewlinesBefore(t, s)
    BY <2>2, <2>3, StartUnique
  <2>5. QED
    BY <1>1, <2>1, <2>4
<1>4. s \in T
  BY <1>1, <1>2
<1>5. \A i \in T : i \in Int
  BY <1>2
<1>6. Min(T) = s
  <2>1. Min(T) = CHOOSE i \in T : \A j \in T : i <= j
    BY DEF Min
  <2>2. ASSUME NEW i \in T, \A j \in T : i <= j PROVE i = s
    <3>1. i <= s /\ s <= i /\ i \in Int /\ s \in Int
      BY <1>1, <1>2, <1>3, <1>4, <1>5, <2>2
    <3>2. QED
      BY <3>1
  <2> HIDE DEF T
  <2>3. QED
    BY <1>3, <1>4, <2>1, <2>2
<1>7. QED
  BY <1>6 DEF NewlineAt, s

NthStep(x, k, a, b) ==
  IF IsLeaf(x)
  THEN IF k < Newlines(x) THEN Min({i \in DOMAIN x.buf : NewlinesBefore(x.buf, i) = k + 1}) - 1
       ELSE NoOffset
  ELSE IF k < Newlines(x.left) THEN a
  ELSE IF b = NoOffset THEN NoOffset ELSE x.left_len + b

LEMMA NewlineJoined ==
  ASSUME NEW u \in Text, NEW v \in Text, NEW k \in Nat
  PROVE  LET c == NewlinesBefore(u, Len(u)) IN
           /\ k < c => NewlineAt(u \o v, k) = NewlineAt(u, k)
           /\ ~ (k < c) => NewlineAt(u \o v, k) =
                             IF NewlineAt(v, k - c) = NoOffset THEN NoOffset
                             ELSE Len(u) + NewlineAt(v, k - c)
<1> DEFINE t == u \o v
           m == Len(u)
           n == Len(v)
           c == NewlinesBefore(u, m)
           d == NewlinesBefore(v, n)
<1>1. /\ t \in Text /\ Len(t) = m + n /\ m \in Nat /\ n \in Nat
      /\ (\A i \in 1..m : t[i] = u[i]) /\ (\A i \in 1..n : t[m + i] = v[i])
  BY JoinText DEF Text
<1>2. c \in Nat /\ d \in Nat
  BY <1>1, NewlinesNat
<1>3. /\ \A p \in Nat : p <= m => NewlinesBefore(t, p) = NewlinesBefore(u, p)
      /\ \A p \in Nat : p <= n => NewlinesBefore(t, m + p) = c + NewlinesBefore(v, p)
  BY NewlinesJoined
<1>4. NewlinesBefore(t, Len(t)) = c + d
  <2>1. n <= n
    BY <1>1
  <2>2. QED
    BY <1>1, <1>3, <2>1
<1> HIDE DEF t, m, n, c, d
<1>5. ASSUME k < c PROVE NewlineAt(t, k) = NewlineAt(u, k)
  <2> DEFINE s == LineStart(u, k + 1)
  <2>1. s \in 1..m /\ u[s] = NL /\ NewlinesBefore(u, s) = k + 1
    BY <1>5, LineStarts DEF c, m
  <2> HIDE DEF s
  <2>2. s \in Nat /\ s <= m /\ s \in 1..Len(t) /\ t[s] = NL
    BY <1>1, <2>1
  <2>3. NewlinesBefore(t, s) = k + 1
    BY <1>3, <2>1, <2>2
  <2>4. LineStart(t, k + 1) = s /\ k < NewlinesBefore(t, Len(t))
    BY <1>1, <2>2, <2>3, LineStartFound
  <2>5. QED
    BY <1>5, <2>4 DEF NewlineAt, s, c, m
<1>6. ASSUME ~ (k < c)
      PROVE  NewlineAt(t, k) = IF NewlineAt(v, k - c) = NoOffset THEN NoOffset ELSE m + NewlineAt(v, k - c)
  <2> DEFINE e == k - c
  <2>1. e \in Nat /\ c + (e + 1) = k + 1 /\ (e < d <=> k < c + d)
    BY <1>2, <1>6
  <2> HIDE DEF e
  <2>2. (NewlineAt(v, e) = NoOffset) <=> ~ (e < d)
    BY <2>1, NewlineAtRange DEF d, n
  <2>3. CASE e < d
    <3> DEFINE s == LineStart(v, e + 1)
    <3>1. s \in 1..n /\ v[s] = NL /\ NewlinesBefore(v, s) = e + 1
      BY <2>1, <2>3, LineStarts DEF d, n
    <3> HIDE DEF s
    <3>2. s \in Nat /\ s <= n /\ m + s \in 1..Len(t) /\ t[m + s] = NL
      BY <1>1, <3>1
    <3>3. NewlinesBefore(t, m + s) = k + 1
      BY <1>3, <2>1, <3>1, <3>2
    <3>4. LineStart(t, k + 1) = m + s /\ k < NewlinesBefore(t, Len(t))
      <4> DEFINE w == m + s
      <4> HIDE DEF w
      <4>1. w \in 1..Len(t) /\ t[w] = NL /\ NewlinesBefore(t, w) = k + 1
        BY <3>2, <3>3 DEF w
      <4>2. QED
        BY <1>1, <4>1, LineStartFound DEF w
    <3>5. NewlineAt(t, k) = (m + s) - 1
      BY <3>4 DEF NewlineAt
    <3>6. NewlineAt(v, e) = s - 1
      BY <2>3 DEF NewlineAt, s, d, n
    <3>7. (m + s) - 1 = m + (s - 1)
      BY <1>1, <3>2
    <3>8. QED
      BY <2>2, <2>3, <3>5, <3>6, <3>7 DEF e
  <2>4. CASE ~ (e < d)
    <3>1. NewlineAt(t, k) = NoOffset
      BY <1>4, <2>1, <2>4 DEF NewlineAt
    <3>2. QED
      BY <2>2, <2>4, <3>1 DEF e
  <2>5. QED
    BY <2>3, <2>4
<1>7. QED
  BY <1>5, <1>6 DEF t, m, c

LEMMA NthStepIs ==
  ASSUME NEW x \in Trees, NEW k \in Nat, NEW a, NEW b,
         IsLeaf(x) \/ a = NewlineAt(Flat(x.left), k),
         IsLeaf(x) \/ k < Newlines(x.left) \/ b = NewlineAt(Flat(x.right), k - Newlines(x.left))
  PROVE  NthStep(x, k, a, b) = NewlineAt(Flat(x), k)
<1> DEFINE t == Flat(x)
<1>1. CASE IsLeaf(x)
  <2>1. x.buf = t /\ t \in Text /\ Newlines(x) = NewlinesBefore(t, Len(t))
    BY <1>1, WalkTree
  <2> HIDE DEF t
  <2>2. CASE k < Newlines(x)
    BY <1>1, <2>1, <2>2, NewlineInLeaf DEF NthStep, t
  <2>3. CASE ~ (k < Newlines(x))
    BY <1>1, <2>1, <2>3 DEF NthStep, NewlineAt, t
  <2>4. QED
    BY <2>2, <2>3
<1>2. CASE ~ IsLeaf(x)
  <2> DEFINE u == Flat(x.left)
             v == Flat(x.right)
             c == NewlinesBefore(u, Len(u))
  <2>1. u \in Text /\ v \in Text /\ t = u \o v /\ x.left_len = Len(u) /\ Newlines(x.left) = c
    BY <1>2, WalkTree
  <2>2. a = NewlineAt(u, k) /\ (k < c \/ b = NewlineAt(v, k - c))
    BY <1>2, <2>1
  <2> HIDE DEF t, u, v
  <2>3. /\ k < c => NewlineAt(u \o v, k) = NewlineAt(u, k)
        /\ ~ (k < c) => NewlineAt(u \o v, k) =
                          IF NewlineAt(v, k - c) = NoOffset THEN NoOffset
                          ELSE Len(u) + NewlineAt(v, k - c)
    BY <2>1, NewlineJoined
  <2> HIDE DEF c
  <2>4. QED
    BY <1>2, <2>1, <2>2, <2>3 DEF NthStep, t
<1>3. QED
  BY <1>1, <1>2

LEMMA NthIs ==
  ASSUME NEW x \in Trees, NEW n \in Nat
  PROVE  NthNewlineRaw(x, n) = NewlineAt(Flat(x), n)
<1> DEFINE D == Nodes(x)
           Step(y, g) == [k \in Nat |-> NthStep(y, k, g[y.left][k], g[y.right][k - Newlines(y.left)])]
           f == [y \in D |-> [k \in Nat |-> NewlineAt(Flat(y), k)]]
           A == CHOOSE g : g = [y \in D |-> Step(y, g)]
           S == {y \in D : \A k \in Nat : A[y][k] = NewlineAt(Flat(y), k)}
<1>1. x \in D /\ D \subseteq Trees /\ ClosedBelow(D)
  BY NodesAre
<1> HIDE DEF D
<1>2. ASSUME NEW y \in D, ~ IsLeaf(y), NEW k \in Nat
      PROVE  /\ y.left \in D /\ y.right \in D
             /\ ~ (k < Newlines(y.left)) => k - Newlines(y.left) \in Nat
  <2> DEFINE m == Newlines(y.left)
  <2>1. y.left \in D /\ y.right \in D
    BY <1>1, <1>2 DEF ClosedBelow
  <2>2. m \in Nat
    BY <1>1, <2>1, Figures
  <2> HIDE DEF m
  <2>3. ~ (k < m) => k - m \in Nat
    BY <2>2
  <2>4. QED
    BY <2>1, <2>3 DEF m
<1>3. f = [y \in D |-> Step(y, f)]
  <2>1. ASSUME NEW y \in D, NEW k \in Nat
        PROVE  NewlineAt(Flat(y), k) = NthStep(y, k, f[y.left][k], f[y.right][k - Newlines(y.left)])
    <3>1. IsLeaf(y) \/ f[y.left][k] = NewlineAt(Flat(y.left), k)
      BY <1>2
    <3>2. \/ IsLeaf(y) \/ k < Newlines(y.left)
          \/ f[y.right][k - Newlines(y.left)] = NewlineAt(Flat(y.right), k - Newlines(y.left))
      BY <1>2
    <3>3. y \in Trees
      BY <1>1
    <3> HIDE DEF f
    <3>4. QED
      BY <3>1, <3>2, <3>3, NthStepIs
  <2>2. ASSUME NEW y \in D PROVE f[y] = Step(y, f)
    <3>1. f[y] = [k \in Nat |-> NewlineAt(Flat(y), k)]
      OBVIOUS
    <3> HIDE DEF f
    <3>2. QED
      BY <2>1, <3>1
  <2>3. f = [y \in D |-> f[y]]
    OBVIOUS
  <2> HIDE DEF f, Step
  <2>4. QED
    BY <2>2, <2>3
<1>4. A = [y \in D |-> Step(y, A)]
  <2> HIDE DEF f, Step
  <2>1. QED
    BY <1>3
<1>5. NthNewlineRaw(x, n) = A[x][n]
  <2> DEFINE B == CHOOSE g : g = [y \in Nodes(x) |-> Step(y, g)]
  <2>1. NthNewlineRaw(x, n) = B[x][n]
    BY DEF NthNewlineRaw, NthStep
  <2>2. QED
    BY <2>1 DEF D
<1> HIDE DEF A, f
<1>6. ASSUME NEW y \in D, NEW k \in Nat
      PROVE  A[y][k] = NthStep(y, k, A[y.left][k], A[y.right][k - Newlines(y.left)])
  <2>1. A[y] = Step(y, A)
    <3> HIDE DEF Step
    <3>1. QED
      BY <1>4
  <2>2. QED
    BY <2>1
<1>7. ASSUME NEW y \in D, IsLeaf(y) \/ (y.left \in S /\ y.right \in S) PROVE y \in S
  <2>1. ASSUME NEW k \in Nat PROVE A[y][k] = NewlineAt(Flat(y), k)
    <3>1. IsLeaf(y) \/ A[y.left][k] = NewlineAt(Flat(y.left), k)
      BY <1>7
    <3>2. \/ IsLeaf(y) \/ k < Newlines(y.left)
          \/ A[y.right][k - Newlines(y.left)] = NewlineAt(Flat(y.right), k - Newlines(y.left))
      BY <1>2, <1>7
    <3>3. y \in Trees
      BY <1>1
    <3> HIDE DEF S
    <3>4. QED
      BY <1>6, <3>1, <3>2, <3>3, NthStepIs
  <2>2. QED
    BY <2>1
<1>8. x \in S
  <2> HIDE DEF S
  <2>1. Rises(Nodes(x), S)
    BY <1>7 DEF Rises, D
  <2>2. QED
    BY <1>1, <2>1, NodesInduction DEF D
<1>9. QED
  BY <1>5, <1>8

CharStep(x, p, a, b) ==
  IF IsLeaf(x) THEN x.buf[p + 1] ELSE IF p < x.left_len THEN a ELSE b

LEMMA CharStepIs ==
  ASSUME NEW x \in Trees, NEW p \in Nat, NEW a, NEW b, p < Len(Flat(x)),
         IsLeaf(x) \/ ~ (p < x.left_len) \/ a = Flat(x.left)[p + 1],
         \/ IsLeaf(x) \/ p < x.left_len
         \/ ~ (p - x.left_len < Len(Flat(x.right))) \/ b = Flat(x.right)[(p - x.left_len) + 1]
  PROVE  CharStep(x, p, a, b) = Flat(x)[p + 1]
<1>1. CASE IsLeaf(x)
  BY <1>1, WalkTree DEF CharStep
<1>2. CASE ~ IsLeaf(x)
  <2> DEFINE t == Flat(x)
             u == Flat(x.left)
             v == Flat(x.right)
             m == Len(u)
             n == Len(v)
  <2>1. u \in Text /\ v \in Text /\ m \in Nat /\ t = u \o v /\ x.left_len = m
    BY <1>2, WalkTree
  <2>2. /\ n \in Nat /\ Len(t) = m + n
        /\ (\A i \in 1..m : t[i] = u[i]) /\ (\A i \in 1..n : t[m + i] = v[i])
    BY <2>1, JoinText DEF Text
  <2>3. CASE p < m
    <3>1. p + 1 \in 1..m
      BY <2>1, <2>3
    <3>2. CharStep(x, p, a, b) = a /\ a = u[p + 1]
      BY <1>2, <2>1, <2>3 DEF CharStep
    <3> HIDE DEF t, u, v, m, n
    <3>3. QED
      BY <2>2, <3>1, <3>2 DEF t
  <2>4. CASE ~ (p < m)
    <3> DEFINE k == p - m
    <3>1. k \in Nat /\ k < n /\ k + 1 \in 1..n /\ m + (k + 1) = p + 1
      BY <2>1, <2>2, <2>4
    <3>2. CharStep(x, p, a, b) = b /\ b = v[k + 1]
      BY <1>2, <2>1, <2>4, <3>1 DEF CharStep
    <3>3. t[m + (k + 1)] = v[k + 1]
      <4> HIDE DEF t, u, v, m, n, k
      <4>1. QED
        BY <2>2, <3>1
    <3> HIDE DEF u, v, m, n, k
    <3>4. QED
      BY <3>1, <3>2, <3>3
  <2>5. QED
    BY <2>3, <2>4
<1>3. QED
  BY <1>1, <1>2

LEMMA CharIs ==
  ASSUME NEW x \in Trees, NEW p \in Nat, p < Len(Flat(x))
  PROVE  CharAt(x, p) = Flat(x)[p + 1]
<1> DEFINE D == Nodes(x)
           W == {q[1].buf[q[2] + 1] : q \in D \X Nat}
           V == [Nat -> W]
           Step(y, g) == [k \in Nat |-> CharStep(y, k, g[y.left][k], g[y.right][k - y.left_len])]
           F == [q \in D \X [D -> V] |-> Step(q[1], q[2])]
           A == CHOOSE g : g = [y \in D |-> Step(y, g)]
           S == {y \in D : \A k \in Nat : k < Len(Flat(y)) => A[y][k] = Flat(y)[k + 1]}
<1>1. x \in D /\ D \subseteq Trees /\ ClosedBelow(D)
  BY NodesAre
<1> HIDE DEF D
<1>2. ASSUME NEW y \in D, ~ IsLeaf(y), NEW k \in Nat
      PROVE  /\ y.left \in D /\ y.right \in D
             /\ ~ (k < y.left_len) => k - y.left_len \in Nat
  <2>1. y.left \in D /\ y.right \in D /\ y.left_len \in Nat
    BY <1>1, <1>2, LeftLength DEF ClosedBelow
  <2> DEFINE m == y.left_len
  <2>2. m \in Nat
    BY <2>1
  <2> HIDE DEF m
  <2>3. ~ (k < m) => k - m \in Nat
    BY <2>2
  <2>4. QED
    BY <2>1, <2>3 DEF m
<1>3. ASSUME NEW y \in D, NEW k \in Nat PROVE y.buf[k + 1] \in W
  <2>1. <<y, k>> \in D \X Nat
    OBVIOUS
  <2>2. QED
    BY <2>1
<1> HIDE DEF W
<1>4. ASSUME NEW y \in D, NEW g \in [D -> V] PROVE F[<<y, g>>] = Step(y, g)
  OBVIOUS
<1>5. ASSUME NEW y \in D, NEW g \in [D -> V] PROVE Step(y, g) \in V
  <2>1. ASSUME NEW k \in Nat PROVE CharStep(y, k, g[y.left][k], g[y.right][k - y.left_len]) \in W
    <3>1. CASE IsLeaf(y)
      BY <1>3, <3>1 DEF CharStep
    <3>2. CASE ~ IsLeaf(y) /\ k < y.left_len
      <4>1. g[y.left][k] \in W
        BY <1>2, <3>2
      <4>2. QED
        BY <3>2, <4>1 DEF CharStep
    <3>3. CASE ~ IsLeaf(y) /\ ~ (k < y.left_len)
      <4>1. g[y.right][k - y.left_len] \in W
        BY <1>2, <3>3
      <4>2. QED
        BY <3>3, <4>1 DEF CharStep
    <3>4. QED
      BY <3>1, <3>2, <3>3
  <2>2. QED
    BY <2>1
<1>6. ASSUME NEW y \in D, NEW g \in [D -> V], NEW h \in [D -> V],
             IsLeaf(y) \/ (g[y.left] = h[y.left] /\ g[y.right] = h[y.right])
      PROVE  Step(y, g) = Step(y, h)
  <2>1. ASSUME NEW k \in Nat
        PROVE  CharStep(y, k, g[y.left][k], g[y.right][k - y.left_len])
                 = CharStep(y, k, h[y.left][k], h[y.right][k - y.left_len])
    BY <1>6 DEF CharStep
  <2>2. QED
    BY <2>1
<1>7. Defined(D, V, F)
  <2> HIDE DEF Step, F
  <2>1. V # {}
    <3>1. [k \in Nat |-> x.buf[0 + 1]] \in V
      BY <1>1, <1>3
    <3>2. QED
      BY <3>1
  <2> HIDE DEF V
  <2>2. ByChildren(D, V, F)
    BY <1>4, <1>5, <1>6, <2>1 DEF ByChildren
  <2>3. QED
    BY <1>1, <2>2, WalkDefined
<1>8. PICK f \in [D -> V] : \A y \in D : f[y] = Step(y, f)
  <2> HIDE DEF Step, V, F
  <2>1. QED
    BY <1>4, <1>7 DEF Defined
<1>9. f = [y \in D |-> Step(y, f)]
  <2> HIDE DEF Step
  <2>1. QED
    BY <1>8
<1>10. A = [y \in D |-> Step(y, A)]
  <2> HIDE DEF Step
  <2>1. QED
    BY <1>9
<1>11. CharAt(x, p) = A[x][p]
  <2> DEFINE B == CHOOSE g : g = [y \in Nodes(x) |-> Step(y, g)]
  <2>1. CharAt(x, p) = B[x][p]
    BY DEF CharAt, CharStep
  <2>2. QED
    BY <2>1 DEF D
<1> HIDE DEF A
<1>12. ASSUME NEW y \in D, NEW k \in Nat
       PROVE  A[y][k] = CharStep(y, k, A[y.left][k], A[y.right][k - y.left_len])
  <2>1. A[y] = Step(y, A)
    <3> HIDE DEF Step
    <3>1. QED
      BY <1>10
  <2>2. QED
    BY <2>1
<1>13. ASSUME NEW y \in D, IsLeaf(y) \/ (y.left \in S /\ y.right \in S) PROVE y \in S
  <2>1. ASSUME NEW k \in Nat, k < Len(Flat(y)) PROVE A[y][k] = Flat(y)[k + 1]
    <3>1. IsLeaf(y) \/ ~ (k < y.left_len) \/ A[y.left][k] = Flat(y.left)[k + 1]
      <4>1. SUFFICES ASSUME ~ IsLeaf(y), k < y.left_len PROVE A[y.left][k] = Flat(y.left)[k + 1]
        OBVIOUS
      <4>2. k < Len(Flat(y.left))
        BY <1>1, <4>1, WalkTree
      <4>3. QED
        BY <1>13, <4>1, <4>2
    <3>2. \/ IsLeaf(y) \/ k < y.left_len
          \/ ~ (k - y.left_len < Len(Flat(y.right)))
          \/ A[y.right][k - y.left_len] = Flat(y.right)[(k - y.left_len) + 1]
      <4>1. SUFFICES ASSUME ~ IsLeaf(y), ~ (k < y.left_len), k - y.left_len < Len(Flat(y.right))
                     PROVE  A[y.right][k - y.left_len] = Flat(y.right)[(k - y.left_len) + 1]
        OBVIOUS
      <4> DEFINE n == k - y.left_len
      <4>2. n \in Nat /\ n < Len(Flat(y.right))
        BY <1>2, <4>1
      <4> HIDE DEF n
      <4>3. A[y.right][n] = Flat(y.right)[n + 1]
        BY <1>13, <4>1, <4>2
      <4>4. QED
        BY <4>3 DEF n
    <3>3. y \in Trees
      BY <1>1
    <3> HIDE DEF S
    <3>4. CharStep(y, k, A[y.left][k], A[y.right][k - y.left_len]) = Flat(y)[k + 1]
      BY <2>1, <3>1, <3>2, <3>3, CharStepIs
    <3>5. QED
      BY <1>12, <3>4
  <2>2. QED
    BY <2>1
<1>14. x \in S
  <2> HIDE DEF S
  <2>1. Rises(Nodes(x), S)
    BY <1>13 DEF Rises, D
  <2>2. QED
    BY <1>1, <2>1, NodesInduction DEF D
<1>15. QED
  BY <1>11, <1>14

----------------------------------------------------------------------------
(* What callers are told *)

(* A slice is the part of the text it names, however far past the end.      *)
Sliced(t, i, j) == SubSeq(t, i + 1, Min({j, Len(t)}))

LEMMA SliceIs ==
  ASSUME NEW x, NEW t, Carries(x, t), NEW i \in Nat, NEW j \in Nat
  PROVE  Slice(x, i, j) = Sliced(t, i, j)
<1> DEFINE n == Len(t)
           a == IF i <= n THEN i ELSE n
           b == IF j <= n THEN j ELSE n
<1>1. x \in Trees /\ Flat(x) = t /\ TextLen(x) = n /\ n \in Nat
  BY CarriesFigures
<1> HIDE DEF n
<1>2. Min({i, n}) = a /\ Min({j, n}) = b
  BY <1>1, SmallerOf
<1>3. a \in Nat /\ b \in Nat /\ b <= n /\ (a >= b => b < i + 1) /\ (~ (a >= b) => a = i)
  BY <1>1
<1>4. Slice(x, i, j) = IF a >= b THEN <<>> ELSE CollectRange(x, a, b)
  BY <1>1, <1>2 DEF Slice
<1> HIDE DEF a, b
<1>5. CASE a >= b
  <2>1. SubSeq(t, i + 1, b) = <<>>
    <3>1. i + 1 \in Int /\ b \in Int /\ b < i + 1
      BY <1>3, <1>5
    <3>2. QED
      BY <3>1, SubSeqEmpty
  <2>2. QED
    BY <1>2, <1>4, <1>5, <2>1 DEF Sliced, n
<1>6. CASE ~ (a >= b)
  <2>1. CollectRange(x, a, b) = PartOf(t, a, b)
    BY <1>1, <1>3, CollectIs
  <2>2. PartOf(t, a, b) = SubSeq(t, i + 1, b)
    BY <1>3, <1>6 DEF PartOf, n
  <2>3. QED
    BY <1>2, <1>4, <1>6, <2>1, <2>2 DEF Sliced, n
<1>7. QED
  BY <1>5, <1>6

(* The two ends of a row, as newlines tell them.                            *)
LEMMA RowEnds ==
  ASSUME NEW t \in Text, NEW row \in Nat, row < LineCount(t)
  PROVE  /\ row = 0 => LineStart(t, row) = 0
         /\ row # 0 => NewlineAt(t, row - 1) + 1 = LineStart(t, row)
         /\ row + 1 < LineCount(t) => NewlineAt(t, row) = LineEnd(t, row)
         /\ ~ (row + 1 < LineCount(t)) => LineEnd(t, row) = Len(t)
<1> DEFINE n == Len(t)
           c == NewlinesBefore(t, n)
<1>1. n \in Nat /\ c \in Nat /\ LineCount(t) = c + 1 /\ NewlinesBefore(t, 0) = 0
  BY NewlinesNat, NoNewlines DEF Text, LineCount
<1> HIDE DEF n, c
<1>2. row = 0 => LineStart(t, row) = 0
  <2>1. 0 \in 0..Len(t) /\ IsStart(t, 0)
    BY <1>1 DEF IsStart, n
  <2>2. QED
    BY <1>1, <2>1, LineStartIs
<1>3. ASSUME row # 0 PROVE NewlineAt(t, row - 1) + 1 = LineStart(t, row)
  <2> DEFINE k == row - 1
  <2>1. k \in Nat /\ k < c /\ k + 1 = row
    BY <1>1, <1>3
  <2> HIDE DEF k
  <2>2. NewlineAt(t, k) = LineStart(t, row) - 1
    BY <2>1 DEF NewlineAt, c, n
  <2>3. LineStart(t, row) \in 1..Len(t)
    BY <2>1, LineStarts DEF c, n
  <2>4. LineStart(t, row) \in Int
    BY <2>3
  <2>5. (LineStart(t, row) - 1) + 1 = LineStart(t, row)
    BY <2>4
  <2>6. QED
    BY <2>2, <2>5 DEF k
<1>4. ASSUME row + 1 < LineCount(t) PROVE NewlineAt(t, row) = LineEnd(t, row)
  <2> DEFINE s == LineStart(t, row + 1)
             p == s - 1
  <2>1. row < c
    BY <1>1, <1>4
  <2>2. s \in 1..n /\ t[s] = NL /\ NewlinesBefore(t, s) = row + 1
    BY <2>1, LineStarts DEF c, n
  <2>3. NewlineAt(t, row) = p
    BY <2>1 DEF NewlineAt, c, n
  <2> HIDE DEF s
  <2>4. p \in Nat /\ p \in 0..n /\ p + 1 = s
    BY <1>1, <2>2
  <2> HIDE DEF p
  <2>5. NewlinesBefore(t, p) = row
    <3>1. NewlinesBefore(t, p + 1) = NewlinesBefore(t, p) + 1 /\ NewlinesBefore(t, p) \in Nat
      BY <2>2, <2>4, NewlinesStep, NewlinesNat
    <3>2. NewlinesBefore(t, p) + 1 = row + 1
      BY <2>2, <2>4, <3>1
    <3>3. QED
      BY <3>1, <3>2
  <2>6. IsEnd(t, p)
    BY <2>2, <2>4 DEF IsEnd
  <2>7. LineEnd(t, row) = p
    BY <2>4, <2>5, <2>6, LineEndIs DEF n
  <2>8. QED
    BY <2>3, <2>7
<1>5. ASSUME ~ (row + 1 < LineCount(t)) PROVE LineEnd(t, row) = Len(t)
  <2>1. c = row
    BY <1>1, <1>5
  <2>2. n \in 0..Len(t) /\ IsEnd(t, n)
    BY <1>1 DEF IsEnd, n
  <2>3. LineEnd(t, NewlinesBefore(t, n)) = n
    BY <2>2, LineEndIs
  <2>4. QED
    BY <2>1, <2>3 DEF c, n
<1>6. QED
  BY <1>2, <1>3, <1>4, <1>5

LEMMA PlaceAnswered ==
  ASSUME NEW x, NEW t, Carries(x, t), NEW o \in Nat
  PROVE  OffsetToLineCol(x, o) = PosOf(t, Min({o, Len(t)}))
<1> DEFINE n == Len(t)
           p == IF o <= n THEN o ELSE n
           row == NewlinesBefore(t, p)
<1>1. x \in Trees /\ Flat(x) = t /\ TextLen(x) = n /\ n \in Nat /\ t \in Text
  BY CarriesFigures
<1>2. Min({o, n}) = p /\ p \in Nat /\ p <= n
  <2> HIDE DEF n
  <2>1. QED
    BY <1>1, SmallerOf
<1>3. CountNewlinesBefore(x, p) = row
  <2>1. CountNewlinesBefore(x, p) = CountAt(t, p)
    BY <1>1, <1>2, CountIs
  <2>2. QED
    BY <1>2, <2>1 DEF CountAt
<1> HIDE DEF n, p
<1>4. row \in Nat /\ row < LineCount(t)
  <2>1. NewlinesBefore(t, p) <= NewlinesBefore(t, n) /\ NewlinesBefore(t, n) \in Nat /\ row \in Nat
    BY <1>1, <1>2, NewlinesGrow, NewlinesNat
  <2>2. QED
    BY <2>1 DEF LineCount, n
<1> HIDE DEF row
<1>5. row # 0 => row - 1 \in Nat
  BY <1>4
<1>6. (IF row = 0 THEN 0 ELSE NthNewlineRaw(x, row - 1) + 1) = LineStart(t, row)
  <2>1. row # 0 => NthNewlineRaw(x, row - 1) = NewlineAt(t, row - 1)
    BY <1>1, <1>5, NthIs
  <2>2. QED
    BY <1>1, <1>4, <2>1, RowEnds
<1>7. OffsetToLineCol(x, o) = <<row, p - LineStart(t, row)>>
  BY <1>1, <1>2, <1>3, <1>6 DEF OffsetToLineCol
<1>8. PosOf(t, p) = <<row, p - LineStart(t, row)>>
  BY DEF PosOf, row
<1>9. QED
  BY <1>2, <1>7, <1>8 DEF n

LEMMA OffsetAnswered ==
  ASSUME NEW x, NEW t, Carries(x, t), NEW row \in Nat, NEW col \in Nat
  PROVE  LineColToOffset(x, row, col) = Offset(t, <<row, col>>)
<1> DEFINE n == Len(t)
<1>1. x \in Trees /\ Flat(x) = t /\ TextLen(x) = n /\ n \in Nat /\ t \in Text
  BY CarriesFigures
<1>2. LineCountOf(x) = LineCount(t)
  BY <1>1, FiguresRight DEF LineCountOf, LineCount
<1>3. CASE ~ (row < LineCount(t))
  <2>1. LineCount(t) \in Nat
    <3>1. NewlinesBefore(t, n) \in Nat
      BY <1>1, NewlinesNat
    <3>2. QED
      BY <3>1 DEF LineCount
  <2>2. row >= LineCount(t)
    BY <1>3, <2>1
  <2>3. QED
    BY <1>1, <1>2, <1>3, <2>2 DEF LineColToOffset, Offset
<1>4. CASE row < LineCount(t)
  <2> DEFINE s == LineStart(t, row)
             e == LineEnd(t, row)
             len == LineLen(t, row)
  <2>1. s \in 0..n /\ len \in Nat /\ len = e - s
    BY <1>1, <1>4, RowPlaces DEF LineLen
  <2>2. LineCount(t) \in Nat
    <3>1. NewlinesBefore(t, n) \in Nat
      BY <1>1, NewlinesNat
    <3>2. QED
      BY <3>1 DEF LineCount
  <2>3. ~ (row >= LineCount(t))
    BY <1>4, <2>2
  <2>4. LineStartOf(x, row) = s
    <3>1. CASE row = 0
      BY <1>1, <1>4, <3>1, RowEnds DEF LineStartOf
    <3>2. CASE row # 0
      <4>1. row - 1 \in Nat
        BY <3>2
      <4>2. NthNewlineRaw(x, row - 1) = NewlineAt(t, row - 1)
        BY <1>1, <4>1, NthIs
      <4>3. NewlineAt(t, row - 1) + 1 = s
        BY <1>1, <1>4, <3>2, RowEnds
      <4>4. QED
        BY <1>2, <2>3, <3>2, <4>2, <4>3 DEF LineStartOf
    <3>3. QED
      BY <3>1, <3>2
  <2>5. (IF row + 1 < LineCount(t) THEN NthNewlineRaw(x, row) ELSE n) = e
    <3>1. NthNewlineRaw(x, row) = NewlineAt(t, row)
      BY <1>1, NthIs
    <3>2. QED
      BY <1>1, <1>4, <3>1, RowEnds
  <2>6. LineRange(x, row) = <<s, e>>
    BY <1>1, <1>2, <2>4, <2>5 DEF LineRange
  <2>7. Offset(t, <<row, col>>) = s + (IF col < len THEN col ELSE len)
    BY <1>4 DEF Offset
  <2>8. Min({col, e - s}) = IF col < len THEN col ELSE len
    <3> HIDE DEF s, e, len
    <3>1. Min({col, len}) = IF col <= len THEN col ELSE len
      BY <2>1, SmallerOf
    <3>2. (IF col <= len THEN col ELSE len) = IF col < len THEN col ELSE len
      BY <2>1
    <3>3. QED
      BY <2>1, <3>1, <3>2
  <2>9. LineColToOffset(x, row, col) = s + Min({col, e - s})
    <3> HIDE DEF s, e, len
    <3>1. QED
      BY <1>2, <2>3, <2>6 DEF LineColToOffset
  <2>10. QED
    BY <2>7, <2>8, <2>9
<1>5. QED
  BY <1>3, <1>4

----------------------------------------------------------------------------
(* Edits *)

(* The tree carries the text, and only a text put in lopsided unbalances it. *)
RopeInv ==
  /\ Carries(root, text)
  /\ lopsided \in BOOLEAN
  /\ ~ lopsided => IsBalanced(root)

LEMMA PieceText ==
  ASSUME NEW u \in Pieces
  PROVE  u \in Text
BY RopeAssumption DEF Text, Point

LEMMA RopeStarts == Init => RopeInv
<1>1. ASSUME new PROVE RopeInv
  BY <1>1, EmptyLeafIs DEF new, RopeInv, Carries
<1>2. ASSUME NEW u \in Pieces, from_slice(u) PROVE RopeInv
  <2>1. Carries(BuildRope(u), u)
    BY PieceText, BuildCarries
  <2>2. QED
    BY <1>2, <2>1 DEF from_slice, RopeInv, Lopsided
<1>3. QED
  BY <1>1, <1>2 DEF Init

LEMMA RopeSteps == RopeInv /\ [Next]_ropeVars => RopeInv'
<1> SUFFICES ASSUME RopeInv, [Next]_ropeVars PROVE RopeInv'
  OBVIOUS
<1> DEFINE n == Len(text)
<1>1. /\ Carries(root, text) /\ lopsided \in BOOLEAN /\ (~ lopsided => IsBalanced(root))
      /\ text \in Text /\ n \in Nat /\ TextLen(root) = n
  BY CarriesFigures DEF RopeInv
<1> HIDE DEF n
<1>2. ASSUME NEW u \in Pieces, NEW pos \in 0..(n + 1), insert(pos, u) PROVE RopeInv'
  <2> DEFINE y == BuildRope(u)
             p == IF pos <= n THEN pos ELSE n
  <2>1. Carries(y, u)
    BY PieceText, BuildCarries
  <2>2. pos \in Nat /\ Min({pos, n}) = p
    BY <1>1, SmallerOf
  <2> HIDE DEF y, p
  <2>3. /\ Carries(InsertNode(root, pos, y), WithInserted(text, p, u))
        /\ IsBalanced(root) /\ IsBalanced(y) => IsBalanced(InsertNode(root, pos, y))
    BY <1>1, <2>1, <2>2, InsertCarries DEF p, n
  <2>4. /\ root' = InsertNode(root, pos, y) /\ text' = WithInserted(text, p, u)
        /\ lopsided' = (lopsided \/ ~ IsBalanced(y))
    BY <1>2, <2>2 DEF insert, Lopsided, y, n
  <2>5. QED
    BY <1>1, <2>3, <2>4 DEF RopeInv
<1>3. ASSUME NEW pos \in 0..n, NEW count \in 0..((n - pos) + 1), delete(pos, count) PROVE RopeInv'
  <2> DEFINE k == IF count <= n - pos THEN count ELSE n - pos
  <2>1. n - pos \in Nat /\ count \in Nat
    BY <1>1
  <2>2. Min({count, n - pos}) = k
    BY <2>1, SmallerOf
  <2>3. k \in 0..(n - pos)
    BY <1>1, <2>1
  <2> HIDE DEF k
  <2>4. /\ Carries(DeleteRange(root, pos, k), WithoutRange(text, pos, k))
        /\ IsBalanced(root) => IsBalanced(DeleteRange(root, pos, k))
    BY <1>1, <2>3, DeleteCarries DEF n
  <2>5. root' = DeleteRange(root, pos, k) /\ text' = WithoutRange(text, pos, k) /\ lopsided' = lopsided
    BY <1>1, <1>3, <2>2 DEF delete, n
  <2>6. QED
    BY <1>1, <2>4, <2>5 DEF RopeInv
<1>4. CASE UNCHANGED ropeVars
  BY <1>4 DEF RopeInv, ropeVars
<1>5. CASE Next
  BY <1>2, <1>3, <1>5 DEF Next, n
<1>6. QED
  BY <1>4, <1>5

(* What is inductive: the root is a tree whose cached figures are right and *)
(* which reads text from left to right (Carries), and it is balanced unless *)
(* a text was built into a tree that is not (insert, delete, from_slice).   *)
THEOREM RopeInvariant == Spec => []RopeInv
BY RopeStarts, RopeSteps, PTL DEF Spec

(* Whatever is inserted and deleted, wherever, every slice and every code   *)
(* point is that of the text the same edits give on a plain sequence        *)
(* (insert_node, delete_range, collect_range, char_at_node).                *)
THEOREM RopeKeepsText == Spec => []TextKept
<1>1. RopeInv => TextKept
  <2> SUFFICES ASSUME RopeInv PROVE TextKept
    OBVIOUS
  <2>1. Carries(root, text) /\ root \in Trees /\ Flat(root) = text /\ Len(text) \in Nat
    BY CarriesFigures DEF RopeInv
  <2>2. ASSUME NEW i \in 0..(Len(text) + 1), NEW j \in 0..(Len(text) + 1)
        PROVE  Slice(root, i, j) = SubSeq(text, i + 1, Min({j, Len(text)}))
    <3>1. i \in Nat /\ j \in Nat
      BY <2>1
    <3>2. Slice(root, i, j) = Sliced(text, i, j)
      BY <2>1, <3>1, SliceIs
    <3>3. QED
      BY <3>2 DEF Sliced
  <2>3. ASSUME NEW p \in 0..(Len(text) - 1) PROVE CharAt(root, p) = text[p + 1]
    <3>1. p \in Nat /\ p < Len(text)
      BY <2>1
    <3>2. QED
      BY <2>1, <3>1, CharIs
  <2>4. QED
    BY <2>2, <2>3 DEF TextKept
<1>2. QED
  BY <1>1, RopeInvariant, PTL

(* Cached lengths, newline counts and heights are those of what is below    *)
(* them, leaves stay within LEAF_MAX and are never left empty, and trees    *)
(* balanced when put in stay balanced (balance, join_nodes, split_node).    *)
THEOREM RopeTreeSound == Spec => []TreeSound
<1>1. RopeInv => TreeSound
  <2> SUFFICES ASSUME RopeInv PROVE TreeSound
    OBVIOUS
  <2>1. Carries(root, text) /\ root \in Trees
    BY CarriesFigures DEF RopeInv
  <2>2. CachesRight
    <3>1. ASSUME NEW x \in Nodes(root)
          PROVE  /\ TextLen(x) = Len(Flat(x))
                 /\ Newlines(x) = NewlinesBefore(Flat(x), Len(Flat(x)))
                 /\ Height(x) = RealHeight(x)
                 /\ IsLeaf(x) \/ x.left_len = Len(Flat(x.left))
      <4>1. x \in Trees
        BY <2>1, NodesOfNode
      <4>2. QED
        BY <4>1, FiguresRight, HeightIsReal, WalkTree
    <3>2. QED
      BY <3>1 DEF CachesRight
  <2>3. LeavesFit
    <3>1. ASSUME NEW x \in Nodes(root), IsLeaf(x)
          PROVE  Len(x.buf) <= LeafMax /\ (x.buf = <<>> => root = EmptyLeaf)
      <4>1. CASE text = <<>>
        <5>1. root = EmptyLeaf
          BY <2>1, <4>1 DEF Carries
        <5>2. x = EmptyLeaf
          BY <3>1, <5>1, EmptyLeafIs, NodesOfLeaf
        <5>3. Len(x.buf) = 0 /\ 0 <= LeafMax
          BY <5>2, EmptyLeafIs, RopeAssumption
        <5>4. QED
          BY <5>1, <5>3
      <4>2. CASE text # <<>>
        <5>1. Len(x.buf) \in 1..LeafMax
          BY <2>1, <3>1, <4>2 DEF Carries, Holds, Filled
        <5>2. x.buf # <<>>
          <6>1. Len(<<>>) = 0
            OBVIOUS
          <6>2. QED
            BY <5>1, <6>1
        <5>3. Len(x.buf) <= LeafMax
          BY <5>1, RopeAssumption
        <5>4. QED
          BY <5>2, <5>3
      <4>3. QED
        BY <4>1, <4>2
    <3>2. QED
      BY <3>1 DEF LeavesFit
  <2>4. Balanced
    BY DEF Balanced, RopeInv
  <2>5. QED
    BY <2>2, <2>3, <2>4 DEF TreeSound, WellFormed
<1>2. QED
  BY <1>1, RopeInvariant, PTL

(* Line counts, rows, columns and offsets are those of the text, for places *)
(* past the end of a line or of the text too (count_newlines_before,        *)
(* nth_newline_raw, offset_to_line_col, line_col_to_offset).                *)
THEOREM RopeLinesAgree == Spec => []LinesAgree
<1>1. RopeInv => LinesAgree
  <2> SUFFICES ASSUME RopeInv PROVE LinesAgree
    OBVIOUS
  <2>1. Carries(root, text) /\ root \in Trees /\ Flat(root) = text /\ Len(text) \in Nat
    BY CarriesFigures DEF RopeInv
  <2>2. LineCountOf(root) = LineCount(text)
    BY <2>1, FiguresRight DEF LineCountOf, LineCount
  <2>3. ASSUME NEW p \in 0..(Len(text) + 1)
        PROVE  OffsetToLineCol(root, p) = PosOf(text, Min({p, Len(text)}))
    BY <2>1, PlaceAnswered
  <2>4. ASSUME NEW row \in 0..LineCount(text), NEW col \in 0..(Len(text) + 1)
        PROVE  LineColToOffset(root, row, col) = Offset(text, <<row, col>>)
    <3>1. row \in Nat /\ col \in Nat
      BY <2>1
    <3>2. QED
      BY <2>1, <3>1, OffsetAnswered
  <2>5. QED
    BY <2>2, <2>3, <2>4 DEF LinesAgree
<1>2. QED
  BY <1>1, RopeInvariant, PTL

=============================================================================
