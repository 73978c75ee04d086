------------------------------- MODULE Recursion -------------------------------
(****************************************************************************)
(* Induction and recursive definitions stated with sets and functions in    *)
(* the place of operators, so that the lemmas can be cited where a          *)
(* recursive function of the model is reasoned about.                       *)
(****************************************************************************)
EXTENDS Integers, FiniteSetTheorems, TLAPS

(* A nonempty set of naturals has a least element: among the intervals      *)
(* 0 .. x of its elements x one has no other inside it.                     *)
LEMMA LeastNatural ==
  ASSUME NEW T \in SUBSET Nat, T # {}
  PROVE  \E x \in T : \A y \in T : x <= y
<1> DEFINE F == {0 .. x : x \in T}
<1>1. F \subseteq FiniteSubsetsOf(Nat) /\ F # {}
  <2>1. ASSUME NEW x \in T PROVE 0 .. x \subseteq Nat /\ IsFiniteSet(0 .. x)
    BY FS_Interval
  <2>2. QED
    BY <2>1 DEF FiniteSubsetsOf
<1>2. PICK X \in F : \A Y \in F : <<Y, X>> \notin StrictSubsetOrdering(Nat)
  <2> HIDE DEF F
  <2>1. QED
    BY <1>1, FS_StrictSubsetOrderingWellFounded, WFMin
<1>3. PICK x \in T : X = 0 .. x
  OBVIOUS
<1>4. ASSUME NEW y \in T, y < x PROVE FALSE
  <2>1. /\ 0 .. y \in F /\ 0 .. y \subseteq Nat /\ 0 .. x \subseteq Nat
        /\ 0 .. y \subseteq 0 .. x /\ x \in 0 .. x /\ x \notin 0 .. y
    BY <1>4
  <2>2. <<0 .. y, X>> \in StrictSubsetOrdering(Nat)
    BY <2>1, <1>3 DEF StrictSubsetOrdering
  <2>3. QED
    BY <2>1, <2>2, <1>2
<1>5. QED
  BY <1>4

(* Induction: a set that has 0 and with each n also n + 1 has all naturals. *)
LEMMA NatInductiveSet ==
  ASSUME NEW S, 0 \in S, \A n \in Nat : n \in S => n + 1 \in S
  PROVE  \A n \in Nat : n \in S
<1> DEFINE T == Nat \ S
<1>1. SUFFICES ASSUME T # {} PROVE FALSE
  OBVIOUS
<1>2. PICK x \in T : \A y \in T : x <= y
  BY <1>1, LeastNatural
<1>3. x # 0 /\ x - 1 \in Nat /\ x - 1 \notin T
  BY <1>2
<1>4. QED
  BY <1>2, <1>3

----------------------------------------------------------------------------
(* Recursion over a set whose elements have ranks: what F gives for x may   *)
(* depend on what the function is for elements of lower rank.               *)

LowerRanksDecide(D, V, rank, F) ==
  \A x \in D : \A g, h \in [D -> V] :
    (\A y \in D : rank[y] < rank[x] => g[y] = h[y]) => F[<<x, g>>] = F[<<x, h>>]

(* A definition by recursion over D of a function into V.                   *)
Recursive(D, V, rank, F) ==
  /\ V # {} /\ rank \in [D -> Nat]
  /\ \A x \in D, g \in [D -> V] : F[<<x, g>>] \in V
  /\ LowerRanksDecide(D, V, rank, F)

Defined(D, V, F) == \E f \in [D -> V] : \A x \in D : f[x] = F[<<x, f>>]

(* g obeys the definition up to rank n. *)
Obeys(D, rank, F, g, n) == \A x \in D : rank[x] < n => g[x] = F[<<x, g>>]

LEMMA RecursionUpTo ==
  ASSUME NEW D, NEW V, V # {}, NEW rank \in [D -> Nat], NEW F,
         \A x \in D, g \in [D -> V] : F[<<x, g>>] \in V,
         LowerRanksDecide(D, V, rank, F)
  PROVE  \A n \in Nat : \E g \in [D -> V] : Obeys(D, rank, F, g, n)
<1> DEFINE S == {n \in Nat : \E g \in [D -> V] : Obeys(D, rank, F, g, n)}
<1>1. 0 \in S
  <2>1. PICK v \in V : TRUE
    OBVIOUS
  <2>2. [x \in D |-> v] \in [D -> V]
    OBVIOUS
  <2>3. Obeys(D, rank, F, [x \in D |-> v], 0)
    BY DEF Obeys
  <2>4. QED
    BY <2>2, <2>3
<1>2. ASSUME NEW n \in Nat, n \in S PROVE n + 1 \in S
  <2>1. PICK g \in [D -> V] : Obeys(D, rank, F, g, n)
    BY <1>2
  <2> DEFINE h == [x \in D |-> F[<<x, g>>]]
  <2>2. h \in [D -> V]
    OBVIOUS
  <2>3. ASSUME NEW x \in D, rank[x] < n + 1 PROVE h[x] = F[<<x, h>>]
    <3>1. \A y \in D : rank[y] < rank[x] => g[y] = h[y]
      BY <2>1, <2>3 DEF Obeys
    <3> HIDE DEF h
    <3>2. F[<<x, g>>] = F[<<x, h>>]
      BY <2>2, <3>1 DEF LowerRanksDecide
    <3>3. QED
      BY <3>2 DEF h
  <2>4. Obeys(D, rank, F, h, n + 1)
    BY <2>3 DEF Obeys
  <2> HIDE DEF h
  <2>5. QED
    BY <2>2, <2>4
<1>3. \A n \in Nat : n \in S
  <2> HIDE DEF S
  <2>1. QED
    BY <1>1, <1>2, NatInductiveSet
<1>4. QED
  BY <1>3

(* Two functions that obey the definition agree. *)
LEMMA RecursionAgrees ==
  ASSUME NEW D, NEW V, NEW rank \in [D -> Nat],
         NEW F, LowerRanksDecide(D, V, rank, F),
         NEW g \in [D -> V], NEW h \in [D -> V], NEW m \in Nat,
         Obeys(D, rank, F, g, m), Obeys(D, rank, F, h, m)
  PROVE  \A x \in D : rank[x] < m => g[x] = h[x]
<1> DEFINE S == {n \in Nat : n <= m => \A x \in D : rank[x] < n => g[x] = h[x]}
<1>1. 0 \in S
  OBVIOUS
<1>2. ASSUME NEW n \in Nat, n \in S PROVE n + 1 \in S
  <2>1. SUFFICES ASSUME n + 1 <= m, NEW x \in D, rank[x] < n + 1 PROVE g[x] = h[x]
    OBVIOUS
  <2>2. \A y \in D : rank[y] < rank[x] => g[y] = h[y]
    BY <1>2, <2>1
  <2>3. F[<<x, g>>] = F[<<x, h>>]
    BY <2>2 DEF LowerRanksDecide
  <2>4. QED
    BY <2>1, <2>3 DEF Obeys
<1>3. \A n \in Nat : n \in S
  <2> HIDE DEF S
  <2>1. QED
    BY <1>1, <1>2, NatInductiveSet
<1>4. QED
  BY <1>3

LEMMA RecursionDefines ==
  ASSUME NEW D, NEW V, NEW rank, NEW F, Recursive(D, V, rank, F)
  PROVE  Defined(D, V, F)
<1> USE DEF Recursive
<1> DEFINE G(n) == CHOOSE g \in [D -> V] : Obeys(D, rank, F, g, n)
           f == [x \in D |-> G(rank[x] + 1)[x]]
<1>1. \A n \in Nat : G(n) \in [D -> V] /\ Obeys(D, rank, F, G(n), n)
  BY RecursionUpTo
<1> HIDE DEF G
<1>2. ASSUME NEW m \in Nat, NEW n \in Nat, m <= n, NEW x \in D, rank[x] < m
      PROVE  G(m)[x] = G(n)[x]
  <2>1. G(m) \in [D -> V] /\ G(n) \in [D -> V] /\ Obeys(D, rank, F, G(m), m)
    BY <1>1
  <2>2. Obeys(D, rank, F, G(n), n)
    BY <1>1
  <2>3. \A y \in D : rank[y] \in Nat
    OBVIOUS
  <2>4. Obeys(D, rank, F, G(n), m)
    BY <2>2, <2>3, <1>2 DEF Obeys
  <2>5. QED
    BY <1>2, <2>1, <2>4, RecursionAgrees
<1>3. f \in [D -> V]
  BY <1>1
<1>4. ASSUME NEW x \in D PROVE f[x] = F[<<x, f>>]
  <2> DEFINE n == rank[x] + 1
  <2>1. n \in Nat /\ rank[x] < n
    OBVIOUS
  <2>2. \A y \in D : rank[y] < rank[x] => f[y] = G(n)[y]
    BY <1>2, <2>1
  <2> HIDE DEF f
  <2>3. F[<<x, G(n)>>] = F[<<x, f>>]
    BY <1>1, <1>3, <2>1, <2>2 DEF LowerRanksDecide
  <2>4. G(n)[x] = F[<<x, G(n)>>]
    BY <1>1, <2>1 DEF Obeys
  <2>5. QED
    BY <2>3, <2>4 DEF f
<1>5. QED
  BY <1>3, <1>4 DEF Defined

(* A step that keeps a set, repeated.                                       *)
Iterates(V, x, G, f) ==
  f \in [Nat -> V] /\ \A n \in Nat : f[n] = IF n = 0 THEN x ELSE G[f[n - 1]]

LEMMA Iteration ==
  ASSUME NEW V, NEW x \in V, NEW G \in [V -> V]
  PROVE  \E f : Iterates(V, x, G, f)
<1> DEFINE rank == [n \in Nat |-> n]
           F == [y \in Nat \X [Nat -> V] |-> IF y[1] = 0 THEN x ELSE G[y[2][y[1] - 1]]]
<1>1. rank \in [Nat -> Nat] /\ V # {}
  OBVIOUS
<1>2. ASSUME NEW n \in Nat, NEW g \in [Nat -> V]
      PROVE  F[<<n, g>>] = (IF n = 0 THEN x ELSE G[g[n - 1]]) /\ F[<<n, g>>] \in V
  <2>1. n # 0 => n - 1 \in Nat
    OBVIOUS
  <2>2. QED
    BY <2>1
<1>3. LowerRanksDecide(Nat, V, rank, F)
  <2>1. SUFFICES ASSUME NEW n \in Nat, NEW g \in [Nat -> V], NEW h \in [Nat -> V],
                        \A y \in Nat : rank[y] < rank[n] => g[y] = h[y]
                 PROVE  F[<<n, g>>] = F[<<n, h>>]
    BY DEF LowerRanksDecide
  <2>2. n # 0 => g[n - 1] = h[n - 1]
    BY <2>1
  <2> HIDE DEF F
  <2>3. QED
    BY <1>2, <2>2
<1> HIDE DEF F, rank
<1>4. Recursive(Nat, V, rank, F)
  BY <1>1, <1>2, <1>3 DEF Recursive
<1>5. PICK f \in [Nat -> V] : \A n \in Nat : f[n] = F[<<n, f>>]
  BY <1>4, RecursionDefines DEF Defined
<1>6. QED
  BY <1>2, <1>5 DEF Iterates

=============================================================================
