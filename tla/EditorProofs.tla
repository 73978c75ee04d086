----------------------------- MODULE EditorProofs -----------------------------
(****************************************************************************)
(* The cursor of the editor stays in the text, its journal fits it, and its *)
(* searches and replacements are right, for any texts, clips, patterns and  *)
(* caps: what is put in first, then the edits.                              *)
(****************************************************************************)
EXTENDS Editor, FlatTextProofs

----------------------------------------------------------------------------
(* Positions of the editor *)

(* Places are in the order of their offsets.                                *)
LEMMA PlacesOrdered ==
  ASSUME NEW t \in Text, NEW a \in 0..Len(t), NEW b \in 0..Len(t), a < b
  PROVE  Before(PosOf(t, a), PosOf(t, b)) /\ ~ Before(PosOf(t, b), PosOf(t, a))
<1>1. Len(t) \in Nat /\ a \in Nat /\ b \in Nat
  BY DEF Text
<1> DEFINE m == NewlinesBefore(t, a)
           n == NewlinesBefore(t, b)
<1>2. m <= n /\ m \in Nat /\ n \in Nat
  BY <1>1, NewlinesGrow, NewlinesNat
<1>3. LineStart(t, m) \in 0..a /\ LineStart(t, n) \in 0..b
  BY LineOf
<1>4. PosOf(t, a) = <<m, a - LineStart(t, m)>> /\ PosOf(t, b) = <<n, b - LineStart(t, n)>>
  BY DEF PosOf
<1> HIDE DEF m, n
<1>5. CASE m = n
  <2>1. a - LineStart(t, m) < b - LineStart(t, m)
    BY <1>1, <1>3
  <2>2. ~ (b - LineStart(t, m) < a - LineStart(t, m)) /\ ~ (m < m)
    BY <1>1, <1>2, <1>3
  <2>3. QED
    BY <1>4, <1>5, <2>1, <2>2 DEF Before
<1>6. CASE m # n
  <2>1. m < n /\ ~ (n < m)
    BY <1>2, <1>6
  <2>2. QED
    BY <1>4, <1>6, <2>1 DEF Before
<1>7. QED
  BY <1>5, <1>6

LEMMA PlacesBefore ==
  ASSUME NEW t \in Text, NEW p \in Positions(t), NEW q \in Positions(t)
  PROVE  /\ Before(p, q) <=> Offset(t, p) < Offset(t, q)
         /\ p = q <=> Offset(t, p) = Offset(t, q)
<1> DEFINE a == Offset(t, p)
           b == Offset(t, q)
<1>1. a \in 0..Len(t) /\ b \in 0..Len(t) /\ p = PosOf(t, a) /\ q = PosOf(t, b)
  BY OffsetsOfPlaces
<1>2. Len(t) \in Nat /\ q \in Pos /\ p \in Pos
  BY OffsetsOfPlaces DEF Text
<1> HIDE DEF a, b
<1>3. ASSUME a < b
      PROVE  (Before(p, q) <=> a < b) /\ (p = q <=> a = b)
  BY <1>1, <1>2, <1>3, PlacesOrdered
<1>4. ASSUME b < a
      PROVE  (Before(p, q) <=> a < b) /\ (p = q <=> a = b)
  <2>1. ~ Before(p, q) /\ Before(q, p)
    BY <1>1, <1>4, PlacesOrdered
  <2>2. ~ Before(q, q)
    BY <1>2 DEF Before, Pos
  <2>3. QED
    BY <1>1, <1>2, <1>4, <2>1, <2>2
<1>5. ASSUME a = b
      PROVE  (Before(p, q) <=> a < b) /\ (p = q <=> a = b)
  <2>1. ~ Before(q, q)
    BY <1>2 DEF Before, Pos
  <2>2. QED
    BY <1>1, <1>2, <1>5, <2>1
<1>6. a < b \/ b < a \/ a = b
  BY <1>1, <1>2
<1>7. /\ Before(p, q) <=> a < b
      /\ p = q <=> a = b
  BY <1>3, <1>4, <1>5, <1>6
<1>8. QED
  BY <1>7 DEF a, b

----------------------------------------------------------------------------
(* Texts as they are put in *)

Plain(t) == \A i \in 1..Len(t) : t[i] # CR

(* The k-th index of a set of indices exists.                               *)
LEMMA KthIndex ==
  ASSUME NEW n \in Nat, NEW I \in SUBSET (1..n), NEW k \in 1..Cardinality(I)
  PROVE  \E i \in I : Cardinality({j \in I : j <= i}) = k
<1> DEFINE U(m) == {j \in I : j <= m}
           S == {m \in Nat : \A r \in 1..Cardinality(U(m)) :
                   \E i \in I : Cardinality(U(i)) = r}
<1>1. IsFiniteSet(I) /\ \A j \in I : j \in Nat /\ 1 <= j /\ j <= n
  <2>1. IsFiniteSet(1..n)
    BY FS_Interval
  <2>2. IsFiniteSet(I)
    BY <2>1, FS_Subset
  <2>3. QED
    BY <2>2
<1>2. ASSUME NEW m \in Nat PROVE IsFiniteSet(U(m)) /\ Cardinality(U(m)) \in Nat
  <2>1. U(m) \subseteq I
    OBVIOUS
  <2> HIDE DEF U
  <2>2. QED
    BY <1>1, <2>1, FS_Subset, FS_CardinalityType
<1>3. Cardinality(U(0)) = 0
  <2>1. \A j \in I : ~ (j <= 0)
    BY <1>1
  <2>2. U(0) = {}
    BY <2>1
  <2> HIDE DEF U
  <2>3. QED
    BY <2>2, FS_EmptySet
<1>4. ASSUME NEW m \in Nat
      PROVE  Cardinality(U(m + 1)) = IF m + 1 \in I THEN Cardinality(U(m)) + 1 ELSE Cardinality(U(m))
  <2>1. U(m + 1) = IF m + 1 \in I THEN U(m) \union {m + 1} ELSE U(m)
    <3>1. \A j \in I : j <= m + 1 <=> j <= m \/ j = m + 1
      BY <1>1
    <3>2. CASE m + 1 \in I
      <4>1. m + 1 \in U(m + 1)
        BY <3>1, <3>2
      <4>2. QED
        BY <3>1, <3>2, <4>1
    <3>3. CASE m + 1 \notin I
      BY <3>1, <3>3
    <3>4. QED
      BY <3>2, <3>3
  <2>2. m + 1 \notin U(m)
    OBVIOUS
  <2> HIDE DEF U
  <2>3. Cardinality(U(m) \union {m + 1}) = Cardinality(U(m)) + 1
    BY <1>2, <2>2, FS_AddElement
  <2>4. QED
    BY <2>1, <2>3
<1>5. U(n) = I
  BY <1>1
<1> HIDE DEF U
<1>6. 0 \in S
  BY <1>3
<1>7. ASSUME NEW m \in Nat, m \in S PROVE m + 1 \in S
  <2>1. SUFFICES ASSUME NEW r \in 1..Cardinality(U(m + 1))
                 PROVE  \E i \in I : Cardinality(U(i)) = r
    OBVIOUS
  <2>2. Cardinality(U(m)) \in Nat
    BY <1>2
  <2>3. CASE r \in 1..Cardinality(U(m))
    BY <1>7, <2>3
  <2>4. CASE r \notin 1..Cardinality(U(m))
    <3>1. m + 1 \in I /\ r = Cardinality(U(m + 1))
      BY <1>4, <2>1, <2>2, <2>4
    <3>2. QED
      BY <3>1
  <2>5. QED
    BY <2>3, <2>4
<1>8. \A m \in Nat : m \in S
  <2> HIDE DEF S
  <2>1. QED
    BY <1>6, <1>7, NatInductiveSet
<1>9. QED
  BY <1>5, <1>8 DEF U

LEMMA PickedText ==
  ASSUME NEW u \in Text, NEW I \in SUBSET (1..Len(u))
  PROVE  /\ Picked(u, I) \in Text
         /\ \A k \in 1..Len(Picked(u, I)) : \E i \in I : Picked(u, I)[k] = u[i]
<1> DEFINE at(k) == CHOOSE i \in I : Cardinality({j \in I : j <= i}) = k
           n == Cardinality(I)
<1>1. Len(u) \in Nat /\ \A i \in 1..Len(u) : u[i] \in Point
  BY DEF Text
<1>2. n \in Nat
  <2>1. IsFiniteSet(1..Len(u))
    BY <1>1, FS_Interval
  <2>2. QED
    BY <2>1, FS_Subset, FS_CardinalityType
<1>3. ASSUME NEW k \in 1..n PROVE at(k) \in I
  BY <1>1, KthIndex
<1>4. Picked(u, I) = [k \in 1..n |-> u[at(k)]]
  BY DEF Picked
<1> HIDE DEF at, n
<1>5. \A k \in 1..n : u[at(k)] \in Point
  BY <1>1, <1>3
<1>6. Picked(u, I) \in Text /\ Len(Picked(u, I)) = n
  BY <1>2, <1>4, <1>5 DEF Text
<1>7. QED
  BY <1>3, <1>4, <1>6

LEMMA PickedAll ==
  ASSUME NEW u \in Text
  PROVE  Picked(u, 1..Len(u)) = u
<1> DEFINE n == Len(u)
           I == 1..n
<1>1. n \in Nat /\ u = [i \in 1..n |-> u[i]]
  BY DEF Text
<1> HIDE DEF n
<1>2. Cardinality(I) = n
  BY <1>1, FS_Interval
<1>3. ASSUME NEW i \in I PROVE Cardinality({j \in I : j <= i}) = i
  <2>1. {j \in I : j <= i} = 1..i /\ i \in Int /\ ~ (1 > i)
    BY <1>1
  <2>2. Cardinality(1..i) = i
    BY <2>1, FS_Interval
  <2>3. QED
    BY <2>1, <2>2
<1>4. ASSUME NEW k \in I PROVE (CHOOSE i \in I : Cardinality({j \in I : j <= i}) = k) = k
  BY <1>3
<1>5. Picked(u, I) = [k \in 1..n |-> u[k]]
  <2>1. Picked(u, I) = [k \in 1..Cardinality(I) |->
                          u[CHOOSE i \in I : Cardinality({j \in I : j <= i}) = k]]
    BY DEF Picked
  <2>2. QED
    BY <1>2, <1>4, <2>1
<1>6. QED
  BY <1>1, <1>5 DEF n

(* CR LF becomes a line feed, and a text without CR stays as it is.         *)
LEMMA CrLfText ==
  ASSUME NEW u \in Text
  PROVE  /\ CrLfToNl(u) \in Text
         /\ Plain(u) => CrLfToNl(u) = u
         /\ LoneReturn(u) <=> ~ Plain(CrLfToNl(u))
<1> DEFINE I == {i \in DOMAIN u : ~(u[i] = CR /\ i < Len(u) /\ u[i + 1] = NL)}
<1>1. DOMAIN u = 1..Len(u) /\ CrLfToNl(u) = Picked(u, I) /\ I \in SUBSET (1..Len(u))
  BY DEF Text, CrLfToNl
<1>2. Plain(u) => I = 1..Len(u)
  BY <1>1 DEF Plain
<1> HIDE DEF I
<1>3. CrLfToNl(u) \in Text
  BY <1>1, PickedText
<1>4. Plain(u) => CrLfToNl(u) = u
  BY <1>1, <1>2, PickedAll
<1> DEFINE v == CrLfToNl(u)
<1> HIDE DEF v
<1>5. LoneReturn(u) <=> CR \in {v[i] : i \in DOMAIN v}
  BY DEF LoneReturn, Range, v
<1>6. DOMAIN v = 1..Len(v)
  BY <1>3 DEF v, Text
<1>7. CR \in {v[i] : i \in DOMAIN v} <=> ~ Plain(v)
  BY <1>6 DEF Plain
<1>8. QED
  BY <1>3, <1>4, <1>5, <1>7 DEF v

LEMMA PointsText ==
  ASSUME NEW u \in Text
  PROVE  /\ CodePoints(u) \in Text /\ Plain(CodePoints(u))
         /\ Plain(u) => CodePoints(u) = u
<1> DEFINE v == CrLfToNl(u)
<1>1. v \in Text /\ (Plain(u) => v = u)
  BY CrLfText
<1>2. CodePoints(u) = [i \in DOMAIN v |-> IF v[i] = CR THEN NL ELSE v[i]]
  BY DEF CodePoints
<1> HIDE DEF v
<1>3. /\ Len(v) \in Nat /\ DOMAIN v = 1..Len(v) /\ v = [i \in 1..Len(v) |-> v[i]]
      /\ \A i \in 1..Len(v) : v[i] \in Point
  BY <1>1 DEF Text
<1>4. NL \in Point /\ NL # CR
  BY DEF Point, NL, CR
<1> DEFINE w == [i \in 1..Len(v) |-> IF v[i] = CR THEN NL ELSE v[i]]
<1>5. w \in Text /\ Len(w) = Len(v)
  BY <1>3, <1>4 DEF Text
<1>6. Plain(w)
  BY <1>3, <1>4, <1>5 DEF Plain
<1>7. Plain(v) => w = v
  BY <1>3 DEF Plain
<1>8. CodePoints(u) = w
  BY <1>2, <1>3
<1> HIDE DEF w
<1>9. QED
  BY <1>1, <1>5, <1>6, <1>7, <1>8

----------------------------------------------------------------------------
(* Splices *)

LEMMA PlainParts ==
  ASSUME NEW t \in Text, NEW u \in Text, NEW a \in 0..Len(t), NEW b \in a..Len(t), Plain(t)
  PROVE  /\ Plain(SubSeq(t, a + 1, b))
         /\ Plain(WithoutRange(t, a, b - a))
         /\ Plain(u) => Plain(WithInserted(t, a, u)) /\ Plain(u \o t) /\ Plain(t \o u)
<1> DEFINE n == Len(t)
           m == Len(u)
           k == b - a
<1>n. n \in Nat /\ m \in Nat /\ a \in Nat /\ b \in Nat /\ a <= b /\ b <= n /\ k \in 0..(n - a)
  BY DEF Text
<1>t. \A i \in 1..n : t[i] # CR
  BY DEF Plain
<1>1. Plain(SubSeq(t, a + 1, b))
  <2>1. Len(SubSeq(t, a + 1, b)) = k /\ \A i \in 1..k : SubSeq(t, a + 1, b)[i] = t[a + i]
    BY <1>n, PartText
  <2>2. \A i \in 1..k : a + i \in 1..n
    BY <1>n
  <2>3. QED
    BY <1>t, <2>1, <2>2 DEF Plain
<1> HIDE DEF k
<1>2. Plain(WithoutRange(t, a, k))
  <2> DEFINE x == WithoutRange(t, a, k)
  <2>1. /\ Len(x) = n - k
        /\ \A i \in 1..a : x[i] = t[i]
        /\ \A i \in (a + 1)..(n - k) : x[i] = t[k + i]
    BY <1>n, RemovedText
  <2>2. \A i \in (a + 1)..(n - k) : k + i \in 1..n
    BY <1>n
  <2>3. \A i \in 1..(n - k) : i \in 1..a \/ i \in (a + 1)..(n - k)
    BY <1>n
  <2>4. \A i \in 1..a : i \in 1..n
    BY <1>n
  <2> HIDE DEF x, n
  <2>5. \A i \in 1..Len(x) : x[i] # CR
    BY <1>t, <2>1, <2>2, <2>3, <2>4
  <2>6. QED
    BY <2>5 DEF Plain, x
<1>3. ASSUME Plain(u) PROVE Plain(WithInserted(t, a, u))
  <2> DEFINE x == WithInserted(t, a, u)
  <2>1. /\ Len(x) = n + m
        /\ \A i \in 1..a : x[i] = t[i]
        /\ \A i \in 1..m : x[a + i] = u[i]
        /\ \A i \in (a + 1)..n : x[m + i] = t[i]
    BY InsertedText
  <2>u. \A i \in 1..m : u[i] # CR
    BY <1>3 DEF Plain
  <2> HIDE DEF x, n, m
  <2>2. ASSUME NEW i \in 1..(n + m) PROVE x[i] # CR
    <3>1. CASE i \in 1..a
      <4>1. i \in 1..n
        BY <1>n, <3>1
      <4>2. x[i] = t[i]
        BY <2>1, <3>1
      <4>3. QED
        BY <1>t, <4>1, <4>2
    <3>2. CASE i \in (a + 1)..(a + m)
      <4>1. i - a \in 1..m /\ a + (i - a) = i
        BY <1>n, <3>2
      <4>2. x[a + (i - a)] # CR
        BY <2>u, <2>1, <4>1
      <4>3. QED
        BY <4>1, <4>2
    <3>3. CASE i \in (a + m + 1)..(n + m)
      <4>1. i - m \in (a + 1)..n /\ m + (i - m) = i /\ i - m \in 1..n
        BY <1>n, <3>3
      <4>2. x[m + (i - m)] # CR
        BY <1>t, <2>1, <4>1
      <4>3. QED
        BY <4>1, <4>2
    <3>4. QED
      BY <1>n, <3>1, <3>2, <3>3
  <2>3. QED
    BY <2>1, <2>2 DEF Plain, x
<1>4. ASSUME NEW v \in Text, NEW w \in Text, Plain(v), Plain(w) PROVE Plain(v \o w)
  <2>1. /\ Len(v \o w) = Len(v) + Len(w)
        /\ \A i \in 1..Len(v) : (v \o w)[i] = v[i]
        /\ \A i \in 1..Len(w) : (v \o w)[Len(v) + i] = w[i]
    BY JoinText
  <2>2. Len(v) \in Nat /\ Len(w) \in Nat
    BY DEF Text
  <2>3. ASSUME NEW i \in 1..(Len(v) + Len(w)) PROVE (v \o w)[i] # CR
    <3>1. CASE i \in 1..Len(v)
      BY <1>4, <2>1, <3>1 DEF Plain
    <3>2. CASE i \notin 1..Len(v)
      <4>1. i - Len(v) \in 1..Len(w) /\ Len(v) + (i - Len(v)) = i
        BY <2>2, <3>2
      <4>2. QED
        BY <1>4, <2>1, <4>1 DEF Plain
    <3>3. QED
      BY <3>1, <3>2
  <2>4. QED
    BY <2>1, <2>3 DEF Plain
<1>5. QED
  BY <1>1, <1>2, <1>3, <1>4 DEF k

(* EndOf counts lines and columns of the inserted text alone, and still     *)
(* names the place behind it.                                               *)
LEMMA EndOfPlace ==
  ASSUME NEW t \in Text, NEW p \in 0..Len(t), NEW u \in Text
  PROVE  LET n == CrLfToNl(u)
             w == WithInserted(t, p, n)
         IN  p + Len(n) \in 0..Len(w) /\ EndOf(PosOf(t, p), u) = PosOf(w, p + Len(n))
<1> DEFINE n == CrLfToNl(u)
           w == WithInserted(t, p, n)
           m == Len(n)
           last == NewlinesBefore(n, m)
           row == NewlinesBefore(t, p)
<1>n. n \in Text
  BY CrLfText
<1> HIDE DEF n
<1>m. m \in Nat /\ Len(t) \in Nat /\ p \in Nat /\ p <= Len(t)
  BY <1>n DEF Text
<1>1. /\ w \in Text /\ Len(w) = Len(t) + m
      /\ \A i \in 1..p : w[i] = t[i] 
      /\ \A i \in 1..m : w[p + i] = n[i]
  BY <1>n, InsertedText
<1>2. p \in 0..Len(w) /\ p + m \in 0..Len(w)
  BY <1>m, <1>1
<1> HIDE DEF w
<1>3. last \in Nat /\ row \in Nat
  BY <1>m, NewlinesNat
<1>4. NewlinesBefore(w, p) = row
  BY <1>1, <1>m, NewlinesPrefix
<1>5. ASSUME NEW k \in 0..m PROVE NewlinesBefore(w, p + k) = row + NewlinesBefore(n, k)
  <2>1. k \in Nat /\ \A i \in 1..k : w[p + i] = n[i]
    BY <1>1, <1>m
  <2>2. QED
    BY <1>4, <1>m, <2>1, NewlinesShift
<1>6. LineEnd(n, last) = m /\ LineStart(n, last) \in 0..m
      /\ LineLen(n, last) = m - LineStart(n, last)
  <2>1. m \in 0..m /\ IsEnd(n, m)
    BY <1>m DEF IsEnd
  <2>2. LineEnd(n, last) = m
    BY <1>n, <2>1, LineEndIs
  <2>3. LineStart(n, last) \in 0..m /\ LineLen(n, last) = LineEnd(n, last) - LineStart(n, last)
    BY <1>n, <2>1, LineOf
  <2>4. QED
    BY <2>2, <2>3
<1>7. NewlinesBefore(w, p + m) = row + last
  BY <1>5, <1>m
<1>8. PosOf(w, p + m) = <<row + last, (p + m) - LineStart(w, row + last)>>
  BY <1>7 DEF PosOf
<1>9. PosOf(t, p) = <<row, p - LineStart(t, row)>>
  BY DEF PosOf
<1>10. LineCount(n) - 1 = last
  BY <1>3 DEF LineCount
<1>11. EndOf(PosOf(t, p), u) =
         <<row + last, (IF last = 0 THEN p - LineStart(t, row) ELSE 0) + LineLen(n, last)>>
  <2>1. \A q : EndOf(q, u) =
          <<q[1] + (LineCount(n) - 1),
            (IF LineCount(n) - 1 = 0 THEN q[2] ELSE 0) + LineLen(n, LineCount(n) - 1)>>
    BY DEF EndOf, n
  <2>2. EndOf(PosOf(t, p), u) =
          <<PosOf(t, p)[1] + last, (IF last = 0 THEN PosOf(t, p)[2] ELSE 0) + LineLen(n, last)>>
    BY <1>10, <2>1
  <2> HIDE DEF last, row
  <2>3. QED
    BY <1>9, <2>2
<1> HIDE DEF last, m
<1>12. CASE last = 0
  <2>1. LineStart(n, 0) = 0
    <3>1. 0 \in 0..Len(n) /\ IsStart(n, 0)
      BY <1>m DEF IsStart, m
    <3>2. LineStart(n, NewlinesBefore(n, 0)) = 0
      BY <1>n, <3>1, LineStartIs
    <3>3. QED
      BY <3>2, NoNewlines
  <2>2. PICK s \in 0..p : IsStart(t, s) /\ NewlinesBefore(t, s) = row
    BY StartBehind
  <2>3. s \in 0..Len(t) /\ s \in 0..Len(w) /\ s \in Nat /\ \A i \in 1..s : w[i] = t[i]
    BY <1>m, <1>1, <1>2
  <2>4. IsStart(w, s) /\ NewlinesBefore(w, s) = row
    <3>1. s = 0 \/ s \in 1..s
      BY <2>3
    <3>2. NewlinesBefore(w, s) = NewlinesBefore(t, s)
      BY <2>3, NewlinesPrefix
    <3>3. QED
      BY <2>2, <2>3, <3>1, <3>2 DEF IsStart
  <2>5. LineStart(w, row) = s /\ LineStart(t, row) = s
    BY <1>1, <2>2, <2>3, <2>4, LineStartIs
  <2>6. (p - s) + (m - 0) = (p + m) - s
    BY <1>m, <2>3
  <2>7. row + last = row
    BY <1>3, <1>12
  <2> HIDE DEF row
  <2>8. QED
    BY <1>2, <1>6, <1>8, <1>11, <1>12, <2>1, <2>5, <2>6, <2>7 DEF m, n, w
<1>13. CASE last # 0
  <2> DEFINE s == LineStart(n, last)
  <2>1. PICK b \in 0..Len(n) : IsStart(n, b) /\ NewlinesBefore(n, b) = last
    BY <1>n, <1>m, StartBehind DEF last, m
  <2>2. s = b
    BY <1>n, <2>1, LineStartIs
  <2>3. b # 0 /\ b \in 1..m /\ p + b \in 0..Len(w)
    <3>1. b # 0
      BY <1>13, <2>1, NoNewlines
    <3>2. QED
      BY <3>1, <1>m, <1>1 DEF m
  <2>4. IsStart(w, p + b)
    BY <1>1, <2>1, <2>3 DEF IsStart
  <2>5. NewlinesBefore(w, p + b) = row + last
    BY <1>5, <2>1, <2>3
  <2>6. LineStart(w, row + last) = p + b
    <3>1. LineStart(w, NewlinesBefore(w, p + b)) = p + b
      BY <1>1, <2>3, <2>4, LineStartIs
    <3>2. QED
      BY <2>5, <3>1
  <2>7. (p + m) - (p + b) = 0 + (m - b)
    BY <1>m, <2>3
  <2> HIDE DEF s
  <2>8. LineLen(n, last) = m - b
    BY <1>6, <2>2 DEF s
  <2> HIDE DEF row
  <2>9. QED
    BY <1>2, <1>8, <1>11, <1>13, <2>6, <2>7, <2>8 DEF m, n, w
<1>14. QED
  BY <1>12, <1>13

----------------------------------------------------------------------------
(* The inductive invariant *)

Journaled ==
  [kind : {"Inserted", "Deleted"}, start : Pos, end : Pos, text : Text,
   cursor_before : Pos, cursor_after : Pos, was : Text, now : Text]

(* An entry leads from the text before its edit to the text after it, by    *)
(* its own record of place and characters alone.                            *)
Inserts(op) ==
  /\ op.kind = "Inserted" /\ ~ LoneReturn(op.text)
  /\ \E lo \in 0..Len(op.was) :
        /\ op.start = PosOf(op.was, lo)
        /\ op.now = WithInserted(op.was, lo, CrLfToNl(op.text))
        /\ op.end = PosOf(op.now, lo + Len(CrLfToNl(op.text)))

Deletes(op) ==
  /\ op.kind = "Deleted" /\ Plain(op.text)
  /\ \E lo \in 0..Len(op.now) :
        op.start = PosOf(op.now, lo) /\ op.was = WithInserted(op.now, lo, op.text)

Fits(op) ==
  /\ Plain(op.was) /\ Plain(op.now)
  /\ op.cursor_before \in Positions(op.was) /\ op.cursor_after \in Positions(op.now)
  /\ Inserts(op) \/ Deletes(op)

UndoSound(t, s) ==
  /\ s \in Seq(Journaled)
  /\ \A i \in 1..Len(s) :
        Fits(s[i]) /\ s[i].now = IF i = Len(s) THEN t ELSE s[i + 1].was

RedoSound(t, s) ==
  /\ s \in Seq(Journaled)
  /\ \A i \in 1..Len(s) :
        Fits(s[i]) /\ s[i].was = IF i = Len(s) THEN t ELSE s[i + 1].now

Shape(e) ==
  /\ e = [text |-> e.text, cursor |-> e.cursor, anchor |-> e.anchor, undo |-> e.undo,
          redo |-> e.redo, coalesce |-> e.coalesce, strayed |-> e.strayed,
          aborted |-> e.aborted]
  /\ e.strayed \in BOOLEAN /\ e.aborted \in BOOLEAN

(* Typed characters merge into an entry of typed characters only.           *)
Kept(e) ==
  /\ e.text \in Text /\ Plain(e.text)
  /\ e.cursor \in Positions(e.text) /\ e.anchor \in Positions(e.text)
  /\ UndoSound(e.text, e.undo)
  /\ Extends(e, "Inserted", "Insert") => Plain(Last(e.undo).text)

Sound(e) == Shape(e) /\ (~ e.strayed => Kept(e))

(* What an edit keeps while it is still going on is Sound, what it leaves   *)
(* is Whole.                                                                *)
Whole(e) == Sound(e) /\ (~ e.strayed => RedoSound(e.text, e.redo))

EditorInv == Whole(ed)

----------------------------------------------------------------------------
(* The journal as a stack *)

LEMMA PushSound ==
  ASSUME NEW t \in Text, NEW s, UndoSound(t, s), NEW op \in Journaled, Fits(op), op.was = t
  PROVE  LET a == Append(s, op)
             r == IF Len(a) > UndoCap THEN Tail(a) ELSE a
         IN  UndoSound(op.now, a) /\ UndoSound(op.now, r) /\ r # <<>> /\ Last(r) = op
<1> DEFINE a == Append(s, op)
           n == Len(s)
<1>1. s \in Seq(Journaled) /\ n \in Nat /\ UndoCap \in Nat /\ UndoCap > 0
  BY EditorAssumption DEF UndoSound
<1>2. /\ a \in Seq(Journaled) /\ Len(a) = n + 1 /\ a[n + 1] = op
      /\ \A i \in 1..n : a[i] = s[i]
  BY <1>1
<1>3. \A i \in 1..n : Fits(s[i]) /\ s[i].now = IF i = n THEN t ELSE s[i + 1].was
  BY DEF UndoSound
<1> HIDE DEF a, n
<1>4. ASSUME NEW i \in 1..(n + 1)
      PROVE  Fits(a[i]) /\ a[i].now = IF i = n + 1 THEN op.now ELSE a[i + 1].was
  <2>1. CASE i = n + 1
    BY <1>2, <2>1
  <2>2. CASE i = n
    <3>1. i \in 1..n /\ i # n + 1
      BY <1>1, <2>2
    <3>2. QED
      BY <1>2, <1>3, <2>2, <3>1
  <2>3. CASE i < n
    <3>1. i \in 1..n /\ i + 1 \in 1..n /\ i # n /\ i # n + 1
      BY <1>1, <2>3
    <3>2. QED
      BY <1>2, <1>3, <3>1
  <2>4. QED
    BY <1>1, <2>1, <2>2, <2>3
<1>5. UndoSound(op.now, a)
  BY <1>2, <1>4 DEF UndoSound
<1>6. a # <<>> /\ Last(a) = op
  BY <1>1, <1>2 DEF Last
<1>7. ASSUME n > 0
      PROVE  UndoSound(op.now, Tail(a)) /\ Tail(a) # <<>> /\ Last(Tail(a)) = op
  <2> DEFINE b == Tail(a)
  <2>1. /\ b \in Seq(Journaled) /\ Len(b) = n
        /\ \A i \in 1..n : b[i] = a[i + 1]
    BY <1>1, <1>2, <1>7
  <2> HIDE DEF b
  <2>2. ASSUME NEW i \in 1..n
        PROVE  Fits(b[i]) /\ b[i].now = IF i = n THEN op.now ELSE b[i + 1].was
    <3>1. i + 1 \in 1..(n + 1) /\ (i + 1 = n + 1 <=> i = n)
      BY <1>1
    <3>2. CASE i = n
      BY <1>4, <2>1, <3>1, <3>2
    <3>3. CASE i # n
      <4>1. i + 1 \in 1..n
        BY <1>1, <3>3
      <4>2. QED
        BY <1>4, <2>1, <3>1, <3>3, <4>1
    <3>4. QED
      BY <3>2, <3>3
  <2>3. UndoSound(op.now, b)
    BY <2>1, <2>2 DEF UndoSound
  <2>4. b # <<>> /\ Last(b) = op
    BY <1>1, <1>2, <1>7, <2>1 DEF Last
  <2>5. QED
    BY <2>3, <2>4 DEF b
<1>8. CASE Len(a) > UndoCap
  <2>1. n > 0
    BY <1>1, <1>2, <1>8
  <2>2. QED
    BY <1>5, <1>7, <1>8, <2>1 DEF a
<1>9. QED
  BY <1>5, <1>6, <1>8 DEF a

LEMMA MergeSound ==
  ASSUME NEW t \in Text, NEW s, UndoSound(t, s), s # <<>>,
         NEW op \in Journaled, Fits(op), op.was = Last(s).was
  PROVE  LET r == [s EXCEPT ![Len(s)] = op] IN UndoSound(op.now, r) /\ r # <<>> /\ Last(r) = op
<1> DEFINE n == Len(s)
           r == [s EXCEPT ![n] = op]
<1>1. s \in Seq(Journaled) /\ n \in Nat /\ n > 0 /\ Last(s) = s[n]
  BY DEF UndoSound, Last
<1>2. r \in Seq(Journaled) /\ Len(r) = n /\ r[n] = op /\ \A i \in 1..n : i # n => r[i] = s[i]
  BY <1>1
<1>3. \A i \in 1..n : Fits(s[i]) /\ s[i].now = IF i = n THEN t ELSE s[i + 1].was
  BY DEF UndoSound
<1> HIDE DEF n, r
<1>4. ASSUME NEW i \in 1..n
      PROVE  Fits(r[i]) /\ r[i].now = IF i = n THEN op.now ELSE r[i + 1].was
  <2>1. CASE i = n
    BY <1>2, <2>1
  <2>2. CASE i # n
    <3>1. i + 1 \in 1..n
      BY <1>1, <2>2
    <3>2. Fits(r[i]) /\ r[i].now = s[i + 1].was
      BY <1>2, <1>3, <2>2
    <3>3. CASE i + 1 = n
      BY <1>1, <1>2, <2>2, <3>1, <3>2, <3>3
    <3>4. CASE i + 1 # n
      BY <1>2, <2>2, <3>1, <3>2, <3>4
    <3>5. QED
      BY <3>3, <3>4
  <2>3. QED
    BY <2>1, <2>2
<1>5. UndoSound(op.now, r)
  BY <1>2, <1>4 DEF UndoSound
<1>6. r # <<>> /\ Last(r) = op
  BY <1>1, <1>2 DEF Last
<1>7. QED
  BY <1>5, <1>6 DEF r, n

LEMMA FrontOf ==
  ASSUME NEW S, NEW s \in Seq(S), s # <<>>
  PROVE  /\ Len(s) \in Nat /\ Len(s) > 0 /\ Last(s) = s[Len(s)] /\ Last(s) \in S
         /\ Front(s) \in Seq(S) /\ Len(Front(s)) = Len(s) - 1
         /\ \A i \in 1..(Len(s) - 1) : Front(s)[i] = s[i]
<1>1. Len(s) \in Nat /\ Len(s) > 0
  OBVIOUS
<1>2. s[Len(s)] \in S
  BY <1>1
<1> DEFINE n == Len(s) - 1
<1>3. n \in Nat /\ \A i \in 1..n : i \in 1..Len(s) /\ i = 1 + i - 1
  BY <1>1
<1>4. \A i \in 1..n : s[i] \in S
  BY <1>3
<1>5. SubSeq(s, 1, n) \in Seq(S) /\ Len(SubSeq(s, 1, n)) = n
      /\ \A i \in 1..n : SubSeq(s, 1, n)[i] = s[i]
  <2> HIDE DEF n
  <2>1. QED
    BY <1>3, <1>4
<1>6. QED
  BY <1>1, <1>2, <1>5 DEF Front, Last

LEMMA UndoTop ==
  ASSUME NEW t \in Text, NEW s, UndoSound(t, s), s # <<>>
  PROVE  /\ Last(s) \in Journaled /\ Fits(Last(s)) /\ Last(s).now = t
         /\ UndoSound(Last(s).was, Front(s)) /\ Len(s) \in Nat /\ Len(s) > 0
         /\ Len(Front(s)) = Len(s) - 1 /\ \A i \in 1..(Len(s) - 1) : Front(s)[i] = s[i]
<1> DEFINE n == Len(s)
           f == Front(s)
<1>1. s \in Seq(Journaled) /\ n \in Nat /\ n > 0 /\ Last(s) = s[n] /\ n \in 1..n
  <2>1. s \in Seq(Journaled)
    BY DEF UndoSound
  <2>2. n \in Nat /\ n > 0 /\ Last(s) = s[n]
    BY <2>1, FrontOf
  <2>3. QED
    BY <2>1, <2>2
<1>2. f \in Seq(Journaled) /\ Len(f) = n - 1 /\ \A i \in 1..(n - 1) : f[i] = s[i]
  BY <1>1, FrontOf
<1>3. \A i \in 1..n : Fits(s[i]) /\ s[i].now = IF i = n THEN t ELSE s[i + 1].was
  BY DEF UndoSound
<1> HIDE DEF n, f
<1>4. ASSUME NEW i \in 1..(n - 1)
      PROVE  Fits(f[i]) /\ f[i].now = IF i = n - 1 THEN s[n].was ELSE f[i + 1].was
  <2>1. i \in 1..n /\ i + 1 \in 1..n /\ i # n
    BY <1>1
  <2>2. CASE i = n - 1
    <3>1. i + 1 = n
      BY <1>1, <2>2
    <3>2. QED
      BY <1>2, <1>3, <2>1, <2>2, <3>1
  <2>3. CASE i # n - 1
    <3>1. i + 1 \in 1..(n - 1)
      BY <1>1, <2>3
    <3>2. QED
      BY <1>2, <1>3, <2>1, <2>3, <3>1
  <2>4. QED
    BY <2>2, <2>3
<1>5. UndoSound(s[n].was, f)
  BY <1>2, <1>4 DEF UndoSound
<1>6. s[n] \in Journaled /\ Fits(s[n]) /\ s[n].now = t
  <2>1. s[n] \in Journaled
    BY <1>1, FrontOf
  <2>2. QED
    BY <1>1, <1>3, <2>1
<1>7. QED
  BY <1>1, <1>2, <1>5, <1>6 DEF n, f

LEMMA RedoTop ==
  ASSUME NEW t \in Text, NEW s, RedoSound(t, s), s # <<>>
  PROVE  /\ Last(s) \in Journaled /\ Fits(Last(s)) /\ Last(s).was = t
         /\ RedoSound(Last(s).now, Front(s))
<1> DEFINE n == Len(s)
           f == Front(s)
<1>1. s \in Seq(Journaled) /\ n \in Nat /\ n > 0 /\ Last(s) = s[n] /\ n \in 1..n
  <2>1. s \in Seq(Journaled)
    BY DEF RedoSound
  <2>2. n \in Nat /\ n > 0 /\ Last(s) = s[n]
    BY <2>1, FrontOf
  <2>3. QED
    BY <2>1, <2>2
<1>2. f \in Seq(Journaled) /\ Len(f) = n - 1 /\ \A i \in 1..(n - 1) : f[i] = s[i]
  BY <1>1, FrontOf
<1>3. \A i \in 1..n : Fits(s[i]) /\ s[i].was = IF i = n THEN t ELSE s[i + 1].now
  BY DEF RedoSound
<1> HIDE DEF n, f
<1>4. ASSUME NEW i \in 1..(n - 1)
      PROVE  Fits(f[i]) /\ f[i].was = IF i = n - 1 THEN s[n].now ELSE f[i + 1].now
  <2>1. i \in 1..n /\ i + 1 \in 1..n /\ i # n
    BY <1>1
  <2>2. CASE i = n - 1
    <3>1. i + 1 = n
      BY <1>1, <2>2
    <3>2. QED
      BY <1>2, <1>3, <2>1, <2>2, <3>1
  <2>3. CASE i # n - 1
    <3>1. i + 1 \in 1..(n - 1)
      BY <1>1, <2>3
    <3>2. QED
      BY <1>2, <1>3, <2>1, <2>3, <3>1
  <2>4. QED
    BY <2>2, <2>3
<1>5. RedoSound(s[n].now, f)
  BY <1>2, <1>4 DEF RedoSound
<1>6. s[n] \in Journaled /\ Fits(s[n]) /\ s[n].was = t
  <2>1. s[n] \in Journaled
    BY <1>1, FrontOf
  <2>2. QED
    BY <1>1, <1>3, <2>1
<1>7. QED
  BY <1>1, <1>2, <1>5, <1>6 DEF n, f

LEMMA RedoPushed ==
  ASSUME NEW t \in Text, NEW s, RedoSound(t, s), NEW op \in Journaled, Fits(op), op.now = t
  PROVE  RedoSound(op.was, Append(s, op))
<1> DEFINE a == Append(s, op)
           n == Len(s)
<1>1. s \in Seq(Journaled) /\ n \in Nat
  BY DEF RedoSound
<1>2. /\ a \in Seq(Journaled) /\ Len(a) = n + 1 /\ a[n + 1] = op
      /\ \A i \in 1..n : a[i] = s[i]
  BY <1>1
<1>3. \A i \in 1..n : Fits(s[i]) /\ s[i].was = IF i = n THEN t ELSE s[i + 1].now
  BY DEF RedoSound
<1> HIDE DEF a, n
<1>4. ASSUME NEW i \in 1..(n + 1)
      PROVE  Fits(a[i]) /\ a[i].was = IF i = n + 1 THEN op.was ELSE a[i + 1].now
  <2>1. CASE i = n + 1
    BY <1>2, <2>1
  <2>2. CASE i = n
    <3>1. i \in 1..n /\ i # n + 1
      BY <1>1, <2>2
    <3>2. QED
      BY <1>2, <1>3, <2>2, <3>1
  <2>3. CASE i < n
    <3>1. i \in 1..n /\ i + 1 \in 1..n /\ i # n /\ i # n + 1
      BY <1>1, <2>3
    <3>2. QED
      BY <1>2, <1>3, <3>1
  <2>4. QED
    BY <1>1, <2>1, <2>2, <2>3
<1>5. RedoSound(op.was, a)
  BY <1>2, <1>4 DEF RedoSound
<1>6. QED
  BY <1>5 DEF a

LEMMA NothingJournaled ==
  ASSUME NEW t
  PROVE  UndoSound(t, <<>>) /\ RedoSound(t, <<>>)
<1>1. <<>> \in Seq(Journaled) /\ Len(<<>>) = 0 /\ 1..0 = {}
  OBVIOUS
<1>2. QED
  BY <1>1 DEF UndoSound, RedoSound

----------------------------------------------------------------------------
(* Splices and the entries made of them *)

LEMMA NothingInserted ==
  ASSUME NEW t \in Text, NEW p \in 0..Len(t)
  PROVE  WithInserted(t, p, <<>>) = t /\ WithoutRange(t, p, 0) = t
<1>1. <<>> \in Text /\ Len(<<>>) = 0 /\ Len(t) \in Nat /\ p \in Nat /\ p <= Len(t)
  BY DEF Text
<1>2. WithInserted(t, p, <<>>) = t
  <2> DEFINE w == WithInserted(t, p, <<>>)
  <2>1. /\ w \in Text /\ Len(w) = Len(t) + 0
        /\ \A i \in 1..p : w[i] = t[i]
        /\ \A i \in (p + 1)..Len(t) : w[0 + i] = t[i]
    BY <1>1, InsertedText
  <2> HIDE DEF w
  <2>2. Len(w) = Len(t) /\ \A i \in 1..Len(t) : i \in 1..p \/ (i \in (p + 1)..Len(t) /\ 0 + i = i)
    BY <1>1, <2>1
  <2>3. \A i \in 1..Len(t) : w[i] = t[i]
    BY <2>1, <2>2
  <2>4. w = t
    BY <2>1, <2>2, <2>3, TextEqual
  <2>5. QED
    BY <2>4 DEF w
<1>3. WithoutRange(t, p, 0) = t
  <2> DEFINE w == WithoutRange(t, p, 0)
  <2>0. 0 \in 0..(Len(t) - p)
    BY <1>1
  <2>1. /\ w \in Text /\ Len(w) = Len(t) - 0
        /\ \A i \in 1..p : w[i] = t[i]
        /\ \A i \in (p + 1)..(Len(t) - 0) : w[i] = t[0 + i]
    BY <2>0, RemovedText
  <2> HIDE DEF w
  <2>2. Len(w) = Len(t)
        /\ \A i \in 1..Len(t) : i \in 1..p \/ (i \in (p + 1)..(Len(t) - 0) /\ 0 + i = i)
    BY <1>1, <2>1
  <2>3. \A i \in 1..Len(t) : w[i] = t[i]
    BY <2>1, <2>2
  <2>4. w = t
    BY <2>1, <2>2, <2>3, TextEqual
  <2>5. QED
    BY <2>4 DEF w
<1>4. QED
  BY <1>2, <1>3

LEMMA SplicedIn ==
  ASSUME NEW e, Shape(e), NEW pos, NEW u
  PROVE  LET d == SpliceIn(e, pos, u) IN
           /\ Shape(d) /\ d.strayed = e.strayed
           /\ d.cursor = e.cursor /\ d.anchor = e.anchor
           /\ d.undo = e.undo /\ d.redo = e.redo /\ d.coalesce = e.coalesce
           /\ (e.text \in Text /\ pos \in Positions(e.text) /\ u \in Text /\ ~ LoneReturn(u))
                => d.text = WithInserted(e.text, Offset(e.text, pos), CrLfToNl(u))
<1> DEFINE n == CrLfToNl(u)
           d == SpliceIn(e, pos, u)
<1>1. CASE n = <<>>
  <2>1. d = e
    BY <1>1 DEF SpliceIn
  <2>2. ASSUME e.text \in Text, pos \in Positions(e.text)
        PROVE  e.text = WithInserted(e.text, Offset(e.text, pos), n)
    BY <1>1, <2>2, OffsetsOfPlaces, NothingInserted
  <2> HIDE DEF d, n
  <2>3. QED
    BY <2>1, <2>2 DEF n, d
<1>2. CASE n # <<>>
  <2> DEFINE w == WithInserted(e.text, Offset(e.text, pos), CodePoints(n))
  <2>1. d = [e EXCEPT !.text = w]
    BY <1>2 DEF SpliceIn
  <2>2. ASSUME u \in Text, ~ LoneReturn(u)
        PROVE  CodePoints(n) = n
    <3>1. n \in Text /\ Plain(n)
      BY <2>2, CrLfText
    <3>2. QED
      BY <3>1, PointsText
  <2>3. ASSUME u \in Text, ~ LoneReturn(u)
        PROVE  w = WithInserted(e.text, Offset(e.text, pos), n)
    BY <2>2, <2>3
  <2> HIDE DEF d, n, w
  <2>4. /\ Shape(d) /\ d.strayed = e.strayed /\ d.text = w
        /\ d.cursor = e.cursor /\ d.anchor = e.anchor
        /\ d.undo = e.undo /\ d.redo = e.redo /\ d.coalesce = e.coalesce
    BY <2>1 DEF Shape
  <2>5. QED
    BY <2>3, <2>4 DEF n, d
<1>3. QED
  BY <1>1, <1>2

LEMMA SplicedOut ==
  ASSUME NEW e, Shape(e), NEW p, NEW q
  PROVE  LET d == SpliceOut(e, p, q)
             lo == Offset(e.text, p)
             hi == Offset(e.text, q)
         IN  /\ Shape(d) /\ d.strayed = e.strayed
             /\ d.cursor = e.cursor /\ d.anchor = e.anchor
             /\ d.undo = e.undo /\ d.redo = e.redo /\ d.coalesce = e.coalesce
             /\ (e.text \in Text /\ p \in Positions(e.text) /\ q \in Positions(e.text) /\ lo <= hi)
                  => d.text = WithoutRange(e.text, lo, hi - lo)
<1> DEFINE d == SpliceOut(e, p, q)
           lo == Offset(e.text, p)
           hi == Offset(e.text, q)
<1>1. CASE p = q
  <2>1. d = e
    BY <1>1 DEF SpliceOut
  <2>2. ASSUME e.text \in Text, p \in Positions(e.text)
        PROVE  e.text = WithoutRange(e.text, lo, hi - lo)
    <3>1. lo \in 0..Len(e.text) /\ lo = hi
      BY <1>1, <2>2, OffsetsOfPlaces
    <3>2. hi - lo = 0
      BY <3>1, <2>2 DEF Text
    <3>3. WithoutRange(e.text, lo, 0) = e.text
      BY <2>2, <3>1, NothingInserted
    <3> HIDE DEF lo, hi
    <3>4. QED
      BY <3>2, <3>3
  <2> HIDE DEF d
  <2>3. QED
    BY <2>1, <2>2 DEF d
<1>2. CASE p # q
  <2> DEFINE k == Max({hi - lo, 0})
             w == WithoutRange(e.text, lo, k)
  <2>1. d = [e EXCEPT !.text = w]
    BY <1>2 DEF SpliceOut
  <2>2. ASSUME e.text \in Text, p \in Positions(e.text), q \in Positions(e.text), lo <= hi
        PROVE  k = hi - lo
    <3>1. lo \in Nat /\ hi \in Nat
      BY <2>2, OffsetsOfPlaces DEF Text
    <3> HIDE DEF lo, hi
    <3>2. QED
      BY <2>2, <3>1 DEF Max
  <2>3. ASSUME e.text \in Text, p \in Positions(e.text), q \in Positions(e.text), lo <= hi
        PROVE  w = WithoutRange(e.text, lo, hi - lo)
    BY <2>2, <2>3
  <2> HIDE DEF d, w, k
  <2>4. /\ Shape(d) /\ d.strayed = e.strayed /\ d.text = w
        /\ d.cursor = e.cursor /\ d.anchor = e.anchor
        /\ d.undo = e.undo /\ d.redo = e.redo /\ d.coalesce = e.coalesce
    BY <2>1 DEF Shape
  <2>5. QED
    BY <2>3, <2>4 DEF d
<1>3. QED
  BY <1>1, <1>2

LEMMA InsertedEntry ==
  ASSUME NEW was \in Text, Plain(was), NEW p \in Positions(was), NEW u \in Text, ~ LoneReturn(u)
  PROVE  LET now == WithInserted(was, Offset(was, p), CrLfToNl(u))
             end == EndOf(p, u)
             op == Entry("Inserted", p, end, u, p, end, was, now)
         IN  /\ now \in Text /\ Plain(now) /\ end \in Positions(now)
             /\ op \in Journaled /\ Fits(op)
<1> DEFINE n == CrLfToNl(u)
           lo == Offset(was, p)
           now == WithInserted(was, lo, n)
           end == EndOf(p, u)
           op == Entry("Inserted", p, end, u, p, end, was, now)
<1>1. p \in Pos /\ lo \in 0..Len(was) /\ p = PosOf(was, lo)
  BY OffsetsOfPlaces
<1>2. n \in Text /\ Plain(n)
  BY CrLfText
<1>3. lo + Len(n) \in 0..Len(now) /\ end = PosOf(now, lo + Len(n))
  <2>1. /\ lo + Len(n) \in 0..Len(now)
        /\ EndOf(PosOf(was, lo), u) = PosOf(now, lo + Len(n))
    BY <1>1, EndOfPlace
  <2>2. QED
    BY <1>1, <2>1
<1> HIDE DEF n, lo
<1>4. now \in Text
  BY <1>1, <1>2, InsertedText
<1>5. Plain(now)
  <2>1. Len(was) \in lo..Len(was)
    BY <1>1 DEF Text
  <2>2. QED
    BY <1>1, <1>2, <2>1, PlainParts
<1> HIDE DEF now
<1>6. end \in Positions(now) /\ end \in Pos
  BY <1>3, <1>4, PlaceOf
<1> HIDE DEF end
<1>7. /\ op.kind = "Inserted" /\ op.start = p /\ op.end = end /\ op.text = u
      /\ op.cursor_before = p /\ op.cursor_after = end /\ op.was = was /\ op.now = now
      /\ op \in Journaled
  BY <1>1, <1>4, <1>6 DEF Entry, Journaled
<1> HIDE DEF op
<1>8. Inserts(op)
  BY <1>1, <1>3, <1>7 DEF Inserts, now, n
<1>9. Fits(op)
  BY <1>5, <1>6, <1>7, <1>8 DEF Fits
<1>10. QED
  BY <1>4, <1>5, <1>6, <1>7, <1>9 DEF op, now, end, n, lo

LEMMA DeletedEntry ==
  ASSUME NEW was \in Text, Plain(was), NEW p \in Positions(was), NEW q \in Positions(was),
         Offset(was, p) <= Offset(was, q), NEW before \in Positions(was)
  PROVE  LET lo == Offset(was, p)
             now == WithoutRange(was, lo, Offset(was, q) - lo)
             text == Between(was, p, q)
             op == Entry("Deleted", p, p, text, before, p, was, now)
         IN  /\ now \in Text /\ Plain(now) /\ p \in Positions(now)
             /\ lo \in 0..Len(now) /\ p = PosOf(now, lo)
             /\ text \in Text /\ Plain(text) /\ was = WithInserted(now, lo, text)
             /\ op \in Journaled /\ Fits(op)
<1> DEFINE lo == Offset(was, p)
           hi == Offset(was, q)
           now == WithoutRange(was, lo, hi - lo)
           text == Between(was, p, q)
           op == Entry("Deleted", p, p, text, before, p, was, now)
<1>1. /\ p \in Pos /\ lo \in 0..Len(was) /\ p = PosOf(was, lo)
      /\ hi \in 0..Len(was) /\ before \in Pos
  BY OffsetsOfPlaces
<1>2. hi \in lo..Len(was)
  BY <1>1 DEF Text
<1>3. text = SubSeq(was, lo + 1, hi)
  BY DEF Between
<1> HIDE DEF lo, hi, text
<1>4. /\ text \in Text /\ lo \in 0..Len(now) /\ now \in Text
      /\ WithInserted(now, lo, text) = was /\ hi - lo \in 0..(Len(was) - lo)
  BY <1>1, <1>2, <1>3, RemovedInserted
<1>5. Plain(text) /\ Plain(now)
  BY <1>1, <1>2, <1>3, PlainParts
<1>6. p = PosOf(now, lo)
  <2>1. /\ lo \in Nat /\ Len(now) = Len(was) - (hi - lo) /\ \A i \in 1..lo : now[i] = was[i]
    <3>1. lo \in Nat
      BY <1>1
    <3>2. QED
      BY <1>1, <1>4, <3>1, RemovedText
  <2>2. lo <= Len(now)
    BY <1>4 DEF Text
  <2> HIDE DEF now
  <2>3. PosOf(was, lo) = PosOf(now, lo)
    BY <1>1, <1>4, <2>1, <2>2, PlaceByPrefix
  <2>4. QED
    BY <1>1, <2>3
<1> HIDE DEF now
<1>7. p \in Positions(now)
  BY <1>4, <1>6, PlaceOf
<1>8. /\ op.kind = "Deleted" /\ op.start = p /\ op.text = text
      /\ op.cursor_before = before /\ op.cursor_after = p /\ op.was = was /\ op.now = now
      /\ op \in Journaled
  BY <1>1, <1>4 DEF Entry, Journaled
<1> HIDE DEF op
<1>9. Deletes(op)
  BY <1>4, <1>5, <1>6, <1>8 DEF Deletes
<1>10. Fits(op)
  BY <1>5, <1>7, <1>8, <1>9 DEF Fits
<1>11. QED
  BY <1>4, <1>5, <1>6, <1>7, <1>8, <1>10 DEF op, now, text, hi, lo

(* What Undo and Redo splice gives back the text on the other side.         *)
LEMMA Undone ==
  ASSUME NEW e, Shape(e), e.text \in Text, NEW op \in Journaled, Fits(op), e.text = op.now
  PROVE  /\ op.kind = "Inserted" => SpliceOut(e, op.start, op.end).text = op.was
         /\ op.kind # "Inserted" => SpliceIn(e, op.start, op.text).text = op.was
<1>1. op.was \in Text /\ op.now \in Text /\ op.text \in Text
  BY DEF Journaled
<1>2. ASSUME op.kind = "Inserted" PROVE SpliceOut(e, op.start, op.end).text = op.was
  <2> DEFINE n == CrLfToNl(op.text)
             t == op.now
  <2>1. PICK lo \in 0..Len(op.was) :
          /\ op.start = PosOf(op.was, lo)
          /\ op.now = WithInserted(op.was, lo, n)
          /\ op.end = PosOf(op.now, lo + Len(n))
    BY <1>2 DEF Fits, Inserts, Deletes
  <2>n. n \in Text
    BY <1>1, CrLfText
  <2> HIDE DEF n
  <2>2. /\ lo \in 0..Len(t) /\ Len(n) \in 0..(Len(t) - lo)
        /\ WithoutRange(t, lo, Len(n)) = op.was
    BY <1>1, <2>1, <2>n, InsertedRemoved
  <2>3. \A i \in 1..lo : t[i] = op.was[i]
    BY <1>1, <2>1, <2>n, InsertedText
  <2>4. Len(t) \in Nat /\ lo \in Nat /\ Len(n) \in Nat /\ lo <= Len(t)
    BY <1>1, <2>2, <2>n DEF Text
  <2>5. lo + Len(n) \in 0..Len(t) /\ lo <= lo + Len(n) /\ (lo + Len(n)) - lo = Len(n)
    BY <2>2, <2>4
  <2>6. PosOf(op.was, lo) = PosOf(t, lo)
    <3>1. \A i \in 1..lo : op.was[i] = t[i]
      BY <2>3
    <3>2. QED
      BY <1>1, <2>1, <2>4, <3>1, PlaceByPrefix
  <2>7. /\ op.start \in Positions(t) /\ Offset(t, op.start) = lo
        /\ op.end \in Positions(t) /\ Offset(t, op.end) = lo + Len(n)
    BY <1>1, <2>1, <2>2, <2>5, <2>6, PlaceOf
  <2>8. SpliceOut(e, op.start, op.end).text = WithoutRange(t, lo, (lo + Len(n)) - lo)
    BY <2>5, <2>7, SplicedOut
  <2>9. QED
    BY <2>2, <2>5, <2>8
<1>3. ASSUME op.kind # "Inserted" PROVE SpliceIn(e, op.start, op.text).text = op.was
  <2>1. Plain(op.text)
    BY <1>3 DEF Fits, Inserts, Deletes
  <2>2. PICK lo \in 0..Len(op.now) :
          op.start = PosOf(op.now, lo) /\ op.was = WithInserted(op.now, lo, op.text)
    BY <1>3 DEF Fits, Inserts, Deletes
  <2>3. CrLfToNl(op.text) = op.text /\ ~ LoneReturn(op.text)
    BY <1>1, <2>1, CrLfText
  <2>4. op.start \in Positions(e.text) /\ Offset(e.text, op.start) = lo
    BY <2>2, PlaceOf
  <2>5. SpliceIn(e, op.start, op.text).text = WithInserted(e.text, lo, op.text)
    BY <1>1, <2>3, <2>4, SplicedIn
  <2>6. QED
    BY <2>2, <2>5
<1>4. QED
  BY <1>2, <1>3

LEMMA Redone ==
  ASSUME NEW e, Shape(e), e.text \in Text, NEW op \in Journaled, Fits(op), e.text = op.was,
         op.kind = "Inserted"
  PROVE  SpliceIn(e, op.start, op.text).text = op.now
<1>1. op.was \in Text /\ op.now \in Text /\ op.text \in Text
  BY DEF Journaled
<1>2. ~ LoneReturn(op.text)
  BY DEF Fits, Inserts, Deletes
<1>3. PICK lo \in 0..Len(op.was) :
        op.start = PosOf(op.was, lo) /\ op.now = WithInserted(op.was, lo, CrLfToNl(op.text))
  BY DEF Fits, Inserts, Deletes
<1>4. op.start \in Positions(e.text) /\ Offset(e.text, op.start) = lo
  BY <1>3, PlaceOf
<1>5. SpliceIn(e, op.start, op.text).text = WithInserted(e.text, lo, CrLfToNl(op.text))
  BY <1>1, <1>2, <1>4, SplicedIn
<1>6. QED
  BY <1>3, <1>5

(* Characters typed behind those of an entry, and characters deleted before *)
(* those of one, make one entry with it.                                    *)
LEMMA MergedInsert ==
  ASSUME NEW old \in Journaled, Fits(old), old.kind = "Inserted", Plain(old.text),
         NEW u \in Text, Plain(u)
  PROVE  LET end == EndOf(old.end, u)
             now == WithInserted(old.now, Offset(old.now, old.end), CrLfToNl(u))
             op == Entry("Inserted", old.start, end, old.text \o u, old.cursor_before, end,
                         old.was, now)
         IN  op \in Journaled /\ Fits(op)
<1> DEFINE x == old.text
           end == EndOf(old.end, u)
           now == WithInserted(old.now, Offset(old.now, old.end), CrLfToNl(u))
           op == Entry("Inserted", old.start, end, x \o u, old.cursor_before, end, old.was, now)
<1>1. /\ old.was \in Text /\ old.now \in Text /\ x \in Text
      /\ old.start \in Pos /\ old.cursor_before \in Pos
  BY DEF Journaled
<1>2. CrLfToNl(x) = x /\ CrLfToNl(u) = u
  BY <1>1, CrLfText
<1>3. PICK lo \in 0..Len(old.was) :
        /\ old.start = PosOf(old.was, lo)
        /\ old.now = WithInserted(old.was, lo, CrLfToNl(x))
        /\ old.end = PosOf(old.now, lo + Len(CrLfToNl(x)))
  BY DEF Fits, Inserts, Deletes
<1> HIDE DEF x
<1> DEFINE m == lo + Len(x)
<1>4. m \in 0..Len(old.now) /\ old.now = WithInserted(old.was, lo, x) /\ old.end = PosOf(old.now, m)
  BY <1>1, <1>2, <1>3, InsertedTwice
<1>5. Offset(old.now, old.end) = m
  BY <1>1, <1>4, PlaceOf
<1>6. now = WithInserted(old.now, m, u)
  BY <1>2, <1>5
<1>7. now = WithInserted(old.was, lo, x \o u)
  BY <1>1, <1>4, <1>6, InsertedTwice
<1>8. x \o u \in Text /\ Len(x \o u) = Len(x) + Len(u)
  BY <1>1, JoinText
<1>9. Plain(x \o u)
  <2>1. 0 \in 0..Len(x) /\ Len(x) \in 0..Len(x)
    BY <1>1 DEF Text
  <2>2. QED
    BY <1>1, <2>1, PlainParts DEF x
<1>10. CrLfToNl(x \o u) = x \o u /\ ~ LoneReturn(x \o u)
  <2> DEFINE y == x \o u
  <2>1. y \in Text /\ Plain(y)
    BY <1>8, <1>9
  <2> HIDE DEF y
  <2>2. CrLfToNl(y) = y /\ ~ LoneReturn(y)
    BY <2>1, CrLfText
  <2>3. QED
    BY <2>2 DEF y
<1>11. m + Len(u) \in 0..Len(now) /\ end = PosOf(now, m + Len(u))
  <2>1. /\ m + Len(CrLfToNl(u)) \in 0..Len(WithInserted(old.now, m, CrLfToNl(u)))
        /\ EndOf(PosOf(old.now, m), u)
             = PosOf(WithInserted(old.now, m, CrLfToNl(u)), m + Len(CrLfToNl(u)))
    <3> HIDE DEF m
    <3>1. QED
      BY <1>1, <1>4, EndOfPlace
  <2>2. QED
    BY <1>2, <1>4, <1>6, <2>1
<1>12. lo + Len(x \o u) = m + Len(u)
  BY <1>1, <1>8 DEF Text
<1>13. Plain(now) /\ now \in Text
  <2>1. Len(old.was) \in lo..Len(old.was) /\ Plain(old.was)
    BY <1>1 DEF Fits, Text
  <2>2. QED
    BY <1>1, <1>7, <1>8, <1>9, <2>1, PlainParts, InsertedText
<1> HIDE DEF m, now
<1>14. end \in Positions(now) /\ end \in Pos
  BY <1>11, <1>13, PlaceOf
<1> HIDE DEF end
<1>15. /\ op.kind = "Inserted" /\ op.start = old.start /\ op.end = end /\ op.text = x \o u
       /\ op.cursor_before = old.cursor_before /\ op.cursor_after = end
       /\ op.was = old.was /\ op.now = now /\ op \in Journaled
  BY <1>1, <1>8, <1>13, <1>14 DEF Entry, Journaled
<1> HIDE DEF op
<1>16. Inserts(op)
  BY <1>3, <1>7, <1>10, <1>11, <1>12, <1>15 DEF Inserts
<1>17. Fits(op)
  BY <1>13, <1>14, <1>15, <1>16 DEF Fits
<1>18. QED
  BY <1>15, <1>17 DEF op, end, now, x

LEMMA MergedDelete ==
  ASSUME NEW old \in Journaled, Fits(old), old.kind = "Deleted",
         NEW p \in Positions(old.now), old.start \in Positions(old.now),
         Offset(old.now, p) <= Offset(old.now, old.start)
  PROVE  LET lo == Offset(old.now, p)
             now == WithoutRange(old.now, lo, Offset(old.now, old.start) - lo)
             op == Entry("Deleted", p, p, Between(old.now, p, old.start) \o old.text,
                         old.cursor_before, p, old.was, now)
         IN  op \in Journaled /\ Fits(op)
<1> DEFINE x == old.text
           lo == Offset(old.now, p)
           hi == Offset(old.now, old.start)
           now == WithoutRange(old.now, lo, hi - lo)
           u == Between(old.now, p, old.start)
           op == Entry("Deleted", p, p, u \o x, old.cursor_before, p, old.was, now)
<1>1. /\ old.was \in Text /\ old.now \in Text /\ x \in Text
      /\ old.cursor_before \in Pos /\ Plain(old.now) /\ Plain(x) /\ Plain(old.was)
      /\ old.cursor_before \in Positions(old.was)
  BY DEF Journaled, Fits, Inserts, Deletes
<1>2. PICK b \in 0..Len(old.now) :
        old.start = PosOf(old.now, b) /\ old.was = WithInserted(old.now, b, x)
  BY DEF Fits, Inserts, Deletes
<1>3. hi = b
  BY <1>1, <1>2, PlaceOf
<1>4. /\ now \in Text /\ Plain(now) /\ p \in Positions(now)
      /\ lo \in 0..Len(now) /\ p = PosOf(now, lo)
      /\ u \in Text /\ Plain(u) /\ old.now = WithInserted(now, lo, u)
  BY <1>1, DeletedEntry
<1>5. Len(u) = hi - lo
  <2>1. lo \in 0..Len(old.now) /\ hi \in lo..Len(old.now)
    BY <1>1, OffsetsOfPlaces DEF Text
  <2>2. u = SubSeq(old.now, lo + 1, hi)
    BY DEF Between
  <2> HIDE DEF u, lo, hi
  <2>3. QED
    BY <1>1, <2>1, <2>2, RemovedInserted
<1>6. lo + Len(u) = b /\ p \in Pos
  <2>1. lo \in Nat /\ b \in Nat /\ p \in Pos
    BY <1>1, <1>2, OffsetsOfPlaces DEF Text
  <2>2. QED
    BY <1>3, <1>5, <2>1
<1> HIDE DEF x, lo, hi, now, u
<1>7. old.was = WithInserted(now, lo, u \o x)
  <2>1. WithInserted(WithInserted(now, lo, u), lo + Len(u), x) = WithInserted(now, lo, u \o x)
    BY <1>1, <1>4, InsertedTwice
  <2>2. QED
    BY <1>2, <1>4, <1>6, <2>1
<1>8. u \o x \in Text /\ Plain(u \o x)
  <2>1. 0 \in 0..Len(u) /\ Len(u) \in 0..Len(u)
    BY <1>4 DEF Text
  <2>2. QED
    BY <1>1, <1>4, <2>1, PlainParts, JoinText
<1>9. /\ op.kind = "Deleted" /\ op.start = p /\ op.text = u \o x
      /\ op.cursor_before = old.cursor_before /\ op.cursor_after = p
      /\ op.was = old.was /\ op.now = now /\ op \in Journaled
  BY <1>1, <1>4, <1>6, <1>8 DEF Entry, Journaled
<1> HIDE DEF op
<1>10. Deletes(op)
  BY <1>4, <1>7, <1>8, <1>9 DEF Deletes
<1>11. Fits(op)
  BY <1>1, <1>4, <1>9, <1>10 DEF Fits
<1>12. QED
  BY <1>9, <1>11 DEF op, now, u, lo, hi, x

----------------------------------------------------------------------------
(* The edits *)

LEMMA Collapsed ==
  ASSUME NEW e, Shape(e), NEW p
  PROVE  LET d == Collapse(e, p) IN
           /\ Shape(d) /\ d.strayed = e.strayed /\ d.text = e.text
           /\ d.cursor = p /\ d.anchor = p
           /\ d.undo = e.undo /\ d.redo = e.redo /\ d.coalesce = e.coalesce
<1> DEFINE a == [e EXCEPT !.cursor = p]
           d == [a EXCEPT !.anchor = p]
<1>1. Collapse(e, p) = d
  BY DEF Collapse
<1>2. /\ Shape(a) /\ a.strayed = e.strayed /\ a.text = e.text /\ a.cursor = p
      /\ a.undo = e.undo /\ a.redo = e.redo /\ a.coalesce = e.coalesce
  BY DEF Shape
<1> HIDE DEF a
<1>3. /\ Shape(d) /\ d.strayed = a.strayed /\ d.text = a.text
      /\ d.cursor = a.cursor /\ d.anchor = p
      /\ d.undo = a.undo /\ d.redo = a.redo /\ d.coalesce = a.coalesce
  BY <1>2 DEF Shape
<1> HIDE DEF d
<1>4. QED
  BY <1>1, <1>2, <1>3

LEMMA CursorSet ==
  ASSUME NEW e, Shape(e), NEW p, NEW extend \in BOOLEAN
  PROVE  LET d == SetCursor(e, p, extend) IN
           /\ Shape(d) /\ d.strayed = e.strayed /\ d.text = e.text
           /\ d.cursor = p /\ d.anchor = (IF extend THEN e.anchor ELSE p)
           /\ d.undo = e.undo /\ d.redo = e.redo /\ d.coalesce = "none"
<1> DEFINE v == IF extend THEN e.anchor ELSE p
           a == [e EXCEPT !.cursor = p]
           b == [a EXCEPT !.anchor = v]
           d == [b EXCEPT !.coalesce = "none"]
<1>1. SetCursor(e, p, extend) = d
  <2>1. SetCursor(e, p, extend) = [e EXCEPT !.cursor = p, !.anchor = v, !.coalesce = "none"]
    BY DEF SetCursor, Shape
  <2> HIDE DEF v
  <2>2. QED
    BY <2>1
<1> HIDE DEF v
<1>2. /\ Shape(a) /\ a.strayed = e.strayed /\ a.text = e.text /\ a.cursor = p
      /\ a.undo = e.undo /\ a.redo = e.redo
  BY DEF Shape
<1> HIDE DEF a
<1>3. /\ Shape(b) /\ b.strayed = a.strayed /\ b.text = a.text /\ b.cursor = a.cursor
      /\ b.anchor = v /\ b.undo = a.undo /\ b.redo = a.redo
  BY <1>2 DEF Shape
<1> HIDE DEF b
<1>4. /\ Shape(d) /\ d.strayed = b.strayed /\ d.text = b.text /\ d.cursor = b.cursor
      /\ d.anchor = b.anchor /\ d.undo = b.undo /\ d.redo = b.redo /\ d.coalesce = "none"
  BY <1>3 DEF Shape
<1> HIDE DEF d
<1>5. QED
  BY <1>1, <1>2, <1>3, <1>4 DEF v

LEMMA Pushed ==
  ASSUME NEW e, Shape(e), NEW op
  PROVE  LET d == PushUndo(e, op)
             s == Append(e.undo, op)
         IN  /\ Shape(d) /\ d.strayed = e.strayed /\ d.text = e.text
             /\ d.cursor = e.cursor /\ d.anchor = e.anchor
             /\ d.undo = (IF Len(s) > UndoCap THEN Tail(s) ELSE s)
             /\ d.redo = e.redo /\ d.coalesce = e.coalesce
<1> DEFINE s == Append(e.undo, op)
           r == IF Len(s) > UndoCap THEN Tail(s) ELSE s
<1>1. PushUndo(e, op) = [e EXCEPT !.undo = r]
  BY DEF PushUndo
<1> HIDE DEF r
<1>2. LET d == [e EXCEPT !.undo = r]
      IN  /\ Shape(d) /\ d.strayed = e.strayed /\ d.text = e.text
          /\ d.cursor = e.cursor /\ d.anchor = e.anchor
          /\ d.undo = r /\ d.redo = e.redo /\ d.coalesce = e.coalesce
  BY DEF Shape
<1>3. QED
  BY <1>1, <1>2 DEF r

LEMMA Selection ==
  ASSUME NEW e, e.text \in Text, e.cursor \in Positions(e.text), e.anchor \in Positions(e.text)
  PROVE  /\ SelStart(e) \in Positions(e.text) /\ SelEnd(e) \in Positions(e.text)
         /\ Offset(e.text, SelStart(e)) <= Offset(e.text, SelEnd(e))
<1> DEFINE t == e.text
           c == e.cursor
           a == e.anchor
           i == Offset(t, a)
           j == Offset(t, c)
<1>1. i \in Nat /\ j \in Nat
  BY OffsetsOfPlaces DEF Text
<1>2. Before(a, c) <=> i < j
  BY PlacesBefore
<1> HIDE DEF i, j
<1>3. CASE i < j
  <2>1. SelStart(e) = a /\ SelEnd(e) = c
    BY <1>2, <1>3 DEF SelStart, SelEnd
  <2>2. QED
    BY <1>1, <1>3, <2>1 DEF i, j
<1>4. CASE ~ (i < j)
  <2>1. SelStart(e) = c /\ SelEnd(e) = a
    BY <1>2, <1>4 DEF SelStart, SelEnd
  <2>2. j <= i
    BY <1>1, <1>4
  <2>3. QED
    BY <2>1, <2>2 DEF i, j
<1>5. QED
  BY <1>3, <1>4

LEMMA SelectionDeleted ==
  ASSUME NEW e, Shape(e)
  PROVE  LET d == DeleteSelection(e)
             lo == Offset(e.text, SelStart(e))
             hi == Offset(e.text, SelEnd(e))
         IN  /\ Shape(d) /\ d.strayed = e.strayed /\ d.redo = e.redo
             /\ d.coalesce \in {e.coalesce, "none"}
             /\ Sound(e) => Sound(d)
             /\ ~ HasSelection(e) => d = e
             /\ Kept(e) => Kept(d) /\ d.anchor = d.cursor
             /\ (Kept(e) /\ HasSelection(e))
                  => d.text = WithoutRange(e.text, lo, hi - lo) /\ d.cursor = SelStart(e)
<1> DEFINE start == SelStart(e)
           end == SelEnd(e)
           x == SpliceOut(e, start, end)
           y == Collapse(x, start)
           z == [y EXCEPT !.coalesce = "none"]
           op == Entry("Deleted", start, start, Between(e.text, start, end), e.cursor, start,
                       e.text, y.text)
           d == PushUndo(z, op)
<1>1. CASE ~ HasSelection(e)
  <2>1. DeleteSelection(e) = e
    BY <1>1 DEF DeleteSelection
  <2>2. e.anchor = e.cursor
    BY <1>1 DEF HasSelection
  <2> DEFINE x0 == DeleteSelection(e)
  <2>3. x0 = e
    BY <2>1
  <2> HIDE DEF x0
  <2>4. QED
    BY <1>1, <2>2, <2>3 DEF x0
<1>2. CASE HasSelection(e)
  <2>0. DeleteSelection(e) = d
    BY <1>2 DEF DeleteSelection
  <2>2. /\ Shape(x) /\ x.strayed = e.strayed /\ x.undo = e.undo /\ x.redo = e.redo
    BY SplicedOut
  <2> HIDE DEF x
  <2>3. /\ Shape(y) /\ y.strayed = e.strayed /\ y.undo = e.undo /\ y.redo = e.redo
        /\ y.text = x.text /\ y.cursor = start /\ y.anchor = start
    BY <2>2, Collapsed
  <2> HIDE DEF y
  <2>4. /\ Shape(z) /\ z.strayed = e.strayed /\ z.undo = e.undo /\ z.redo = e.redo
        /\ z.text = x.text /\ z.cursor = start /\ z.anchor = start /\ z.coalesce = "none"
    BY <2>3 DEF Shape
  <2> DEFINE s == Append(e.undo, op)
             r == IF Len(s) > UndoCap THEN Tail(s) ELSE s
  <2> HIDE DEF z, op
  <2>5. /\ Shape(d) /\ d.strayed = e.strayed /\ d.text = x.text /\ d.undo = r /\ d.redo = e.redo
        /\ d.cursor = start /\ d.anchor = start /\ d.coalesce = "none"
    BY <2>4, Pushed
  <2> HIDE DEF d, r
  <2>6. ASSUME Kept(e)
        PROVE  /\ d.text \in Text /\ Plain(d.text) /\ start \in Positions(d.text)
               /\ UndoSound(d.text, d.undo)
               /\ d.text = WithoutRange(e.text, Offset(e.text, start),
                                        Offset(e.text, end) - Offset(e.text, start))
    <3>1. /\ e.text \in Text /\ Plain(e.text)
          /\ e.cursor \in Positions(e.text) /\ e.anchor \in Positions(e.text)
          /\ UndoSound(e.text, e.undo)
      BY <2>6 DEF Kept
    <3>2. /\ start \in Positions(e.text) /\ end \in Positions(e.text)
          /\ Offset(e.text, start) <= Offset(e.text, end)
      BY <3>1, Selection
    <3> DEFINE now == WithoutRange(e.text, Offset(e.text, start),
                                   Offset(e.text, end) - Offset(e.text, start))
    <3>3. x.text = now
      BY <3>1, <3>2, SplicedOut DEF x
    <3> HIDE DEF start, end
    <3>4. /\ now \in Text /\ Plain(now) /\ start \in Positions(now)
          /\ Entry("Deleted", start, start, Between(e.text, start, end), e.cursor, start,
                   e.text, now) \in Journaled
          /\ Fits(Entry("Deleted", start, start, Between(e.text, start, end), e.cursor, start,
                        e.text, now))
      BY <3>1, <3>2, DeletedEntry
    <3> HIDE DEF now
    <3>5. op = Entry("Deleted", start, start, Between(e.text, start, end), e.cursor, start,
                     e.text, now)
      BY <2>3, <3>3 DEF op
    <3>6. op.was = e.text /\ op.now = now
      BY <3>5 DEF Entry
    <3>7. UndoSound(op.now, r)
      BY <3>1, <3>4, <3>5, <3>6, PushSound DEF r
    <3>8. QED
      BY <2>5, <3>3, <3>4, <3>6, <3>7 DEF now
  <2>7. ~ Extends(d, "Inserted", "Insert")
    BY <2>5 DEF Extends
  <2>8. ASSUME Kept(e) PROVE Kept(d) /\ d.anchor = d.cursor
    BY <2>5, <2>6, <2>7, <2>8 DEF Kept
  <2>9. Sound(e) => Sound(d)
    BY <2>5, <2>8 DEF Sound
  <2>10. QED
    BY <1>2, <2>0, <2>5, <2>6, <2>8, <2>9
<1>3. QED
  BY <1>1, <1>2

LEMMA LongerIs ==
  ASSUME NEW op \in Journaled, op.kind = "Inserted", NEW end, NEW u, NEW now
  PROVE  LongerEntry(op, end, u, now) =
           Entry("Inserted", op.start, end, op.text \o u, op.cursor_before, end, op.was, now)
<1> DEFINE v == op.text \o u
           a == [op EXCEPT !.text = v]
           b == [a EXCEPT !.end = end]
           c == [b EXCEPT !.cursor_after = end]
           d == [c EXCEPT !.now = now]
<1>1. LongerEntry(op, end, u, now) = d
  BY DEF LongerEntry
<1> HIDE DEF v
<1>2. op = Entry("Inserted", op.start, op.end, op.text, op.cursor_before, op.cursor_after,
                 op.was, op.now)
  BY DEF Journaled, Entry
<1>3. a = Entry("Inserted", op.start, op.end, v, op.cursor_before, op.cursor_after,
                op.was, op.now)
  BY <1>2 DEF Entry
<1> HIDE DEF a
<1>4. b = Entry("Inserted", op.start, end, v, op.cursor_before, op.cursor_after,
                op.was, op.now)
  BY <1>3 DEF Entry
<1> HIDE DEF b
<1>5. c = Entry("Inserted", op.start, end, v, op.cursor_before, end, op.was, op.now)
  BY <1>4 DEF Entry
<1> HIDE DEF c
<1>6. d = Entry("Inserted", op.start, end, v, op.cursor_before, end, op.was, now)
  BY <1>5 DEF Entry
<1>7. QED
  BY <1>1, <1>6 DEF v

LEMMA EarlierIs ==
  ASSUME NEW op \in Journaled, op.kind = "Deleted", NEW start, NEW removed, NEW now
  PROVE  EarlierEntry(op, start, removed, now) =
           Entry("Deleted", start, start, removed \o op.text, op.cursor_before, start, op.was, now)
<1> DEFINE v == removed \o op.text
           a == [op EXCEPT !.text = v]
           b == [a EXCEPT !.start = start]
           c == [b EXCEPT !.end = start]
           d == [c EXCEPT !.cursor_after = start]
           e == [d EXCEPT !.now = now]
<1>1. EarlierEntry(op, start, removed, now) = e
  BY DEF EarlierEntry
<1> HIDE DEF v
<1>2. op = Entry("Deleted", op.start, op.end, op.text, op.cursor_before, op.cursor_after,
                 op.was, op.now)
  BY DEF Journaled, Entry
<1>3. a = Entry("Deleted", op.start, op.end, v, op.cursor_before, op.cursor_after,
                op.was, op.now)
  BY <1>2 DEF Entry
<1> HIDE DEF a
<1>4. b = Entry("Deleted", start, op.end, v, op.cursor_before, op.cursor_after,
                op.was, op.now)
  BY <1>3 DEF Entry
<1> HIDE DEF b
<1>5. c = Entry("Deleted", start, start, v, op.cursor_before, op.cursor_after, op.was, op.now)
  BY <1>4 DEF Entry
<1> HIDE DEF c
<1>6. d = Entry("Deleted", start, start, v, op.cursor_before, start, op.was, op.now)
  BY <1>5 DEF Entry
<1> HIDE DEF d
<1>7. e = Entry("Deleted", start, start, v, op.cursor_before, start, op.was, now)
  BY <1>6 DEF Entry
<1>8. QED
  BY <1>1, <1>7 DEF v

LEMMA Inserted ==
  ASSUME NEW e0, Shape(e0), NEW u \in Text, NEW co, co = "Insert" => Plain(u)
  PROVE  LET e == DeleteSelection(e0)
             r == DoInsert(e0, u, co)
         IN  /\ Shape(r) /\ r.redo = <<>> /\ r.strayed = (e0.strayed \/ LoneReturn(u))
             /\ r.coalesce = co
             /\ Sound(e0) => Whole(r)
             /\ (Kept(e0) /\ ~ LoneReturn(u)) =>
                  /\ Kept(r)
                  /\ r.text = WithInserted(e.text, Offset(e.text, e.cursor), CrLfToNl(u))
                  /\ r.cursor = EndOf(e.cursor, u) /\ r.anchor = r.cursor
<1> DEFINE e == DeleteSelection(e0)
           start == e.cursor
           end == EndOf(start, u)
           d == SpliceIn(e, start, u)
           lone == e.strayed \/ LoneReturn(u)
           c == Collapse(d, end)
           f == [c EXCEPT !.redo = <<>>, !.coalesce = co, !.strayed = lone]
           old == Last(e.undo)
           n == Len(e.undo)
           merged == LongerEntry(old, end, u, d.text)
           g == [f EXCEPT !.undo[n] = merged]
           op == Entry("Inserted", start, end, u, start, end, e.text, d.text)
           h == PushUndo(f, op)
           r == DoInsert(e0, u, co)
           merges == co = "Insert" /\ Extends(e, "Inserted", "Insert") /\ old.end = start
<1>1. r = IF merges THEN g ELSE h
  <2>1. f = [Collapse(d, end) EXCEPT !.redo = <<>>, !.coalesce = co,
                                     !.strayed = @ \/ LoneReturn(u)]
    <3>1. c.strayed = e.strayed
      <4>1. Shape(e)
        BY SelectionDeleted
      <4>2. Shape(d) /\ d.strayed = e.strayed
        <5> HIDE DEF e
        <5>1. QED
          BY <4>1, SplicedIn
      <4>3. QED
        <5> HIDE DEF d, e, end
        <5>1. QED
          BY <4>2, Collapsed
    <3> HIDE DEF d, end, e
    <3>2. QED
      BY <3>1
  <2> DEFINE f0 == [Collapse(d, end) EXCEPT !.redo = <<>>, !.coalesce = co,
                                            !.strayed = @ \/ LoneReturn(u)]
  <2>2. r = IF merges THEN [f0 EXCEPT !.undo[n] = merged] ELSE PushUndo(f0, op)
    BY DEF DoInsert
  <2>3. f0 = f
    BY <2>1
  <2> HIDE DEF f0, f, merged, merges, n
  <2>4. QED
    BY <2>2, <2>3
<1> HIDE DEF r
<1>2. /\ e.strayed = e0.strayed /\ Shape(e) /\ e.strayed \in BOOLEAN
      /\ Kept(e0) => Kept(e)
  <2>1. Shape(e) /\ e.strayed = e0.strayed /\ (Kept(e0) => Kept(e))
    BY SelectionDeleted
  <2>2. QED
    BY <2>1 DEF Shape
<1> HIDE DEF e
<1>3. /\ Shape(d) /\ d.strayed = e.strayed /\ d.undo = e.undo /\ d.redo = e.redo
      /\ (e.text \in Text /\ start \in Positions(e.text) /\ u \in Text /\ ~ LoneReturn(u))
           => d.text = WithInserted(e.text, Offset(e.text, start), CrLfToNl(u))
  BY <1>2, SplicedIn
<1> HIDE DEF d, end
<1>4. Shape(c) /\ c.text = d.text /\ c.undo = e.undo /\ c.cursor = end /\ c.anchor = end
  BY <1>3, Collapsed
<1>5. lone \in BOOLEAN
  OBVIOUS
<1> HIDE DEF c, lone
<1>6. /\ Shape(f) /\ f.text = d.text /\ f.undo = e.undo /\ f.cursor = end /\ f.anchor = end
      /\ f.redo = <<>> /\ f.coalesce = co /\ f.strayed = lone
  <2> DEFINE x == [c EXCEPT !.redo = <<>>]
             y == [x EXCEPT !.coalesce = co]
             z == [y EXCEPT !.strayed = lone]
  <2>1. /\ Shape(x) /\ x.text = d.text /\ x.undo = e.undo /\ x.cursor = end /\ x.anchor = end
        /\ x.redo = <<>>
    BY <1>4 DEF Shape
  <2>2. f = z
    OBVIOUS
  <2> HIDE DEF x, f
  <2>3. /\ Shape(y) /\ y.text = d.text /\ y.undo = e.undo /\ y.cursor = end /\ y.anchor = end
        /\ y.redo = <<>> /\ y.coalesce = co
    BY <2>1 DEF Shape
  <2> HIDE DEF y
  <2>4. /\ Shape(z) /\ z.text = d.text /\ z.undo = e.undo /\ z.cursor = end /\ z.anchor = end
        /\ z.redo = <<>> /\ z.coalesce = co /\ z.strayed = lone
    BY <1>5, <2>3 DEF Shape
  <2>5. QED
    BY <2>2, <2>4
<1> HIDE DEF f, merged, n
<1> DEFINE longer == [e.undo EXCEPT ![n] = merged]
           s == Append(e.undo, op)
           more == IF Len(s) > UndoCap THEN Tail(s) ELSE s
           undone == IF merges THEN longer ELSE more
<1>7. /\ Shape(g) /\ g.text = d.text /\ g.undo = longer /\ g.cursor = end /\ g.anchor = end
      /\ g.redo = <<>> /\ g.coalesce = co /\ g.strayed = lone
  <2>1. g = [f EXCEPT !.undo = longer]
    BY <1>6
  <2> HIDE DEF longer, g
  <2>2. QED
    BY <1>6, <2>1 DEF Shape
<1> HIDE DEF g, op
<1>8. /\ Shape(h) /\ h.text = d.text /\ h.undo = more /\ h.cursor = end /\ h.anchor = end
      /\ h.redo = <<>> /\ h.coalesce = co /\ h.strayed = lone
  BY <1>6, Pushed
<1> HIDE DEF h, more, longer, merges
<1>9. /\ Shape(r) /\ r.text = d.text /\ r.undo = undone /\ r.cursor = end /\ r.anchor = end
      /\ r.redo = <<>> /\ r.coalesce = co /\ r.strayed = lone
  <2>1. CASE merges
    BY <1>1, <1>7, <2>1
  <2>2. CASE ~ merges
    BY <1>1, <1>8, <2>2
  <2>3. QED
    BY <2>1, <2>2
<1>10. ASSUME Kept(e0), ~ LoneReturn(u)
       PROVE  /\ d.text \in Text /\ Plain(d.text) /\ end \in Positions(d.text)
              /\ d.text = WithInserted(e.text, Offset(e.text, start), CrLfToNl(u))
              /\ UndoSound(d.text, undone) /\ (co = "Insert" => Plain(Last(undone).text))
  <2>1. Kept(e) /\ ~ LoneReturn(u)
    BY <1>2, <1>10
  <2>2. /\ e.text \in Text /\ Plain(e.text) /\ start \in Positions(e.text)
        /\ UndoSound(e.text, e.undo)
        /\ Extends(e, "Inserted", "Insert") => Plain(Last(e.undo).text)
    BY <2>1 DEF Kept
  <2>3. d.text = WithInserted(e.text, Offset(e.text, start), CrLfToNl(u))
    BY <1>3, <2>1, <2>2
  <2>4. /\ d.text \in Text /\ Plain(d.text) /\ end \in Positions(d.text)
        /\ op \in Journaled /\ Fits(op)
    <3> HIDE DEF start
    <3>1. QED
      BY <2>1, <2>2, <2>3, InsertedEntry DEF op, end
  <2>5. op.was = e.text /\ op.now = d.text /\ op.text = u
    BY DEF op, Entry
  <2>6. CASE ~ merges
    <3>1. UndoSound(op.now, more) /\ Last(more) = op
      BY <2>2, <2>4, <2>5, PushSound DEF more
    <3>2. QED
      BY <2>3, <2>4, <2>5, <2>6, <3>1
  <2>7. ASSUME merges
        PROVE  UndoSound(d.text, undone) /\ Plain(Last(undone).text)
    <3>1. /\ e.undo # <<>> /\ old.kind = "Inserted" /\ old.end = start /\ Plain(old.text)
          /\ Plain(u)
      BY <2>2, <2>7 DEF merges, Extends
    <3>2. old \in Journaled /\ Fits(old) /\ old.now = e.text
      BY <2>2, <3>1, UndoTop
    <3> DEFINE op2 == Entry("Inserted", old.start, end, old.text \o u, old.cursor_before, end,
                            old.was, d.text)
    <3> HIDE DEF old, start
    <3>3. op2 \in Journaled /\ Fits(op2)
      BY <2>3, <3>1, <3>2, MergedInsert DEF end
    <3>4. merged = op2
      BY <3>1, <3>2, LongerIs DEF merged
    <3>5. op2.was = old.was /\ op2.now = d.text /\ op2.text = old.text \o u
      BY DEF Entry
    <3> HIDE DEF op2
    <3>6. UndoSound(d.text, longer) /\ Last(longer) = op2
      BY <2>2, <3>1, <3>3, <3>4, <3>5, MergeSound DEF longer, old, n
    <3>7. Plain(old.text \o u)
      <4>1. old.text \in Text
        BY <3>2 DEF Journaled
      <4>2. 0 \in 0..Len(old.text) /\ Len(old.text) \in 0..Len(old.text)
        BY <4>1 DEF Text
      <4>3. QED
        BY <3>1, <4>1, <4>2, PlainParts
    <3>8. QED
      BY <2>7, <3>5, <3>6, <3>7
  <2>8. QED
    BY <2>3, <2>4, <2>6, <2>7
<1>11. ASSUME Kept(e0), ~ LoneReturn(u) PROVE Kept(r)
  <2>1. co = "Insert" => Plain(Last(r.undo).text)
    BY <1>9, <1>10, <1>11
  <2>2. Extends(r, "Inserted", "Insert") => co = "Insert"
    BY <1>9 DEF Extends
  <2>3. QED
    BY <1>9, <1>10, <1>11, <2>1, <2>2 DEF Kept
<1>12. r.strayed = (e0.strayed \/ LoneReturn(u))
  BY <1>2, <1>9 DEF lone
<1>13. Sound(e0) => Whole(r)
  <2>1. RedoSound(r.text, r.redo)
    BY <1>9, NothingJournaled
  <2>2. QED
    BY <1>9, <1>11, <1>12, <2>1 DEF Sound, Whole
<1>14. (Kept(e0) /\ ~ LoneReturn(u)) =>
         /\ r.text = WithInserted(e.text, Offset(e.text, start), CrLfToNl(u))
         /\ r.cursor = end /\ r.anchor = r.cursor
  BY <1>9, <1>10
<1>15. QED
  BY <1>9, <1>11, <1>12, <1>13, <1>14 DEF e, r, end

LEMMA PlaceRow ==
  ASSUME NEW t \in Text, NEW p \in Positions(t)
  PROVE  /\ p = <<p[1], p[2]>> /\ p[1] \in Nat /\ p[2] \in Nat
         /\ p[1] < LineCount(t) /\ p[2] <= LineLen(t, p[1]) /\ LineLen(t, p[1]) \in Nat
         /\ LineCount(t) \in Nat
<1>1. p \in Pos /\ Offset(t, p) \in 0..Len(t) /\ PosOf(t, Offset(t, p)) = p
  BY OffsetsOfPlaces
<1>2. p[1] < LineCount(t) /\ p[2] <= LineLen(t, p[1])
  BY <1>1, PlaceOf
<1>3. p = <<p[1], p[2]>> /\ p[1] \in Nat /\ p[2] \in Nat
  BY <1>1 DEF Pos
<1>4. LineLen(t, p[1]) \in Nat
  BY <1>2, <1>3, RowPlaces
<1>5. LineCount(t) \in Nat
  <2>1. Len(t) \in Nat
    BY DEF Text
  <2>2. QED
    BY <2>1, NewlinesNat DEF LineCount
<1>6. QED
  BY <1>2, <1>3, <1>4, <1>5

LEMMA BackPlace ==
  ASSUME NEW t \in Text, NEW p \in Positions(t)
  PROVE  Back(t, p) \in Positions(t) /\ Offset(t, Back(t, p)) <= Offset(t, p)
<1> DEFINE q == Back(t, p)
<1>1. /\ p = <<p[1], p[2]>> /\ p[1] \in Nat /\ p[2] \in Nat
      /\ p[1] < LineCount(t) /\ p[2] <= LineLen(t, p[1]) /\ LineLen(t, p[1]) \in Nat
      /\ LineCount(t) \in Nat
  BY PlaceRow
<1>2. q \in Positions(t) /\ (q = p \/ Before(q, p))
  <2>1. CASE p[2] > 0
    <3>1. q = <<p[1], p[2] - 1>>
      BY <2>1 DEF Back
    <3>2. p[2] - 1 \in 0..LineLen(t, p[1])
      BY <1>1, <2>1
    <3>3. Before(q, p)
      BY <1>1, <3>1 DEF Before
    <3>4. QED
      BY <1>1, <3>1, <3>2, <3>3, RowPlaces
  <2>2. CASE ~ (p[2] > 0) /\ p[1] > 0
    <3> DEFINE row == p[1] - 1
    <3>1. q = <<row, LineLen(t, row)>>
      BY <2>2 DEF Back
    <3>2. row \in Nat /\ row < LineCount(t)
      BY <1>1, <2>2
    <3>3. Before(q, p)
      BY <1>1, <3>1 DEF Before
    <3> HIDE DEF row, q
    <3>4. LineLen(t, row) \in 0..LineLen(t, row)
      BY <3>2, RowPlaces
    <3>5. QED
      BY <3>1, <3>2, <3>3, <3>4, RowPlaces
  <2>3. CASE ~ (p[2] > 0) /\ ~ (p[1] > 0)
    BY <2>3 DEF Back
  <2>4. QED
    BY <2>1, <2>2, <2>3
<1> HIDE DEF q
<1>3. Offset(t, q) <= Offset(t, p)
  <2>1. Offset(t, q) \in Nat /\ Offset(t, p) \in Nat
    BY <1>2, OffsetsOfPlaces
  <2>2. q = p \/ Offset(t, q) < Offset(t, p)
    BY <1>2, PlacesBefore
  <2>3. QED
    BY <2>1, <2>2
<1>4. QED
  BY <1>2, <1>3 DEF q

LEMMA ForthPlace ==
  ASSUME NEW t \in Text, NEW p \in Positions(t)
  PROVE  Forth(t, p) \in Positions(t) /\ Offset(t, p) <= Offset(t, Forth(t, p))
<1> DEFINE q == Forth(t, p)
<1>1. /\ p = <<p[1], p[2]>> /\ p[1] \in Nat /\ p[2] \in Nat
      /\ p[1] < LineCount(t) /\ p[2] <= LineLen(t, p[1]) /\ LineLen(t, p[1]) \in Nat
      /\ LineCount(t) \in Nat
  BY PlaceRow
<1>2. q \in Positions(t) /\ (q = p \/ Before(p, q))
  <2>1. CASE p[2] < LineLen(t, p[1])
    <3>1. q = <<p[1], p[2] + 1>>
      BY <2>1 DEF Forth
    <3>2. p[2] + 1 \in 0..LineLen(t, p[1])
      BY <1>1, <2>1
    <3>3. Before(p, q)
      BY <1>1, <3>1 DEF Before
    <3>4. QED
      BY <1>1, <3>1, <3>2, <3>3, RowPlaces
  <2>2. CASE ~ (p[2] < LineLen(t, p[1])) /\ p[1] + 1 < LineCount(t)
    <3> DEFINE row == p[1] + 1
    <3>1. q = <<row, 0>>
      BY <2>2 DEF Forth
    <3>2. row \in Nat /\ row < LineCount(t)
      BY <1>1, <2>2
    <3>3. Before(p, q)
      BY <1>1, <3>1 DEF Before
    <3> HIDE DEF row, q
    <3>4. 0 \in 0..LineLen(t, row)
      BY <3>2, RowPlaces
    <3>5. QED
      BY <3>1, <3>2, <3>3, <3>4, RowPlaces
  <2>3. CASE ~ (p[2] < LineLen(t, p[1])) /\ ~ (p[1] + 1 < LineCount(t))
    BY <2>3 DEF Forth
  <2>4. QED
    BY <2>1, <2>2, <2>3
<1> HIDE DEF q
<1>3. Offset(t, p) <= Offset(t, q)
  <2>1. Offset(t, q) \in Nat /\ Offset(t, p) \in Nat
    BY <1>2, OffsetsOfPlaces
  <2>2. q = p \/ Offset(t, p) < Offset(t, q)
    BY <1>2, PlacesBefore
  <2>3. QED
    BY <2>1, <2>2
<1>4. QED
  BY <1>2, <1>3 DEF q

LEMMA SelectedDeleted ==
  ASSUME NEW e, Sound(e)
  PROVE  LET d == DeleteSelected(e) IN Whole(d) /\ d.strayed = e.strayed
<1> DEFINE x == DeleteSelection(e)
           d == [x EXCEPT !.redo = <<>>]
<1>1. DeleteSelected(e) = d
  BY DEF DeleteSelected
<1>2. Sound(x) /\ x.strayed = e.strayed
  <2>1. Shape(e)
    BY DEF Sound
  <2>2. QED
    BY <2>1, SelectionDeleted
<1> HIDE DEF x
<1>3. Shape(x)
  BY <1>2 DEF Sound, Kept
<1>4. /\ Shape(d) /\ d.strayed = x.strayed /\ d.text = x.text /\ d.cursor = x.cursor
      /\ d.anchor = x.anchor /\ d.undo = x.undo /\ d.redo = <<>> /\ d.coalesce = x.coalesce
  BY <1>3 DEF Shape
<1> HIDE DEF d
<1>5. Extends(d, "Inserted", "Insert") => Extends(x, "Inserted", "Insert")
  BY <1>4 DEF Extends
<1>6. Whole(d)
  BY <1>2, <1>4, <1>5, NothingJournaled DEF Whole, Sound, Kept
<1>7. QED
  BY <1>1, <1>2, <1>4, <1>6

LEMMA BackspaceKeeps ==
  ASSUME NEW e, Whole(e)
  PROVE  LET r == Backspace(e) IN Whole(r) /\ r.strayed = e.strayed
<1> DEFINE start == Back(e.text, e.cursor)
           end == e.cursor
           removed == Between(e.text, start, end)
           b == SpliceOut(e, start, end)
           c == Collapse(b, start)
           x == [c EXCEPT !.redo = <<>>]
           d == [x EXCEPT !.coalesce = "Backspace"]
           old == Last(e.undo)
           n == Len(e.undo)
           merged == EarlierEntry(old, start, removed, d.text)
           g == [d EXCEPT !.undo[n] = merged]
           op == Entry("Deleted", start, start, removed, end, start, e.text, d.text)
           h == PushUndo(d, op)
           merges == Extends(e, "Deleted", "Backspace") /\ old.start = end
           r == Backspace(e)
<1>0. Sound(e) /\ Shape(e)
  BY DEF Whole, Sound, Kept
<1>1. CASE HasSelection(e)
  <2>1. r = DeleteSelected(e)
    BY <1>1 DEF Backspace
  <2>2. QED
    BY <1>0, <2>1, SelectedDeleted
<1>2. CASE ~ HasSelection(e) /\ e.cursor = <<0, 0>>
  <2>1. r = e
    BY <1>2 DEF Backspace
  <2>2. QED
    BY <2>1
<1>3. ASSUME ~ HasSelection(e), e.cursor # <<0, 0>>
      PROVE  Whole(r) /\ r.strayed = e.strayed
  <2>1. r = IF merges THEN g ELSE h
    <3>1. d = [Collapse(SpliceOut(e, start, end), start) EXCEPT
                 !.redo = <<>>, !.coalesce = "Backspace"]
      OBVIOUS
    <3> DEFINE d0 == [Collapse(SpliceOut(e, start, end), start) EXCEPT
                        !.redo = <<>>, !.coalesce = "Backspace"]
    <3>2. r = IF merges THEN [d0 EXCEPT !.undo[n] = EarlierEntry(old, start, removed, d0.text)]
              ELSE PushUndo(d0, Entry("Deleted", start, start, removed, end, start,
                                      e.text, d0.text))
      BY <1>3 DEF Backspace
    <3> HIDE DEF d0, d, merges, n, old, removed, start
    <3>3. QED
      BY <3>1, <3>2 DEF d0
  <2> HIDE DEF r
  <2>2. Shape(b) /\ b.strayed = e.strayed /\ b.undo = e.undo
    BY <1>0, SplicedOut
  <2> HIDE DEF b
  <2>3. /\ Shape(c) /\ c.strayed = e.strayed /\ c.text = b.text /\ c.undo = e.undo
        /\ c.cursor = start /\ c.anchor = start
    BY <2>2, Collapsed
  <2> HIDE DEF c, start
  <2>4. /\ Shape(x) /\ x.strayed = e.strayed /\ x.text = b.text /\ x.undo = e.undo
        /\ x.cursor = start /\ x.anchor = start /\ x.redo = <<>>
    BY <2>3 DEF Shape
  <2> HIDE DEF x
  <2>5. /\ Shape(d) /\ d.strayed = e.strayed /\ d.text = b.text /\ d.undo = e.undo
        /\ d.cursor = start /\ d.anchor = start /\ d.redo = <<>> /\ d.coalesce = "Backspace"
    BY <2>4 DEF Shape
  <2> DEFINE longer == [e.undo EXCEPT ![n] = merged]
             s == Append(e.undo, op)
             more == IF Len(s) > UndoCap THEN Tail(s) ELSE s
             undone == IF merges THEN longer ELSE more
  <2> HIDE DEF d, n, merged
  <2>6. /\ Shape(g) /\ g.strayed = e.strayed /\ g.text = b.text /\ g.undo = longer
        /\ g.cursor = start /\ g.anchor = start /\ g.redo = <<>> /\ g.coalesce = "Backspace"
    <3>1. g = [d EXCEPT !.undo = longer]
      BY <2>5
    <3> HIDE DEF longer, g
    <3>2. QED
      BY <2>5, <3>1 DEF Shape
  <2> HIDE DEF g, op
  <2>7. /\ Shape(h) /\ h.strayed = e.strayed /\ h.text = b.text /\ h.undo = more
        /\ h.cursor = start /\ h.anchor = start /\ h.redo = <<>> /\ h.coalesce = "Backspace"
    BY <2>5, Pushed
  <2> HIDE DEF h, more, longer, merges
  <2>8. /\ Shape(r) /\ r.strayed = e.strayed /\ r.text = b.text /\ r.undo = undone
        /\ r.cursor = start /\ r.anchor = start /\ r.redo = <<>> /\ r.coalesce = "Backspace"
    <3>1. CASE merges
      BY <2>1, <2>6, <3>1
    <3>2. CASE ~ merges
      BY <2>1, <2>7, <3>2
    <3>3. QED
      BY <3>1, <3>2
  <2>9. ASSUME ~ e.strayed
        PROVE  /\ b.text \in Text /\ Plain(b.text) /\ start \in Positions(b.text)
               /\ UndoSound(b.text, undone)
    <3>1. /\ e.text \in Text /\ Plain(e.text) /\ end \in Positions(e.text)
          /\ UndoSound(e.text, e.undo)
      BY <1>0, <2>9 DEF Sound, Kept
    <3>2. start \in Positions(e.text) /\ Offset(e.text, start) <= Offset(e.text, end)
      BY <3>1, BackPlace DEF start
    <3> DEFINE lo == Offset(e.text, start)
               now == WithoutRange(e.text, lo, Offset(e.text, end) - lo)
    <3>3. b.text = now
      BY <1>0, <3>1, <3>2, SplicedOut DEF b
    <3> HIDE DEF end
    <3>4. /\ now \in Text /\ Plain(now) /\ start \in Positions(now)
          /\ op \in Journaled /\ Fits(op)
      <4>1. op = Entry("Deleted", start, start, removed, end, start, e.text, now)
        BY <2>5, <3>3 DEF op
      <4>2. QED
        BY <3>1, <3>2, <4>1, DeletedEntry
    <3>5. op.was = e.text /\ op.now = now
      BY <2>5, <3>3 DEF op, Entry
    <3>6. CASE ~ merges
      <4> HIDE DEF now
      <4>1. UndoSound(op.now, more)
        BY <3>1, <3>4, <3>5, PushSound DEF more
      <4>2. QED
        BY <3>3, <3>4, <3>5, <3>6, <4>1
    <3>7. ASSUME merges
          PROVE  UndoSound(now, undone)
      <4>1. e.undo # <<>> /\ old.kind = "Deleted" /\ old.start = end
        BY <3>7 DEF merges, Extends
      <4>2. old \in Journaled /\ Fits(old) /\ old.now = e.text
        BY <3>1, <4>1, UndoTop
      <4> DEFINE op2 == Entry("Deleted", start, start, removed \o old.text, old.cursor_before,
                              start, old.was, now)
      <4> HIDE DEF old
      <4>3. op2 \in Journaled /\ Fits(op2)
        BY <3>1, <3>2, <4>1, <4>2, MergedDelete
      <4>4. merged = op2
        <5>1. d.text = now
          BY <2>5, <3>3
        <5> HIDE DEF now, removed
        <5>2. QED
          BY <4>1, <4>2, <5>1, EarlierIs DEF merged
      <4>5. op2.was = old.was /\ op2.now = now
        BY DEF Entry
      <4> HIDE DEF op2, now
      <4>6. UndoSound(now, longer)
        BY <3>1, <4>1, <4>3, <4>4, <4>5, MergeSound DEF longer, old, n
      <4>7. QED
        BY <3>7, <4>6
    <3>8. QED
      BY <3>3, <3>4, <3>6, <3>7
  <2>10. ~ Extends(r, "Inserted", "Insert")
    BY <2>8 DEF Extends
  <2>11. Whole(r)
    BY <2>8, <2>9, <2>10, NothingJournaled DEF Whole, Sound, Kept
  <2>12. QED
    BY <2>8, <2>11
<1>4. QED
  BY <1>1, <1>2, <1>3

LEMMA DeleteForwardKeeps ==
  ASSUME NEW e, Whole(e)
  PROVE  LET r == DeleteForward(e) IN Whole(r) /\ r.strayed = e.strayed
<1> DEFINE start == e.cursor
           end == Forth(e.text, start)
           removed == Between(e.text, start, end)
           b == SpliceOut(e, start, end)
           x == [b EXCEPT !.redo = <<>>]
           d == [x EXCEPT !.coalesce = "none"]
           op == Entry("Deleted", start, start, removed, start, start, e.text, d.text)
           r == DeleteForward(e)
<1>0. Sound(e) /\ Shape(e)
  BY DEF Whole, Sound, Kept
<1>1. CASE HasSelection(e)
  <2>1. r = DeleteSelected(e)
    BY <1>1 DEF DeleteForward
  <2>2. QED
    BY <1>0, <2>1, SelectedDeleted
<1>2. CASE ~ HasSelection(e) /\ end = start
  <2>1. r = e
    BY <1>2 DEF DeleteForward
  <2>2. QED
    BY <2>1
<1>3. ASSUME ~ HasSelection(e), end # start
      PROVE  Whole(r) /\ r.strayed = e.strayed
  <2>0. e.anchor = start
    BY <1>3 DEF HasSelection
  <2>1. r = PushUndo(d, op)
    <3>1. d = [b EXCEPT !.redo = <<>>, !.coalesce = "none"]
      OBVIOUS
    <3> DEFINE d0 == [b EXCEPT !.redo = <<>>, !.coalesce = "none"]
    <3>2. r = PushUndo(d0, Entry("Deleted", start, start, removed, start, start,
                                 e.text, d0.text))
      BY <1>3 DEF DeleteForward
    <3> HIDE DEF d0, d, removed
    <3>3. QED
      BY <3>1, <3>2 DEF d0
  <2> HIDE DEF r
  <2>2. /\ Shape(b) /\ b.strayed = e.strayed /\ b.undo = e.undo
        /\ b.cursor = start /\ b.anchor = start
    BY <1>0, <2>0, SplicedOut
  <2> HIDE DEF b, start
  <2>3. /\ Shape(x) /\ x.strayed = e.strayed /\ x.text = b.text /\ x.undo = e.undo
        /\ x.cursor = start /\ x.anchor = start /\ x.redo = <<>>
    BY <2>2 DEF Shape
  <2> HIDE DEF x
  <2>4. /\ Shape(d) /\ d.strayed = e.strayed /\ d.text = b.text /\ d.undo = e.undo
        /\ d.cursor = start /\ d.anchor = start /\ d.redo = <<>> /\ d.coalesce = "none"
    BY <2>3 DEF Shape
  <2> DEFINE s == Append(e.undo, op)
             more == IF Len(s) > UndoCap THEN Tail(s) ELSE s
  <2> HIDE DEF d, op
  <2>5. /\ Shape(r) /\ r.strayed = e.strayed /\ r.text = b.text /\ r.undo = more
        /\ r.cursor = start /\ r.anchor = start /\ r.redo = <<>> /\ r.coalesce = "none"
    BY <2>1, <2>4, Pushed
  <2> HIDE DEF more
  <2>6. ASSUME ~ e.strayed
        PROVE  /\ b.text \in Text /\ Plain(b.text) /\ start \in Positions(b.text)
               /\ UndoSound(b.text, more)
    <3>1. /\ e.text \in Text /\ Plain(e.text) /\ start \in Positions(e.text)
          /\ UndoSound(e.text, e.undo)
      BY <1>0, <2>6 DEF Sound, Kept, start
    <3>2. end \in Positions(e.text) /\ Offset(e.text, start) <= Offset(e.text, end)
      BY <3>1, ForthPlace
    <3> DEFINE lo == Offset(e.text, start)
               now == WithoutRange(e.text, lo, Offset(e.text, end) - lo)
    <3>3. b.text = now
      BY <1>0, <3>1, <3>2, SplicedOut DEF b, start
    <3> HIDE DEF end
    <3>4. /\ now \in Text /\ Plain(now) /\ start \in Positions(now)
          /\ op \in Journaled /\ Fits(op)
      <4>1. op = Entry("Deleted", start, start, removed, start, start, e.text, now)
        BY <2>4, <3>3 DEF op
      <4>2. QED
        BY <3>1, <3>2, <4>1, DeletedEntry
    <3>5. op.was = e.text /\ op.now = now
      BY <2>4, <3>3 DEF op, Entry
    <3> HIDE DEF now
    <3>6. UndoSound(op.now, more)
      BY <3>1, <3>4, <3>5, PushSound DEF more
    <3>7. QED
      BY <3>3, <3>4, <3>5, <3>6
  <2>7. ~ Extends(r, "Inserted", "Insert")
    BY <2>5 DEF Extends
  <2>8. Whole(r)
    BY <2>5, <2>6, <2>7, NothingJournaled DEF Whole, Sound, Kept
  <2>9. QED
    BY <2>5, <2>8
<1>4. QED
  BY <1>1, <1>2, <1>3

LEMMA UndoKeeps ==
  ASSUME NEW e, Whole(e)
  PROVE  LET r == Undo(e)
             op == Last(e.undo)
         IN  /\ Whole(r) /\ r.strayed = e.strayed /\ r.coalesce \in {e.coalesce, "none"}
             /\ (~ e.strayed /\ e.undo # <<>>) => r.text = op.was /\ r.undo = Front(e.undo)
<1> DEFINE op == Last(e.undo)
           d == IF op.kind = "Inserted" THEN SpliceOut(e, op.start, op.end)
                ELSE SpliceIn(e, op.start, op.text)
           place == op.cursor_before
           c == Collapse(d, place)
           x == [c EXCEPT !.coalesce = "none"]
           undone == Front(x.undo)
           y == [x EXCEPT !.undo = undone]
           redone == Append(y.redo, op)
           z == [y EXCEPT !.redo = redone]
           r == Undo(e)
<1>0. Sound(e) /\ Shape(e)
  BY DEF Whole, Sound, Kept
<1>1. CASE e.undo = <<>>
  BY <1>1 DEF Undo
<1>2. ASSUME e.undo # <<>>
      PROVE  /\ Whole(r) /\ r.strayed = e.strayed /\ r.coalesce = "none"
             /\ ~ e.strayed => r.text = op.was /\ r.undo = Front(e.undo)
  <2>1. r = [c EXCEPT !.coalesce = "none", !.undo = Front(c.undo), !.redo = Append(c.redo, op)]
    BY <1>2 DEF Undo
  <2> HIDE DEF r
  <2>2. /\ Shape(d) /\ d.strayed = e.strayed /\ d.undo = e.undo /\ d.redo = e.redo
    <3> HIDE DEF op
    <3>1. CASE op.kind = "Inserted"
      <4>1. d = SpliceOut(e, op.start, op.end)
        BY <3>1
      <4> HIDE DEF d
      <4>2. QED
        BY <1>0, <4>1, SplicedOut
    <3>2. CASE op.kind # "Inserted"
      <4>1. d = SpliceIn(e, op.start, op.text)
        BY <3>2
      <4> HIDE DEF d
      <4>2. QED
        BY <1>0, <4>1, SplicedIn
    <3>3. QED
      BY <3>1, <3>2
  <2>d. d = IF op.kind = "Inserted" THEN SpliceOut(e, op.start, op.end)
            ELSE SpliceIn(e, op.start, op.text)
    OBVIOUS
  <2> HIDE DEF d, place
  <2>3. /\ Shape(c) /\ c.strayed = e.strayed /\ c.text = d.text /\ c.undo = e.undo
        /\ c.redo = e.redo /\ c.cursor = place /\ c.anchor = place
    BY <2>2, Collapsed
  <2> HIDE DEF c
  <2>4. /\ Shape(x) /\ x.strayed = e.strayed /\ x.text = d.text /\ x.undo = e.undo
        /\ x.redo = e.redo /\ x.cursor = place /\ x.anchor = place /\ x.coalesce = "none"
    BY <2>3 DEF Shape
  <2>x. r = [[x EXCEPT !.undo = Front(e.undo)] EXCEPT !.redo = Append(e.redo, op)]
    <3>1. r = [c EXCEPT !.coalesce = "none", !.undo = Front(e.undo), !.redo = Append(e.redo, op)]
      BY <2>1, <2>3
    <3> HIDE DEF op
    <3>2. QED
      BY <3>1
  <2> HIDE DEF x, undone
  <2>5. /\ Shape(y) /\ y.strayed = e.strayed /\ y.text = d.text /\ y.undo = undone
        /\ y.redo = e.redo /\ y.cursor = place /\ y.anchor = place /\ y.coalesce = "none"
    BY <2>4 DEF Shape
  <2>u. undone = Front(e.undo)
    BY <2>4 DEF undone
  <2> HIDE DEF y, redone
  <2>6. /\ Shape(z) /\ z.strayed = e.strayed /\ z.text = d.text /\ z.undo = undone
        /\ z.redo = redone /\ z.cursor = place /\ z.anchor = place /\ z.coalesce = "none"
    BY <2>5 DEF Shape
  <2>7. r = z /\ redone = Append(e.redo, op)
    BY <2>x, <2>u, <2>5 DEF y, redone
  <2> HIDE DEF z
  <2>8. ASSUME ~ e.strayed
        PROVE  /\ d.text = op.was /\ op.was \in Text /\ Plain(op.was)
               /\ place \in Positions(op.was)
               /\ UndoSound(op.was, undone) /\ RedoSound(op.was, redone)
    <3>1. e.text \in Text /\ UndoSound(e.text, e.undo) /\ RedoSound(e.text, e.redo)
      BY <1>0, <2>8 DEF Sound, Kept, Whole
    <3>2. op \in Journaled /\ Fits(op) /\ op.now = e.text /\ UndoSound(op.was, Front(e.undo))
      BY <1>2, <3>1, UndoTop
    <3> HIDE DEF op
    <3>3. d.text = op.was
      BY <1>0, <2>d, <3>1, <3>2, Undone
    <3>4. RedoSound(op.was, redone)
      BY <2>7, <3>1, <3>2, RedoPushed
    <3>5. op.was \in Text /\ Plain(op.was) /\ place \in Positions(op.was)
      BY <3>2 DEF Journaled, Fits, place
    <3>6. QED
      BY <2>u, <3>2, <3>3, <3>4, <3>5
  <2>9. ~ Extends(r, "Inserted", "Insert")
    BY <2>6, <2>7 DEF Extends
  <2>10. Whole(r)
    BY <2>6, <2>7, <2>8, <2>9 DEF Whole, Sound, Kept
  <2>11. QED
    BY <2>6, <2>7, <2>8, <2>10, <2>u
<1>3. QED
  BY <1>1, <1>2

LEMMA RedoKeeps ==
  ASSUME NEW e, Whole(e)
  PROVE  Whole(Redo(e))
<1> DEFINE op == Last(e.redo)
           d == SpliceIn(e, op.start, op.text)
           place == op.cursor_after
           c == Collapse(d, place)
           strays == e.strayed \/ op.kind = "Deleted"
           w == [c EXCEPT !.coalesce = "none"]
           undone == Front(e.redo)
           x == [w EXCEPT !.redo = undone]
           redone == Append(e.undo, op)
           y == [x EXCEPT !.undo = redone]
           z == [y EXCEPT !.strayed = strays]
           r == Redo(e)
<1>0. Sound(e) /\ Shape(e)
  BY DEF Whole, Sound, Kept
<1>1. CASE e.redo = <<>>
  BY <1>1 DEF Redo
<1>2. ASSUME e.redo # <<>> PROVE Whole(r)
  <2>1. r = [c EXCEPT !.coalesce = "none", !.redo = Front(c.redo), !.undo = Append(c.undo, op),
                      !.strayed = c.strayed \/ op.kind = "Deleted"]
    BY <1>2 DEF Redo
  <2> HIDE DEF r, op
  <2>2. /\ Shape(d) /\ d.strayed = e.strayed /\ d.undo = e.undo /\ d.redo = e.redo
    BY <1>0, SplicedIn
  <2> HIDE DEF d, place
  <2>3. /\ Shape(c) /\ c.strayed = e.strayed /\ c.text = d.text /\ c.undo = e.undo
        /\ c.redo = e.redo /\ c.cursor = place /\ c.anchor = place
    BY <2>2, Collapsed
  <2> HIDE DEF c
  <2>4. r = [c EXCEPT !.coalesce = "none", !.redo = undone, !.undo = redone, !.strayed = strays]
    BY <2>1, <2>3
  <2>b. strays \in BOOLEAN
    OBVIOUS
  <2> HIDE DEF undone, redone, strays
  <2>5. r = z
    BY <2>4
  <2>6. /\ Shape(w) /\ w.strayed = e.strayed /\ w.text = d.text /\ w.undo = e.undo
        /\ w.cursor = place /\ w.anchor = place /\ w.coalesce = "none"
    BY <2>3 DEF Shape
  <2> HIDE DEF w
  <2>7. /\ Shape(x) /\ x.strayed = e.strayed /\ x.text = d.text /\ x.undo = e.undo
        /\ x.redo = undone /\ x.cursor = place /\ x.anchor = place /\ x.coalesce = "none"
    BY <2>6 DEF Shape
  <2> HIDE DEF x
  <2>8. /\ Shape(y) /\ y.strayed = e.strayed /\ y.text = d.text /\ y.undo = redone
        /\ y.redo = undone /\ y.cursor = place /\ y.anchor = place /\ y.coalesce = "none"
    BY <2>7 DEF Shape
  <2> HIDE DEF y
  <2>9. /\ Shape(z) /\ z.strayed = strays /\ z.text = d.text /\ z.undo = redone
        /\ z.redo = undone /\ z.cursor = place /\ z.anchor = place /\ z.coalesce = "none"
    BY <2>8, <2>b DEF Shape
  <2> HIDE DEF z
  <2>10. ASSUME ~ strays
         PROVE  /\ d.text = op.now /\ op.now \in Text /\ Plain(op.now)
                /\ place \in Positions(op.now)
                /\ UndoSound(op.now, redone) /\ RedoSound(op.now, undone)
    <3>0. ~ e.strayed /\ op.kind # "Deleted"
      BY <2>10 DEF strays
    <3>1. /\ e.text \in Text /\ UndoSound(e.text, e.undo) /\ RedoSound(e.text, e.redo)
      BY <1>0, <3>0 DEF Sound, Kept, Whole
    <3>2. op \in Journaled /\ Fits(op) /\ op.was = e.text /\ RedoSound(op.now, undone)
      BY <1>2, <3>1, RedoTop DEF op, undone
    <3>3. op.kind = "Inserted"
      BY <3>0, <3>2 DEF Journaled
    <3>4. d.text = op.now
      BY <1>0, <3>1, <3>2, <3>3, Redone DEF d
    <3>5. op.now \in Text /\ Plain(op.now) /\ place \in Positions(op.now)
      BY <3>2 DEF Journaled, Fits, place
    <3>6. UndoSound(op.now, redone)
      BY <3>1, <3>2, PushSound DEF redone
    <3>7. QED
      BY <3>2, <3>4, <3>5, <3>6
  <2>11. ~ Extends(r, "Inserted", "Insert")
    BY <2>5, <2>9 DEF Extends
  <2>12. QED
    BY <2>5, <2>9, <2>10, <2>11 DEF Whole, Sound, Kept
<1>3. QED
  BY <1>1, <1>2

----------------------------------------------------------------------------
(* Moving *)

LEMMA LeastOf ==
  ASSUME NEW S \in SUBSET Nat, S # {}
  PROVE  Min(S) \in S /\ \A y \in S : Min(S) <= y
<1>1. \E x \in S : \A y \in S : x <= y
  BY LeastNatural
<1>2. QED
  BY <1>1 DEF Min

LEMMA GreatestOf ==
  ASSUME NEW n \in Nat, NEW S \in SUBSET (0..n), S # {}
  PROVE  Max(S) \in S /\ \A y \in S : y <= Max(S)
<1> DEFINE T == {n - x : x \in S}
<1>1. T \in SUBSET Nat /\ T # {}
  <2>1. \A x \in S : n - x \in Nat
    OBVIOUS
  <2>2. PICK x : x \in S
    OBVIOUS
  <2>3. n - x \in T
    BY <2>2
  <2>4. QED
    BY <2>1, <2>3
<1> HIDE DEF T
<1>2. PICK k \in T : \A y \in T : k <= y
  BY <1>1, LeastNatural
<1>3. PICK x \in S : k = n - x
  BY DEF T
<1>4. ASSUME NEW y \in S PROVE y <= x
  <2>1. n - y \in T
    BY DEF T
  <2>2. n - x <= n - y
    BY <1>2, <1>3, <2>1
  <2>3. QED
    BY <2>2
<1>5. QED
  BY <1>3, <1>4 DEF Max

LEMMA CursorMoved ==
  ASSUME NEW e, Whole(e), ~ e.strayed, NEW p \in Positions(e.text), NEW extend \in BOOLEAN
  PROVE  Whole(SetCursor(e, p, extend)) /\ ~ SetCursor(e, p, extend).strayed
<1> DEFINE d == SetCursor(e, p, extend)
<1>1. Shape(e)
  BY DEF Whole, Sound, Kept
<1>2. /\ Shape(d) /\ d.strayed = e.strayed /\ d.text = e.text
      /\ d.cursor = p /\ d.anchor = (IF extend THEN e.anchor ELSE p)
      /\ d.undo = e.undo /\ d.redo = e.redo /\ d.coalesce = "none"
  BY <1>1, CursorSet
<1> HIDE DEF d
<1>3. ~ Extends(d, "Inserted", "Insert")
  BY <1>2 DEF Extends
<1>4. Whole(d)
  BY <1>2, <1>3 DEF Whole, Sound, Kept
<1>5. QED
  BY <1>2, <1>4 DEF d

LEMMA WordPlaces ==
  ASSUME NEW t \in Text, NEW o \in 0..Len(t)
  PROVE  WordStart(t, o) \in 0..Len(t) /\ NextWord(t, o) \in 0..Len(t)
<1> DEFINE words == WordOffsets(t)
           before == {q \in words : q < o}
<1>1. words \subseteq 0..Len(t) /\ Len(t) \in Nat
  BY DEF WordOffsets, Text
<1>2. WordStart(t, o) \in 0..Len(t)
  <2>1. CASE before = {}
    <3>1. WordStart(t, o) = 0
      BY <2>1 DEF WordStart
    <3>2. QED
      BY <1>1, <3>1
  <2>2. CASE before # {}
    <3> DEFINE top == Max(before)
               S == {q \in 0..o : q..top \subseteq words}
    <3>1. before \in SUBSET (0..Len(t))
      BY <1>1
    <3>2. top \in before
      BY <1>1, <2>2, <3>1, GreatestOf
    <3>3. WordStart(t, o) = Min(S)
      BY <2>2 DEF WordStart
    <3>4. top \in words /\ top < o /\ top \in Nat
      BY <1>1, <3>2
    <3> HIDE DEF top, words, before
    <3>5. top \in S
      BY <1>1, <3>4
    <3>6. S \in SUBSET Nat
      OBVIOUS
    <3>7. Min(S) \in S
      <4> HIDE DEF S
      <4>1. QED
        BY <3>5, <3>6, LeastOf
    <3>8. QED
      BY <1>1, <3>3, <3>7
  <2>3. QED
    BY <2>1, <2>2
<1>3. NextWord(t, o) \in 0..Len(t)
  <2> DEFINE S == {Len(t)} \union {q \in words : q > o /\ q - 1 \notin words}
  <2>1. NextWord(t, o) = Min(S)
    BY DEF NextWord
  <2>2. S \in SUBSET Nat /\ S # {} /\ S \subseteq 0..Len(t)
    BY <1>1
  <2> HIDE DEF S
  <2>3. QED
    BY <2>1, <2>2, LeastOf
<1>4. QED
  BY <1>2, <1>3

LEMMA ClampedRow ==
  ASSUME NEW t \in Text, NEW n \in Nat
  PROVE  LET row == Min({n, LineCount(t) - 1}) IN row \in Nat /\ row < LineCount(t)
<1>1. LineCount(t) \in Nat /\ LineCount(t) > 0
  <2>1. Len(t) \in Nat
    BY DEF Text
  <2>2. QED
    BY <2>1, NewlinesNat DEF LineCount
<1> DEFINE S == {n, LineCount(t) - 1}
<1>2. S \in SUBSET Nat /\ S # {}
  BY <1>1
<1>3. Min(S) \in S /\ \A y \in S : Min(S) <= y
  <2> HIDE DEF S
  <2>1. QED
    BY <1>2, LeastOf
<1>4. QED
  BY <1>1, <1>3

(* What is between two places selected.                                     *)
Selecting(e, a, c) == [e EXCEPT !.anchor = a, !.cursor = c]

LEMMA MatchApplied ==
  ASSUME NEW e, Whole(e), Kept(e), NEW a \in Positions(e.text), NEW c \in Positions(e.text)
  PROVE  LET d == Selecting(e, a, c)
         IN  /\ Whole(d) /\ Kept(d) /\ d.strayed = e.strayed /\ d.text = e.text
             /\ d.anchor = a /\ d.cursor = c /\ d.redo = e.redo /\ d.coalesce = e.coalesce
<1> DEFINE b == [e EXCEPT !.anchor = a]
           d == [b EXCEPT !.cursor = c]
<1>0. Sound(e) /\ Shape(e)
  BY DEF Whole, Sound
<1>1. d = Selecting(e, a, c)
  BY DEF Selecting
<1>2. /\ Shape(b) /\ b.strayed = e.strayed /\ b.text = e.text /\ b.anchor = a
      /\ b.undo = e.undo /\ b.redo = e.redo /\ b.coalesce = e.coalesce
  BY <1>0 DEF Shape
<1> HIDE DEF b
<1>3. /\ Shape(d) /\ d.strayed = e.strayed /\ d.text = e.text /\ d.anchor = a /\ d.cursor = c
      /\ d.undo = e.undo /\ d.redo = e.redo /\ d.coalesce = e.coalesce
  BY <1>2 DEF Shape
<1> HIDE DEF d
<1>4. Extends(d, "Inserted", "Insert") => Extends(e, "Inserted", "Insert")
  BY <1>3 DEF Extends
<1>5. Whole(d) /\ Kept(d)
  BY <1>0, <1>3, <1>4 DEF Whole, Sound, Kept
<1>6. QED
  BY <1>1, <1>3, <1>5

(* Uncoalesced, nothing is merged into the journal's last entry.            *)
LEMMA Uncoalesced ==
  ASSUME NEW e, Whole(e), Kept(e)
  PROVE  Whole([e EXCEPT !.coalesce = "none"])
<1> DEFINE x == [e EXCEPT !.coalesce = "none"]
<1>1. Sound(e) /\ Shape(e)
  BY DEF Whole, Sound
<1>2. /\ Shape(x) /\ x.strayed = e.strayed /\ x.text = e.text /\ x.anchor = e.anchor
      /\ x.cursor = e.cursor /\ x.undo = e.undo /\ x.redo = e.redo /\ x.coalesce = "none"
  BY <1>1 DEF Shape
<1> HIDE DEF x
<1>3. ~ Extends(x, "Inserted", "Insert")
  BY <1>2 DEF Extends
<1>4. Whole(x)
  BY <1>1, <1>2, <1>3 DEF Whole, Sound, Kept
<1>5. QED
  BY <1>4 DEF x

LEMMA RowsKept ==
  ASSUME NEW e, Whole(e), ~ e.strayed, NEW extend \in BOOLEAN,
         NEW row \in Nat, row < LineCount(e.text)
  PROVE  \A d \in ToRow(e, row, extend) : Whole(d)
<1>1. e.text \in Text
  BY DEF Whole, Sound, Kept
<1>2. \A c \in 0..LineLen(e.text, row) : <<row, c>> \in Positions(e.text)
  BY <1>1, RowPlaces
<1>3. \A c \in 0..LineLen(e.text, row) : Whole(SetCursor(e, <<row, c>>, extend))
  BY <1>2, CursorMoved
<1>4. QED
  BY <1>3 DEF ToRow

LEMMA MovesKeep ==
  ASSUME NEW e, Whole(e), ~ e.strayed, NEW extend \in BOOLEAN
  PROVE  /\ Whole(MoveLeft(e, extend)) /\ Whole(MoveRight(e, extend))
         /\ Whole(MoveWordLeft(e, extend)) /\ Whole(MoveWordRight(e, extend))
         /\ Whole(MoveHome(e, extend)) /\ Whole(MoveEnd(e, extend)) /\ Whole(SelectAll(e))
         /\ \A d \in MoveUp(e, extend) \union MoveDown(e, extend)
                       \union PageUp(e, extend) \union PageDown(e, extend) : Whole(d)
<1> DEFINE t == e.text
           p == e.cursor
<1>1. t \in Text /\ p \in Positions(t) /\ e.anchor \in Positions(t) /\ Kept(e)
  BY DEF Whole, Sound, Kept
<1>2. SelStart(e) \in Positions(t) /\ SelEnd(e) \in Positions(t)
  BY <1>1, Selection
<1>3. /\ p = <<p[1], p[2]>> /\ p[1] \in Nat /\ p[2] \in Nat
      /\ p[1] < LineCount(t) /\ LineLen(t, p[1]) \in Nat /\ LineCount(t) \in Nat
  BY <1>1, PlaceRow
<1>4. Back(t, p) \in Positions(t) /\ Forth(t, p) \in Positions(t)
  BY <1>1, BackPlace, ForthPlace
<1>5. Whole(SetCursor(e, SelStart(e), FALSE)) /\ Whole(SetCursor(e, SelEnd(e), FALSE))
  BY <1>2, CursorMoved
<1>6. Whole(MoveLeft(e, extend)) /\ Whole(MoveRight(e, extend))
  <2>1. Whole(SetCursor(e, Back(t, p), extend)) /\ Whole(SetCursor(e, Forth(t, p), extend))
    BY <1>4, CursorMoved
  <2>2. QED
    BY <1>5, <2>1 DEF MoveLeft, MoveRight
<1>7. Whole(MoveWordLeft(e, extend)) /\ Whole(MoveWordRight(e, extend))
  <2>1. Offset(t, p) \in 0..Len(t)
    BY <1>1, OffsetsOfPlaces
  <2>2. WordStart(t, Offset(t, p)) \in 0..Len(t) /\ NextWord(t, Offset(t, p)) \in 0..Len(t)
    BY <1>1, <2>1, WordPlaces
  <2>3. /\ PosOf(t, WordStart(t, Offset(t, p))) \in Positions(t)
        /\ PosOf(t, NextWord(t, Offset(t, p))) \in Positions(t)
    BY <1>1, <2>2, PlaceOf
  <2>4. /\ Whole(SetCursor(e, PosOf(t, WordStart(t, Offset(t, p))), extend))
        /\ Whole(SetCursor(e, PosOf(t, NextWord(t, Offset(t, p))), extend))
    BY <2>3, CursorMoved
  <2>5. QED
    BY <1>5, <2>4 DEF MoveWordLeft, MoveWordRight
<1>8. Whole(MoveHome(e, extend)) /\ Whole(MoveEnd(e, extend))
  <2>1. 0 \in 0..LineLen(t, p[1]) /\ LineLen(t, p[1]) \in 0..LineLen(t, p[1])
    BY <1>3
  <2>2. <<p[1], 0>> \in Positions(t) /\ <<p[1], LineLen(t, p[1])>> \in Positions(t)
    BY <1>1, <1>3, <2>1, RowPlaces
  <2>3. QED
    BY <2>2, CursorMoved DEF MoveHome, MoveEnd
<1> DEFINE last == LineCount(t) - 1
<1>9. last = LastRow(e) /\ last \in Nat /\ last < LineCount(t) /\ 0 \in Nat /\ 0 < LineCount(t)
  BY <1>3 DEF LastRow
<1> HIDE DEF last
<1>10. Whole(SelectAll(e))
  <2>1. LineLen(t, last) \in Nat /\ LineLen(t, 0) \in Nat
    BY <1>1, <1>9, RowPlaces
  <2>2. LineLen(t, last) \in 0..LineLen(t, last) /\ 0 \in 0..LineLen(t, 0)
    BY <2>1
  <2>3. <<last, LineLen(t, last)>> \in Positions(t) /\ <<0, 0>> \in Positions(t)
    BY <1>1, <1>9, <2>2, RowPlaces
  <2> DEFINE c == <<last, LineLen(t, last)>>
             a == <<0, 0>>
  <2>4. SelectAll(e) = [e EXCEPT !.anchor = a, !.cursor = c, !.coalesce = "none"]
    BY <1>9 DEF SelectAll
  <2> HIDE DEF c, a
  <2>5. SelectAll(e) = [Selecting(e, a, c) EXCEPT !.coalesce = "none"]
    BY <2>4 DEF Selecting
  <2>6. a \in Positions(e.text) /\ c \in Positions(e.text)
    BY <2>3 DEF a, c
  <2>7. Whole([Selecting(e, a, c) EXCEPT !.coalesce = "none"])
    BY <1>1, <2>6, MatchApplied, Uncoalesced
  <2>8. QED
    BY <2>5, <2>7
<1>11. \A d \in MoveUp(e, extend) : Whole(d)
  <2>1. CASE p[1] = 0
    BY <2>1 DEF MoveUp
  <2>2. CASE p[1] # 0
    <3>1. p[1] - 1 \in Nat /\ p[1] - 1 < LineCount(t)
      BY <1>3, <2>2
    <3>2. \A d \in ToRow(e, p[1] - 1, extend) : Whole(d)
      BY <3>1, RowsKept
    <3>3. QED
      BY <2>2, <3>2 DEF MoveUp
  <2>3. QED
    BY <2>1, <2>2
<1>12. \A d \in MoveDown(e, extend) : Whole(d)
  <2>1. CASE p[1] >= last
    BY <1>9, <2>1 DEF MoveDown
  <2>2. CASE ~ (p[1] >= last)
    <3>1. p[1] + 1 \in Nat /\ p[1] + 1 < LineCount(t)
      BY <1>3, <1>9, <2>2
    <3>2. \A d \in ToRow(e, p[1] + 1, extend) : Whole(d)
      BY <3>1, RowsKept
    <3>3. QED
      BY <1>9, <2>2, <3>2 DEF MoveDown
  <2>3. QED
    BY <2>1, <2>2
<1>v. VisibleRows \in Nat
  BY EditorAssumption
<1>13. \A d \in PageUp(e, extend) : Whole(d)
  <2> DEFINE S == {p[1] - VisibleRows, 0}
             row == Max(S)
  <2>1. row \in Nat /\ row < LineCount(t)
    <3>1. CASE p[1] - VisibleRows \in Nat
      <4>1. S \in SUBSET (0..p[1]) /\ S # {}
        BY <1>3, <1>v, <3>1
      <4>2. Max(S) \in S
        <5> HIDE DEF S
        <5>1. QED
          BY <1>3, <4>1, GreatestOf
      <4>3. QED
        BY <1>3, <1>v, <3>1, <4>2
    <3>2. CASE p[1] - VisibleRows \notin Nat
      <4>1. p[1] - VisibleRows < 0 /\ p[1] - VisibleRows \in Int
        BY <1>3, <1>v, <3>2
      <4>2. row = 0
        BY <4>1 DEF Max
      <4>3. QED
        BY <1>9, <4>2
    <3>3. QED
      BY <3>1, <3>2
  <2> HIDE DEF row
  <2>2. \A d \in ToRow(e, row, extend) : Whole(d)
    BY <2>1, RowsKept
  <2>3. QED
    BY <2>2 DEF PageUp, row
<1>14. \A d \in PageDown(e, extend) : Whole(d)
  <2> DEFINE row == Min({p[1] + VisibleRows, LineCount(t) - 1})
  <2>1. row \in Nat /\ row < LineCount(t)
    <3>1. p[1] + VisibleRows \in Nat
      BY <1>3, <1>v
    <3>2. QED
      BY <1>1, <3>1, ClampedRow
  <2> HIDE DEF row
  <2>2. \A d \in ToRow(e, row, extend) : Whole(d)
    BY <2>1, RowsKept
  <2>3. QED
    BY <2>2 DEF PageDown, row, LastRow
<1>15. QED
  BY <1>6, <1>7, <1>8, <1>10, <1>11, <1>12, <1>13, <1>14

LEMMA ClampedPlace ==
  ASSUME NEW e, e.text \in Text, NEW spot \in Pos
  PROVE  Clamped(e, spot) \in Positions(e.text)
<1> DEFINE t == e.text
           row == Min({spot[1], LineCount(t) - 1})
           n == LineLen(t, row)
           col == Min({spot[2], n})
<1>1. spot[1] \in Nat /\ spot[2] \in Nat
  BY DEF Pos
<1>2. row \in Nat /\ row < LineCount(t)
  BY <1>1, ClampedRow
<1>3. Clamped(e, spot) = <<row, col>>
  BY DEF Clamped, LastRow
<1> HIDE DEF row
<1>4. n \in Nat
  BY <1>2, RowPlaces
<1>5. col \in 0..n
  <2> DEFINE S == {spot[2], n}
  <2>1. S \in SUBSET Nat /\ S # {}
    BY <1>1, <1>4
  <2>2. Min(S) \in S /\ \A y \in S : Min(S) <= y
    <3> HIDE DEF S
    <3>1. QED
      BY <2>1, LeastOf
  <2>3. QED
    BY <1>1, <1>4, <2>2
<1>6. QED
  BY <1>2, <1>3, <1>5, RowPlaces

----------------------------------------------------------------------------
(* What is typed *)

LEMMA TextsGiven ==
  /\ \A u \in Clips \union Files \union Patterns \union Replacements : u \in Text
  /\ \A u \in Patterns \union Replacements : Plain(u)
  /\ \A c \in Typed : <<c>> \in Text /\ Plain(<<c>>)
<1>1. ASSUME NEW u \in Seq(STRING) PROVE u \in Text
  <2>1. Len(u) \in Nat /\ \A i \in 1..Len(u) : u[i] \in STRING
    OBVIOUS
  <2>2. \A i \in 1..Len(u) : u[i] \in Point
    BY <2>1 DEF Point
  <2>3. u = [i \in 1..Len(u) |-> u[i]]
    OBVIOUS
  <2>4. QED
    BY <2>1, <2>2, <2>3 DEF Text
<1>2. \A u \in Clips \union Files \union Patterns \union Replacements : u \in Text
  BY <1>1, EditorAssumption
<1>3. ASSUME NEW u \in Patterns \union Replacements PROVE Plain(u)
  <2>1. u \in Seq(STRING) /\ CR \notin Range(u)
    BY EditorAssumption
  <2>2. \A i \in 1..Len(u) : u[i] \in Range(u)
    BY <2>1 DEF Range
  <2>3. QED
    BY <2>1, <2>2 DEF Plain
<1>4. ASSUME NEW c \in Typed PROVE <<c>> \in Text /\ Plain(<<c>>)
  <2>1. c \in Point /\ c # CR
    BY EditorAssumption DEF Point
  <2>2. Len(<<c>>) = 1 /\ <<c>>[1] = c
    OBVIOUS
  <2>3. QED
    BY <2>1, <2>2 DEF Text, Plain
<1>5. QED
  BY <1>2, <1>3, <1>4

LEMMA BlanksText ==
  ASSUME NEW n \in Nat
  PROVE  Blanks(n) \in Text /\ Len(Blanks(n)) = n
BY DEF Blanks, Text, Point

LEMMA LineText ==
  ASSUME NEW t \in Text, NEW row \in Nat, row < LineCount(t)
  PROVE  Line(t, row) \in Text
<1>1. PICK o \in 0..Len(t) : NewlinesBefore(t, o) = row
  BY RowReached
<1> DEFINE a == LineStart(t, row)
           b == LineEnd(t, row)
<1>2. a \in 0..o /\ b \in o..Len(t)
  BY <1>1, LineOf
<1>3. Line(t, row) = SubSeq(t, a + 1, b)
  BY DEF Line
<1> HIDE DEF a, b
<1>4. a \in Nat /\ b \in Nat /\ a <= b /\ b <= Len(t)
  BY <1>2 DEF Text
<1>5. QED
  BY <1>3, <1>4, PartText

LEMMA IndentText ==
  ASSUME NEW e, Kept(e)
  PROVE  AutoIndent(e) \in Text
<1> DEFINE line == Line(e.text, e.cursor[1])
           n == Len(line)
           blank(i) == line[i] \in {SP, TAB}
           ends(k) == (\A i \in 1..k : blank(i)) /\ (k = n \/ line[k + 1] \notin {SP, TAB})
           indent == CHOOSE k \in 0..n : ends(k)
           T == {k \in 0..n : k = n \/ line[k + 1] \notin {SP, TAB}}
<1>1. line \in Text
  <2>1. e.text \in Text /\ e.cursor[1] \in Nat /\ e.cursor[1] < LineCount(e.text)
    BY PlaceRow DEF Kept
  <2>2. QED
    BY <2>1, LineText
<1> HIDE DEF line
<1>2. n \in Nat
  BY <1>1 DEF Text
<1>3. T \in SUBSET Nat /\ n \in T
  BY <1>2
<1>4. PICK k \in T : \A y \in T : k <= y
  <2> HIDE DEF T
  <2>1. QED
    BY <1>3, LeastNatural
<1>5. k \in 0..n /\ ends(k)
  <2>1. ASSUME NEW i \in 1..k PROVE blank(i)
    <3>1. k \in 0..n /\ k \in Nat
      BY <1>2, <1>4
    <3>2. i - 1 \in 0..n /\ i - 1 < k /\ (i - 1) + 1 = i /\ i - 1 \in Int
      BY <1>2, <3>1
    <3>3. i - 1 \notin T
      <4> HIDE DEF T
      <4>1. QED
        BY <1>4, <3>1, <3>2
    <3>4. QED
      BY <3>2, <3>3
  <2>2. QED
    BY <1>4, <2>1
<1> HIDE DEF ends
<1>6. indent \in 0..n
  BY <1>5
<1>7. AutoIndent(e) \in {SubSeq(line, 1, indent) \o Blanks(TabWidth), SubSeq(line, 1, indent) \o <<>>}
  BY DEF AutoIndent, line, ends
<1> HIDE DEF indent
<1>8. SubSeq(line, 1, indent) \in Text
  <2>1. 0 \in Nat /\ indent \in Nat /\ 0 <= indent /\ indent <= Len(line) /\ 0 + 1 = 1
    BY <1>2, <1>6
  <2>2. SubSeq(line, 0 + 1, indent) \in Text
    BY <1>1, <2>1, PartText
  <2>3. QED
    BY <2>1, <2>2
<1>9. TabWidth \in Nat /\ <<>> \in Text
  BY EditorAssumption DEF Text
<1>10. Blanks(TabWidth) \in Text
  BY <1>9, BlanksText
<1>11. QED
  BY <1>7, <1>8, <1>9, <1>10, JoinText

LEMMA NewlineText ==
  ASSUME NEW e, Kept(e)
  PROVE  <<NL>> \o AutoIndent(e) \in Text
<1>1. <<NL>> \in Text
  BY DEF Text, Point
<1>2. QED
  BY <1>1, IndentText, JoinText

(* The column of the screen is a number of columns.                         *)
LEMMA SoftTabText ==
  ASSUME NEW e, Kept(e)
  PROVE  \E u \in Text : SoftTab(e) = InsertStr(e, u)
<1> DEFINE line == Line(e.text, e.cursor[1])
           m == Min({e.cursor[2], Len(line)})
           left == SubSeq(line, 1, m)
           toStop(d) == TabWidth - (d % TabWidth)
           column == FoldLeft(LAMBDA d, c : d + (IF c = TAB THEN toStop(d) ELSE 1), 0, left)
<1>1. SoftTab(e) = InsertStr(e, Blanks(toStop(column)))
  BY DEF SoftTab
<1>2. left \in Text
  <2>1. e.text \in Text /\ e.cursor[1] \in Nat /\ e.cursor[1] < LineCount(e.text)
        /\ e.cursor[2] \in Nat
    BY PlaceRow DEF Kept
  <2>2. line \in Text
    BY <2>1, LineText
  <2> HIDE DEF line
  <2>3. Len(line) \in Nat
    BY <2>2 DEF Text
  <2> DEFINE S == {e.cursor[2], Len(line)}
  <2>4. S \in SUBSET Nat /\ S # {}
    BY <2>1, <2>3
  <2>5. m \in S /\ \A y \in S : m <= y
    <3>1. m = Min(S)
      OBVIOUS
    <3> HIDE DEF S, m
    <3>2. QED
      BY <2>4, <3>1, LeastOf
  <2>6. m \in Nat /\ m <= Len(line)
    BY <2>1, <2>3, <2>5
  <2> HIDE DEF m
  <2>7. SubSeq(line, 0 + 1, m) \in Text /\ 0 + 1 = 1
    BY <2>2, <2>3, <2>6, PartText
  <2>8. QED
    BY <2>7
<1> HIDE DEF left
<1>3. TabWidth \in Nat /\ TabWidth > 0
  BY EditorAssumption
<1>4. ASSUME NEW d \in Nat PROVE toStop(d) \in Nat
  BY <1>3
<1> HIDE DEF toStop
<1> DEFINE I == DOMAIN left
           D == SUBSET I
           step(d, c) == d + (IF c = TAB THEN toStop(d) ELSE 1)
           rank == [t \in D |-> Cardinality(t)]
           F == [x \in D \X [D -> Nat] |->
                   IF x[1] = {} THEN 0 ELSE step(x[2][x[1] \ {Max(x[1])}], left[Max(x[1])])]
           A == CHOOSE s : s = [t \in D |->
                  IF t = {} THEN 0 ELSE step(s[t \ {Max(t)}], left[Max(t)])]
<1>5. column = A[I]
  BY DEF FoldLeft, MapThenFoldSet
<1>6. I = 1..Len(left) /\ Len(left) \in Nat /\ IsFiniteSet(I)
  <2>1. I = 1..Len(left) /\ Len(left) \in Nat
    BY <1>2 DEF Text
  <2>2. QED
    BY <2>1, FS_Interval
<1> HIDE DEF I
<1>7. ASSUME NEW u \in D, u # {}
      PROVE  Max(u) \in u /\ Max(u) \in I /\ u \ {Max(u)} \in D
  <2>1. u \in SUBSET (0..Len(left))
    BY <1>6
  <2>2. Max(u) \in u
    BY <1>6, <1>7, <2>1, GreatestOf
  <2>3. QED
    BY <2>2
<1>8. ASSUME NEW u \in D PROVE IsFiniteSet(u) /\ Cardinality(u) \in Nat
  BY <1>6, FS_Subset, FS_CardinalityType
<1>9. rank \in [D -> Nat]
  BY <1>8
<1>10. ASSUME NEW u \in D, u # {}
       PROVE  rank[u \ {Max(u)}] < rank[u]
  <2>1. Cardinality(u \ {Max(u)}) = Cardinality(u) - 1
    BY <1>7, <1>8, <1>10, FS_RemoveElement
  <2>2. rank[u \ {Max(u)}] = rank[u] - 1 /\ rank[u] \in Int
    BY <1>7, <1>8, <1>10, <2>1
  <2>3. QED
    BY <2>2
<1>11. ASSUME NEW d \in Nat, NEW c PROVE step(d, c) \in Nat
  BY <1>4
<1> HIDE DEF step, rank
<1>12. ASSUME NEW u \in D, NEW g \in [D -> Nat] PROVE F[<<u, g>>] \in Nat
  <2>1. CASE u = {}
    BY <2>1
  <2>2. CASE u # {}
    BY <1>7, <1>11, <2>2
  <2>3. QED
    BY <2>1, <2>2
<1>13. LowerRanksDecide(D, Nat, rank, F)
  <2>1. SUFFICES ASSUME NEW u \in D, NEW g \in [D -> Nat], NEW h \in [D -> Nat],
                        \A y \in D : rank[y] < rank[u] => g[y] = h[y]
                 PROVE  F[<<u, g>>] = F[<<u, h>>]
    BY DEF LowerRanksDecide
  <2>2. CASE u = {}
    BY <2>2
  <2>3. CASE u # {}
    <3>1. g[u \ {Max(u)}] = h[u \ {Max(u)}]
      BY <1>7, <1>10, <2>1, <2>3
    <3>2. QED
      BY <2>3, <3>1
  <2>4. QED
    BY <2>2, <2>3
<1>14. PICK f \in [D -> Nat] : \A u \in D : f[u] = F[<<u, f>>]
  <2> HIDE DEF D, F
  <2>1. Recursive(D, Nat, rank, F)
    BY <1>9, <1>12, <1>13 DEF Recursive
  <2>2. QED
    BY <2>1, RecursionDefines DEF Defined
<1>15. f = [u \in D |-> IF u = {} THEN 0 ELSE step(f[u \ {Max(u)}], left[Max(u)])]
  BY <1>14
<1>16. A = [u \in D |-> IF u = {} THEN 0 ELSE step(A[u \ {Max(u)}], left[Max(u)])]
  BY <1>15
<1> DEFINE S == {n \in Nat : \A u \in D : rank[u] <= n => A[u] \in Nat}
<1>17. ASSUME NEW u \in D, \A y \in D : rank[y] < rank[u] => A[y] \in Nat
       PROVE  A[u] \in Nat
  <2>1. A[u] = IF u = {} THEN 0 ELSE step(A[u \ {Max(u)}], left[Max(u)])
    <3> HIDE DEF A, D
    <3>1. QED
      BY <1>16
  <2> HIDE DEF A
  <2>2. CASE u # {}
    <3>1. A[u \ {Max(u)}] \in Nat
      BY <1>7, <1>10, <1>17, <2>2
    <3>2. step(A[u \ {Max(u)}], left[Max(u)]) \in Nat
      BY <1>11, <3>1
    <3>3. QED
      BY <2>1, <2>2, <3>2
  <2>3. CASE u = {}
    BY <2>1, <2>3
  <2>4. QED
    BY <2>2, <2>3
<1> HIDE DEF A
<1>18. 0 \in S
  BY <1>9, <1>17
<1>19. ASSUME NEW n \in Nat, n \in S PROVE n + 1 \in S
  BY <1>9, <1>17, <1>19
<1>20. \A n \in Nat : n \in S
  <2> HIDE DEF S
  <2>1. QED
    BY <1>18, <1>19, NatInductiveSet
<1>21. column \in Nat
  <2>1. I \in D /\ rank[I] \in Nat /\ rank[I] <= rank[I]
    BY <1>9
  <2>2. A[I] \in Nat
    BY <1>20, <2>1
  <2>3. QED
    BY <1>5, <2>2
<1>22. Blanks(toStop(column)) \in Text
  BY <1>4, <1>21, BlanksText
<1>23. QED
  BY <1>1, <1>22

LEMMA CharKeeps ==
  ASSUME NEW e, Whole(e), Kept(e), NEW char \in {CR, TAB, "back", NL} \union (Typed \intersect {DEL})
  PROVE  Whole(Char(e, char))
<1>0. Shape(e) /\ Sound(e)
  BY DEF Whole, Sound
<1>1. ASSUME NEW u \in Text PROVE Whole(DoInsert(e, u, "none"))
  BY <1>0, Inserted
<1>2. ASSUME NEW u \in Text PROVE Whole(InsertStr(e, u))
  BY <1>1 DEF InsertStr
<1>3. Whole(InsertNewline(e))
  BY <1>1, NewlineText DEF InsertNewline
<1>4. Whole(SoftTab(e))
  BY <1>2, SoftTabText
<1>5. Whole(Backspace(e))
  BY BackspaceKeeps
<1>6. CASE char = CR
  BY <1>3, <1>6 DEF Char, CR, TAB, NL, DEL
<1>7. CASE char = TAB
  BY <1>4, <1>7 DEF Char, CR, TAB, NL, DEL
<1>8. CASE char = "back"
  BY <1>5, <1>8 DEF Char, CR, TAB, NL, DEL
<1>9. CASE char = NL
  BY <1>9 DEF Char, CR, TAB, NL, DEL
<1>10. CASE char \in Typed /\ char = DEL
  <2>1. <<DEL>> \in Text /\ Plain(<<DEL>>)
    BY <1>10, TextsGiven
  <2>2. Whole(DoInsert(e, <<DEL>>, "Insert"))
    BY <1>0, <2>1, Inserted
  <2>3. Char(e, char) = InsertChar(e, DEL)
    BY <1>10 DEF Char, CR, TAB, NL, DEL
  <2>4. QED
    BY <2>2, <2>3 DEF InsertChar
<1>11. QED
  BY <1>6, <1>7, <1>8, <1>9, <1>10

----------------------------------------------------------------------------
(* Bytes and characters *)

Cells(u) == {b \in (1..Len(u)) \X (1..4) : b[2] <= Width(u[b[1]])}

LEMMA WidthOfChar ==
  ASSUME NEW c
  PROVE  Width(c) \in 1..4
BY EditorAssumption DEF Width

LEMMA LowerOfChar ==
  ASSUME NEW c \in Point
  PROVE  Lower(c) \in Point
BY EditorAssumption DEF Lower, Point

LEMMA CellsFinite ==
  ASSUME NEW u \in Text
  PROVE  IsFiniteSet(Cells(u)) /\ Bytes(u) = Cardinality(Cells(u)) /\ Bytes(u) \in Nat
<1> DEFINE S == (1..Len(u)) \X (1..4)
<1>1. IsFiniteSet(1..Len(u)) /\ IsFiniteSet(1..4)
  <2>1. Len(u) \in Int /\ 1 \in Int /\ 4 \in Int
    BY DEF Text
  <2>2. QED
    BY <2>1, FS_Interval
<1>2. IsFiniteSet(S)
  BY <1>1, FS_Product
<1>3. Cells(u) \in SUBSET S
  BY DEF Cells
<1> HIDE DEF S
<1>4. IsFiniteSet(Cells(u))
  BY <1>2, <1>3, FS_Subset
<1>5. Bytes(u) = Cardinality(Cells(u))
  BY DEF Bytes, Cells
<1>6. QED
  BY <1>4, <1>5, FS_CardinalityType

(* A text of any characters has bytes.                                      *)
LEMMA BytesPositive ==
  ASSUME NEW u \in Text, Len(u) > 0
  PROVE  Bytes(u) > 0
<1>1. 1 \in 1..Len(u) /\ 1 \in 1..4 /\ 1 <= Width(u[1])
  <2>1. Len(u) \in Nat
    BY DEF Text
  <2>2. Width(u[1]) \in 1..4
    BY WidthOfChar
  <2>3. QED
    BY <2>1, <2>2
<1>2. <<1, 1>> \in Cells(u)
  BY <1>1 DEF Cells
<1>3. Cardinality(Cells(u)) # 0
  BY <1>2, CellsFinite, FS_EmptySet
<1>4. QED
  BY <1>3, CellsFinite

(* The bytes of two texts in a row.                                         *)
LEMMA BytesJoin ==
  ASSUME NEW u \in Text, NEW v \in Text
  PROVE  Bytes(u \o v) = Bytes(u) + Bytes(v)
<1> DEFINE w == u \o v
           n == Len(u)
           m == Len(v)
           T == {c \in Cells(w) : c[1] > n}
           f == [c \in Cells(v) |-> <<n + c[1], c[2]>>]
<1>1. /\ n \in Nat /\ m \in Nat /\ w \in Text /\ Len(w) = n + m
      /\ \A i \in 1..n : w[i] = u[i]
      /\ \A i \in 1..m : w[n + i] = v[i]
  BY JoinText DEF Text
<1> HIDE DEF w, n, m
<1>2. Cells(w) = Cells(u) \union T /\ Cells(u) \intersect T = {}
  <2>1. ASSUME NEW i \in 1..n, NEW k \in 1..4
        PROVE  <<i, k>> \in Cells(w) <=> <<i, k>> \in Cells(u)
    <3>1. i \in 1..Len(w) /\ w[i] = u[i] /\ i \in 1..Len(u)
      BY <1>1, <2>1 DEF n
    <3>2. QED
      BY <3>1 DEF Cells
  <2>2. ASSUME NEW c \in Cells(u) PROVE c[1] \in 1..n /\ c[2] \in 1..4 /\ c = <<c[1], c[2]>>
    BY DEF Cells, n
  <2>3. ASSUME NEW c \in Cells(w), ~ (c[1] > n)
        PROVE  c[1] \in 1..n /\ c[2] \in 1..4 /\ c = <<c[1], c[2]>>
    <3>1. c[1] \in 1..Len(w) /\ c[2] \in 1..4 /\ c = <<c[1], c[2]>>
      BY DEF Cells
    <3>2. QED
      BY <1>1, <2>3, <3>1
  <2>4. \A c \in Cells(u) : c \in Cells(w) /\ ~ (c[1] > n)
    <3>1. SUFFICES ASSUME NEW c \in Cells(u) PROVE c \in Cells(w) /\ ~ (c[1] > n)
      OBVIOUS
    <3>2. c[1] \in 1..n /\ c[2] \in 1..4 /\ c = <<c[1], c[2]>>
      BY <2>2
    <3>3. c \in Cells(w)
      BY <2>1, <3>2
    <3>4. QED
      BY <1>1, <3>2, <3>3
  <2>5. \A c \in Cells(w) : ~ (c[1] > n) => c \in Cells(u)
    <3>1. SUFFICES ASSUME NEW c \in Cells(w), ~ (c[1] > n) PROVE c \in Cells(u)
      OBVIOUS
    <3>2. c[1] \in 1..n /\ c[2] \in 1..4 /\ c = <<c[1], c[2]>>
      BY <2>3, <3>1
    <3>3. QED
      BY <2>1, <3>2
  <2>6. QED
    BY <2>4, <2>5
<1>3. f \in Bijection(Cells(v), T)
  <2>1. ASSUME NEW c \in Cells(v)
        PROVE  /\ f[c] \in T
               /\ c[1] \in 1..m /\ c[2] \in 1..4 /\ c = <<c[1], c[2]>>
    <3>1. c[1] \in 1..m /\ c[2] \in 1..4 /\ c = <<c[1], c[2]>> /\ c[2] <= Width(v[c[1]])
      BY DEF Cells, m
    <3> DEFINE i == n + c[1]
    <3>2. i \in 1..Len(w) /\ i > n /\ w[i] = v[c[1]]
      BY <1>1, <3>1
    <3> HIDE DEF i
    <3>3. <<i, c[2]>> \in Cells(w)
      BY <3>1, <3>2 DEF Cells
    <3>4. <<i, c[2]>> \in T
      BY <3>2, <3>3
    <3>5. f[c] = <<i, c[2]>>
      BY DEF i
    <3>6. QED
      BY <3>1, <3>4, <3>5
  <2>2. f \in [Cells(v) -> T]
    BY <2>1
  <2>3. ASSUME NEW c \in Cells(v), NEW d \in Cells(v), f[c] = f[d] PROVE c = d
    <3>1. n + c[1] = n + d[1] /\ c[2] = d[2]
      <4>1. f[c] = <<n + c[1], c[2]>> /\ f[d] = <<n + d[1], d[2]>>
        OBVIOUS
      <4> HIDE DEF f
      <4> DEFINE a == n + c[1]
                 b == n + d[1]
      <4>2. <<a, c[2]>> = <<b, d[2]>>
        BY <2>3, <4>1
      <4> HIDE DEF a, b
      <4>3. a = b /\ c[2] = d[2]
        BY <4>2
      <4>4. QED
        BY <4>3 DEF a, b
    <3>2. c[1] \in Int /\ d[1] \in Int /\ c = <<c[1], c[2]>> /\ d = <<d[1], d[2]>>
      BY DEF Cells
    <3>3. c[1] = d[1]
      BY <1>1, <3>1, <3>2
    <3>4. QED
      BY <3>1, <3>2, <3>3
  <2>4. ASSUME NEW d \in T PROVE \E c \in Cells(v) : f[c] = d
    <3>1. d[1] \in 1..Len(w) /\ d[2] \in 1..4 /\ d = <<d[1], d[2]>> /\ d[2] <= Width(w[d[1]])
          /\ d[1] > n
      BY DEF Cells
    <3> DEFINE i == d[1] - n
    <3>2. i \in 1..m /\ n + i = d[1] /\ w[d[1]] = v[i]
      <4>1. i \in 1..m /\ n + i = d[1]
        BY <1>1, <3>1
      <4> HIDE DEF i
      <4>2. QED
        BY <1>1, <4>1
    <3> HIDE DEF i
    <3>3. <<i, d[2]>> \in Cells(v)
      BY <3>1, <3>2 DEF Cells, m
    <3>4. f[<<i, d[2]>>] = d
      BY <3>1, <3>2, <3>3
    <3>5. QED
      BY <3>3, <3>4
  <2> HIDE DEF f, T
  <2>5. f \in Injection(Cells(v), T)
    BY <2>2, <2>3 DEF Injection, IsInjective
  <2>6. f \in Surjection(Cells(v), T)
    BY <2>2, <2>4 DEF Surjection
  <2>7. QED
    BY <2>5, <2>6 DEF Bijection
<1>4. ExistsBijection(Cells(v), T)
  BY <1>3 DEF ExistsBijection
<1> HIDE DEF T
<1>5. /\ IsFiniteSet(Cells(u)) /\ IsFiniteSet(Cells(v))
      /\ Bytes(u) = Cardinality(Cells(u)) /\ Bytes(v) = Cardinality(Cells(v))
      /\ Bytes(w) = Cardinality(Cells(w)) /\ Bytes(u) \in Nat /\ Bytes(v) \in Nat
  BY <1>1, CellsFinite
<1>6. IsFiniteSet(T) /\ Cardinality(T) = Cardinality(Cells(v))
  BY <1>4, <1>5, FS_Bijection
<1>7. Cardinality(Cells(u) \union T) = Cardinality(Cells(u)) + Cardinality(T) - Cardinality({})
  BY <1>2, <1>5, <1>6, FS_Union
<1>8. QED
  BY <1>2, <1>5, <1>6, <1>7, FS_EmptySet DEF w

(* The bytes up to a place are those up to an earlier one and those between.*)
LEMMA BytesBetween ==
  ASSUME NEW t \in Text, NEW p \in Nat, NEW q \in Nat, p <= q, q <= Len(t)
  PROVE  /\ ByteOf(t, p) \in Nat /\ ByteOf(t, q) \in Nat
         /\ ByteOf(t, q) = ByteOf(t, p) + Bytes(SubSeq(t, p + 1, q))
         /\ p < q => ByteOf(t, p) < ByteOf(t, q)
<1> DEFINE x == SubSeq(t, 1, p)
           y == SubSeq(t, p + 1, q)
           z == SubSeq(t, 1, q)
<1>1. 0 \in Nat /\ 0 <= p /\ 0 <= q /\ p <= Len(t) /\ 0 + 1 = 1
  BY DEF Text
<1>2. x \in Text /\ z \in Text
  <2>1. SubSeq(t, 0 + 1, p) \in Text /\ SubSeq(t, 0 + 1, q) \in Text
    BY <1>1, PartText
  <2>2. QED
    BY <1>1, <2>1
<1>3. y \in Text /\ Len(y) = q - p
  BY PartText
<1>4. z = x \o y
  <2>1. SubSeq(t, 0 + 1, q) = SubSeq(t, 0 + 1, p) \o SubSeq(t, p + 1, q)
    BY <1>1, PartsJoin
  <2>2. QED
    BY <1>1, <2>1
<1>5. ByteOf(t, p) = Bytes(x) /\ ByteOf(t, q) = Bytes(z)
  BY DEF ByteOf
<1> HIDE DEF x, y, z
<1>6. Bytes(z) = Bytes(x) + Bytes(y) /\ Bytes(x) \in Nat /\ Bytes(y) \in Nat /\ Bytes(z) \in Nat
  BY <1>2, <1>3, <1>4, BytesJoin, CellsFinite
<1>7. p < q => Bytes(y) > 0
  <2>1. p < q => Len(y) > 0
    BY <1>3
  <2>2. QED
    BY <1>3, <2>1, BytesPositive
<1>8. p < q => Bytes(x) < Bytes(z)
  BY <1>6, <1>7
<1>9. QED
  BY <1>5, <1>6, <1>8 DEF y

LEMMA CharAtIn ==
  ASSUME NEW t \in Text, NEW b
  PROVE  CharAt(t, b) \in 0..Len(t)
<1> DEFINE S == {Len(t)} \union {o \in 0..Len(t) : ByteOf(t, o) >= b}
<1>1. S \in SUBSET (0..Len(t)) /\ S \in SUBSET Nat /\ S # {}
  BY DEF Text
<1>2. CharAt(t, b) = Min(S)
  BY DEF CharAt
<1> HIDE DEF S
<1>3. Min(S) \in S
  BY <1>1, LeastOf
<1>4. QED
  BY <1>1, <1>2, <1>3

(* The character at the byte where one begins.                              *)
LEMMA CharAtItsByte ==
  ASSUME NEW t \in Text, NEW p \in 0..Len(t)
  PROVE  CharAt(t, ByteOf(t, p)) = p
<1> DEFINE b == ByteOf(t, p)
           S == {Len(t)} \union {o \in 0..Len(t) : ByteOf(t, o) >= b}
<1>1. Len(t) \in Nat /\ p \in Nat /\ p <= Len(t)
  BY DEF Text
<1>2. ASSUME NEW o \in 0..Len(t) PROVE ByteOf(t, o) \in Nat /\ (o < p => ByteOf(t, o) < b)
  <2>1. o \in Nat /\ o <= Len(t) /\ o <= o
    BY <1>1, <1>2
  <2>2. ByteOf(t, o) \in Nat
    BY <2>1, BytesBetween
  <2>3. o < p => ByteOf(t, o) < ByteOf(t, p)
    BY <1>1, <2>1, BytesBetween
  <2>4. QED
    BY <2>2, <2>3
<1>3. b \in Nat
  BY <1>2
<1> HIDE DEF b
<1>4. S \in SUBSET Nat /\ S # {} /\ p \in S
  <2>1. b >= b
    BY <1>3
  <2>2. p \in S
    BY <2>1 DEF b
  <2>3. QED
    BY <1>1, <2>2
<1>5. \A o \in S : p <= o
  <2>1. SUFFICES ASSUME NEW o \in S PROVE p <= o
    OBVIOUS
  <2>2. CASE o = Len(t)
    BY <1>1, <2>2
  <2>3. CASE o \in 0..Len(t) /\ ByteOf(t, o) >= b
    <3>1. ~ (ByteOf(t, o) < b)
      BY <1>2, <1>3, <2>3
    <3>2. ~ (o < p)
      BY <1>2, <2>3, <3>1
    <3>3. QED
      BY <1>1, <2>3, <3>2
  <2>4. QED
    BY <2>2, <2>3
<1>6. CharAt(t, b) = Min(S)
  BY DEF CharAt
<1> HIDE DEF S
<1>7. Min(S) \in S /\ Min(S) \in Nat /\ Min(S) <= p /\ p <= Min(S)
  BY <1>4, <1>5, LeastOf
<1>8. Min(S) = p
  BY <1>1, <1>7
<1>9. QED
  BY <1>6, <1>8 DEF b

LEMMA FoldedBytes ==
  ASSUME NEW u \in Text, NEW cs \in BOOLEAN, cs \/ LowerKeeps(u)
  PROVE  Bytes(Folded(u, cs)) = Bytes(u)
<1>1. CASE cs
  BY <1>1 DEF Folded
<1>2. CASE ~ cs
  <2> DEFINE v == [i \in 1..Len(u) |-> Lower(u[i])]
  <2>1. Len(u) \in Nat /\ DOMAIN u = 1..Len(u) /\ \A i \in 1..Len(u) : u[i] \in Point
    BY DEF Text
  <2>2. Folded(u, cs) = v
    BY <1>2, <2>1 DEF Folded
  <2>3. v \in Text /\ Len(v) = Len(u) /\ \A i \in 1..Len(u) : v[i] = Lower(u[i])
    <3>1. \A i \in 1..Len(u) : Lower(u[i]) \in Point
      BY <2>1, LowerOfChar
    <3>2. QED
      BY <2>1, <3>1 DEF Text
  <2> HIDE DEF v
  <2>4. \A i \in 1..Len(u) : Width(v[i]) = Width(u[i])
    BY <1>2, <2>1, <2>3 DEF LowerKeeps
  <2>5. Cells(v) = Cells(u)
    BY <2>3, <2>4 DEF Cells
  <2>6. QED
    BY <2>2, <2>3, <2>5, CellsFinite
<1>3. QED
  BY <1>1, <1>2

(* From a character on, letter case moves no byte.                          *)
PlacedFrom(t, from, u, cs) ==
  cs \/ (LowerKeeps(u) /\ \A i \in (from + 1)..Len(t) : Width(Lower(t[i])) = Width(t[i]))

LEMMA PlacedParts ==
  ASSUME NEW t \in Text, NEW from \in Nat, NEW u \in Text, NEW cs \in BOOLEAN,
         PlacedFrom(t, from, u, cs),
         NEW a \in Nat, NEW b \in Nat, from <= a, a <= b, b <= Len(t)
  PROVE  Bytes(Folded(SubSeq(t, a + 1, b), cs)) = Bytes(SubSeq(t, a + 1, b))
<1> DEFINE x == SubSeq(t, a + 1, b)
<1>1. x \in Text /\ Len(x) = b - a /\ \A i \in 1..(b - a) : x[i] = t[a + i]
  BY PartText
<1> HIDE DEF x
<1>2. Len(t) \in Nat /\ DOMAIN x = 1..(b - a)
  BY <1>1 DEF Text
<1>3. ASSUME ~ cs PROVE LowerKeeps(x)
  <2>1. SUFFICES ASSUME NEW i \in 1..(b - a) PROVE Width(Lower(x[i])) = Width(x[i])
    BY <1>2 DEF LowerKeeps
  <2>2. a + i \in (from + 1)..Len(t) /\ x[i] = t[a + i]
    BY <1>1, <1>2
  <2>3. QED
    BY <1>3, <2>2 DEF PlacedFrom
<1>4. cs \/ LowerKeeps(x)
  BY <1>3
<1>5. QED
  BY <1>1, <1>4, FoldedBytes DEF x

(* Where letter case moves no byte, the bytes of an occurrence lead back to *)
(* its characters.                                                          *)
LEMMA HitPlaced ==
  ASSUME NEW t \in Text, NEW from \in Nat, NEW u \in Text, NEW cs \in BOOLEAN,
         PlacedFrom(t, from, u, cs), NEW p \in Nat, from <= p, p + Len(u) <= Len(t),
         IsAt(t, u, p, cs)
  PROVE  LET byte == HitByte(t, from, p, cs)
         IN  CharAt(t, byte) = p /\ CharAt(t, byte + Bytes(u)) = p + Len(u)
<1> DEFINE byte == HitByte(t, from, p, cs)
           q == p + Len(u)
<1>1. Len(t) \in Nat /\ Len(u) \in Nat /\ q \in Nat /\ p <= q /\ q <= Len(t) /\ p <= Len(t)
      /\ p \in 0..Len(t) /\ q \in 0..Len(t) /\ from <= q
  <2>1. Len(t) \in Nat /\ Len(u) \in Nat
    BY DEF Text
  <2>2. QED
    BY <2>1
<1>2. byte = ByteOf(t, p)
  <2>1. Bytes(Folded(SubSeq(t, from + 1, p), cs)) = Bytes(SubSeq(t, from + 1, p))
    <3>1. from <= from
      OBVIOUS
    <3>2. QED
      BY <1>1, <3>1, PlacedParts
  <2>2. ByteOf(t, p) = ByteOf(t, from) + Bytes(SubSeq(t, from + 1, p))
    BY <1>1, BytesBetween
  <2>3. QED
    BY <2>1, <2>2 DEF HitByte
<1>3. byte + Bytes(u) = ByteOf(t, q)
  <2> DEFINE x == SubSeq(t, p + 1, q)
  <2>1. Folded(x, cs) = Folded(u, cs)
    BY DEF IsAt
  <2>2. Bytes(Folded(x, cs)) = Bytes(x)
    <3> HIDE DEF q
    <3>1. QED
      BY <1>1, PlacedParts
  <2>3. Bytes(Folded(u, cs)) = Bytes(u)
    BY FoldedBytes DEF PlacedFrom
  <2>4. ByteOf(t, q) = ByteOf(t, p) + Bytes(x)
    <3> HIDE DEF q
    <3>1. QED
      BY <1>1, BytesBetween
  <2> HIDE DEF x
  <2>5. Bytes(x) = Bytes(u)
    BY <2>1, <2>2, <2>3
  <2>6. QED
    BY <1>2, <2>4, <2>5
<1> HIDE DEF q, byte
<1>4. CharAt(t, ByteOf(t, p)) = p /\ CharAt(t, ByteOf(t, q)) = q
  BY <1>1, CharAtItsByte
<1>5. QED
  BY <1>2, <1>3, <1>4 DEF byte, q

----------------------------------------------------------------------------
(* Find and replace *)

(* An occurrence lies inside the text it was looked for in.                 *)
LEMMA HitsIn ==
  ASSUME NEW t \in Text, NEW u \in Text, NEW cs \in BOOLEAN, NEW from \in Nat, NEW to \in Nat,
         to <= Len(t)
  PROVE  Hits(t, u, from, to, cs) \in SUBSET {p \in 0..Len(t) : p + Len(u) <= Len(t)}
BY DEF Hits, Text

(* Whatever byte a search gives, two places of the text are selected.       *)
LEMMA MatchFits ==
  ASSUME NEW e, Whole(e), Kept(e), NEW u, NEW b
  PROVE  LET d == ApplyMatch(e, b, u)
         IN  /\ Whole(d) /\ Kept(d) /\ d.strayed = e.strayed /\ d.text = e.text
             /\ d.anchor = PosOf(e.text, CharAt(e.text, b))
             /\ d.cursor = PosOf(e.text, CharAt(e.text, b + Bytes(u)))
             /\ d.redo = e.redo /\ d.coalesce = e.coalesce
<1> DEFINE t == e.text
           a == PosOf(t, CharAt(t, b))
           c == PosOf(t, CharAt(t, b + Bytes(u)))
<1>1. t \in Text
  BY DEF Kept
<1>2. CharAt(t, b) \in 0..Len(t) /\ CharAt(t, b + Bytes(u)) \in 0..Len(t)
  BY <1>1, CharAtIn
<1>3. a \in Positions(t) /\ c \in Positions(t)
  BY <1>1, <1>2, PlaceOf
<1>4. ApplyMatch(e, b, u) = Selecting(e, a, c)
  BY DEF ApplyMatch, Selecting
<1> HIDE DEF a, c
<1>5. a \in Positions(e.text) /\ c \in Positions(e.text)
  BY <1>3
<1>6. LET d == Selecting(e, a, c)
      IN  /\ Whole(d) /\ Kept(d) /\ d.strayed = e.strayed /\ d.text = e.text
          /\ d.anchor = a /\ d.cursor = c /\ d.redo = e.redo /\ d.coalesce = e.coalesce
  BY <1>5, MatchApplied
<1>7. QED
  BY <1>4, <1>6 DEF a, c

(* A search that panics changes nothing but that the process is gone.       *)
Aborted(e) == [e EXCEPT !.aborted = TRUE]

LEMMA Marked ==
  ASSUME NEW e, Shape(e), NEW b \in BOOLEAN
  PROVE  LET d == [e EXCEPT !.aborted = b]
         IN  /\ Shape(d) /\ d.strayed = e.strayed /\ d.text = e.text /\ d.anchor = e.anchor
             /\ d.cursor = e.cursor /\ d.undo = e.undo /\ d.redo = e.redo
             /\ d.coalesce = e.coalesce
BY DEF Shape

LEMMA AbortKeeps ==
  ASSUME NEW e, Whole(e), Kept(e)
  PROVE  LET d == Aborted(e)
         IN  /\ Whole(d) /\ Kept(d) /\ d.strayed = e.strayed /\ d.text = e.text
             /\ d.redo = e.redo /\ d.coalesce = e.coalesce
<1> DEFINE d == [e EXCEPT !.aborted = TRUE]
<1>1. Shape(e) /\ Aborted(e) = d
  BY DEF Whole, Sound, Aborted
<1>2. /\ Shape(d) /\ d.strayed = e.strayed /\ d.text = e.text /\ d.anchor = e.anchor
      /\ d.cursor = e.cursor /\ d.undo = e.undo /\ d.redo = e.redo /\ d.coalesce = e.coalesce
  BY <1>1, Marked
<1> HIDE DEF d
<1>3. Extends(d, "Inserted", "Insert") => Extends(e, "Inserted", "Insert")
  BY <1>2 DEF Extends
<1>4. Whole(d) /\ Kept(d)
  BY <1>2, <1>3 DEF Whole, Sound, Kept
<1>5. QED
  BY <1>1, <1>2, <1>4

(* d is e with what a search from a character on found selected.            *)
Matched(e, u, cs, d) ==
  \E from \in Nat, p \in Nat :
    /\ from <= p /\ p + Len(u) <= Len(e.text) /\ IsAt(e.text, u, p, cs)
    /\ d = ApplyMatch(e, HitByte(e.text, from, p, cs), u)

(* A search leaves the text as it was, and selects an occurrence where      *)
(* there is one.                                                            *)
LEMMA FindKeeps ==
  ASSUME NEW e, Whole(e), Kept(e), NEW u \in Text, NEW cs \in BOOLEAN,
         NEW d \in {FindNext(e, u, cs), FindPrev(e, u, cs)}
  PROVE  /\ Whole(d) /\ Kept(d) /\ d.strayed = e.strayed /\ d.text = e.text
         /\ d.redo = e.redo /\ d.coalesce = e.coalesce
         /\ (/\ u # <<>> /\ Hits(e.text, u, 0, Len(e.text), cs) # {}
             /\ ~ SlicesInside(e) \/ d = FindPrev(e, u, cs)) => Matched(e, u, cs, d)
<1> DEFINE t == e.text
           n == Len(t)
           here == Offset(t, e.cursor)
           start == Min({here + 1, n})
           ahead == Hits(t, u, start, n, cs)
           behind == Hits(t, u, 0, here, cs)
           all == Hits(t, u, 0, n, cs)
           last == Max(IF behind # {} THEN behind ELSE all)
           Sel(from, p) == ApplyMatch(e, HitByte(t, from, p, cs), u)
           Found_(from, p) == /\ from \in Nat /\ p \in Nat /\ from <= p
                              /\ p + Len(u) <= n /\ IsAt(t, u, p, cs)
           Fine(x) == /\ Whole(x) /\ Kept(x) /\ x.strayed = e.strayed /\ x.text = e.text
                      /\ x.redo = e.redo /\ x.coalesce = e.coalesce
<1>1. t \in Text /\ n \in Nat /\ Len(u) \in Nat
  BY DEF Kept, Text
<1>2. here \in 0..n
  BY <1>1, OffsetsOfPlaces DEF Kept
<1>3. start \in 0..n
  <2> DEFINE S == {here + 1, n}
  <2>1. S \in SUBSET Nat /\ S # {}
    BY <1>1, <1>2
  <2>2. Min(S) \in S /\ \A y \in S : Min(S) <= y
    <3> HIDE DEF S
    <3>1. QED
      BY <2>1, LeastOf
  <2>3. QED
    BY <1>1, <1>2, <2>2
<1> HIDE DEF start, here
<1>4. /\ all \in SUBSET (0..n) /\ ahead \in SUBSET (0..n)
      /\ behind \subseteq all
      /\ \A p \in all : Found_(0, p)
      /\ \A p \in ahead : Found_(start, p)
  <2> HIDE DEF n, t
  <2>1. QED
    BY <1>1, <1>2, <1>3 DEF Hits
<1>5. /\ FindNext(e, u, cs) = IF u = <<>> THEN e
                              ELSE IF SlicesInside(e) THEN Aborted(e)
                              ELSE IF ahead # {} THEN Sel(start, Min(ahead))
                              ELSE IF all # {} THEN Sel(0, Min(all))
                              ELSE e
      /\ FindPrev(e, u, cs) = IF u = <<>> \/ all = {} THEN e ELSE Sel(0, last)
  BY DEF FindNext, FindPrev, Aborted, start, here
<1> HIDE DEF ahead, behind, all, Found_
<1>6. ahead # {} => Found_(start, Min(ahead))
  <2>1. ahead # {} => Min(ahead) \in ahead
    <3>1. ahead \in SUBSET Nat
      BY <1>1, <1>4
    <3>2. QED
      BY <3>1, LeastOf
  <2>2. QED
    BY <1>4, <2>1
<1>7. all # {} => Found_(0, Min(all)) /\ Found_(0, last)
  <2>1. SUFFICES ASSUME all # {} PROVE Found_(0, Min(all)) /\ Found_(0, last)
    OBVIOUS
  <2> DEFINE S == IF behind # {} THEN behind ELSE all
  <2>2. S \in SUBSET (0..n) /\ S # {} /\ S \subseteq all /\ all \in SUBSET Nat
    BY <1>1, <1>4, <2>1
  <2>3. last = Max(S)
    OBVIOUS
  <2> HIDE DEF S, last
  <2>4. Max(S) \in S
    BY <1>1, <2>2, GreatestOf
  <2>5. Min(all) \in all
    BY <2>1, <2>2, LeastOf
  <2>6. QED
    BY <1>4, <2>2, <2>3, <2>4, <2>5
<1> HIDE DEF last
<1>8. \A from, p : Fine(Sel(from, p))
  BY MatchFits
<1>9. Fine(Aborted(e)) /\ Fine(e)
  BY AbortKeeps
<1>10. \A from, p : Found_(from, p) => Matched(e, u, cs, Sel(from, p))
  BY DEF Matched, Found_
<1> HIDE DEF Sel, Fine
<1>11. Fine(d)
  BY <1>5, <1>8, <1>9
<1>12. (u # <<>> /\ all # {} /\ (~ SlicesInside(e) \/ d = FindPrev(e, u, cs))) => Matched(e, u, cs, d)
  BY <1>5, <1>6, <1>7, <1>10
<1>13. QED
  BY <1>11, <1>12 DEF Fine, all

(* The selection gives way to the replacement.                              *)
LEMMA ReplacedKeeps ==
  ASSUME NEW e, Whole(e), Kept(e), NEW r \in Text, Plain(r)
  PROVE  /\ Whole(Replaced(e, r)) /\ Kept(Replaced(e, r))
         /\ Replaced(e, r).redo \in {e.redo, <<>>}
         /\ Replaced(e, r).coalesce \in {e.coalesce, "none"}
         /\ Replaced(e, r).anchor = Replaced(e, r).cursor
<1> DEFINE d == DeleteSelection(e)
           strays == d.strayed \/ (HasSelection(e) /\ d.redo # <<>>)
           x == [d EXCEPT !.strayed = strays]
           y == DoInsert(d, r, "none")
<1>1. Shape(e) /\ Sound(e)
  BY DEF Whole, Sound
<1>2. /\ Shape(d) /\ d.strayed = e.strayed /\ d.redo = e.redo /\ Sound(d)
      /\ d.coalesce \in {e.coalesce, "none"} /\ Kept(d) /\ d.anchor = d.cursor
      /\ ~ HasSelection(e) => d = e
  BY <1>1, SelectionDeleted
<1>3. Replaced(e, r) = IF r = <<>> THEN x ELSE y
  BY DEF Replaced
<1> HIDE DEF d
<1>4. ~ LoneReturn(r)
  <2>1. CrLfToNl(r) = r
    BY CrLfText
  <2>2. QED
    BY <2>1, CrLfText
<1>5. Shape(y) /\ y.redo = <<>> /\ y.coalesce = "none" /\ Whole(y) /\ Kept(y) /\ y.anchor = y.cursor
  BY <1>2, <1>4, Inserted
<1> HIDE DEF y
<1>6. /\ Shape(x) /\ x.strayed = strays /\ x.text = d.text /\ x.cursor = d.cursor
      /\ x.anchor = d.anchor /\ x.undo = d.undo /\ x.redo = d.redo /\ x.coalesce = d.coalesce
  <2>1. strays \in BOOLEAN
    OBVIOUS
  <2> HIDE DEF strays
  <2>2. QED
    BY <1>2, <2>1 DEF Shape
<1> HIDE DEF x
<1>7. Kept(x)
  <2>1. Extends(x, "Inserted", "Insert") => Extends(d, "Inserted", "Insert")
    BY <1>6 DEF Extends
  <2>2. QED
    BY <1>2, <1>6, <2>1 DEF Kept
<1>8. Whole(x)
  <2>1. CASE HasSelection(e)
    <3>1. ~ x.strayed => x.redo = <<>>
      BY <1>6, <2>1
    <3>2. QED
      BY <1>6, <1>7, <3>1, NothingJournaled DEF Whole, Sound
  <2>2. CASE ~ HasSelection(e)
    <3>1. x.text = e.text /\ x.redo = e.redo /\ (~ x.strayed => ~ e.strayed)
      BY <1>2, <1>6, <2>2
    <3>2. ~ x.strayed => RedoSound(x.text, x.redo)
      BY <3>1 DEF Whole
    <3>3. QED
      BY <1>6, <1>7, <3>2 DEF Whole, Sound
  <2>3. QED
    BY <2>1, <2>2
<1>9. QED
  BY <1>2, <1>3, <1>5, <1>6, <1>7, <1>8

LEMMA ReplaceCurrentKeeps ==
  ASSUME NEW e, Whole(e), Kept(e), NEW u \in Text, NEW r \in Text, Plain(r), NEW cs \in BOOLEAN
  PROVE  Whole(ReplaceCurrent(e, u, r, cs)) /\ Kept(ReplaceCurrent(e, u, r, cs))
<1> DEFINE d == IF SelectionMatches(e, u, cs) THEN Replaced(e, r) ELSE e
<1>1. Whole(d) /\ Kept(d)
  BY ReplacedKeeps
<1>2. ReplaceCurrent(e, u, r, cs) = IF u = <<>> THEN e ELSE FindNext(d, u, cs)
  BY DEF ReplaceCurrent
<1> HIDE DEF d
<1>3. Whole(FindNext(d, u, cs)) /\ Kept(FindNext(d, u, cs))
  BY <1>1, FindKeeps
<1>4. QED
  BY <1>2, <1>3

(* What repeated replacements pass on: the edited text and how far it has   *)
(* been replaced.                                                           *)
Edited(e) ==
  [text : Text, cursor : Pos, anchor : Pos, undo : Seq(Journaled), redo : {e.redo, <<>>},
   coalesce : {e.coalesce, "none"}, strayed : BOOLEAN, aborted : BOOLEAN]

Rounds(e) ==
  {x \in [ed : Edited(e), start : Nat] :
     Whole(x.ed) /\ Kept(x.ed) /\ x.start \in 0..Len(x.ed.text)}

LEMMA EditedIn ==
  ASSUME NEW e, NEW d, Whole(d), Kept(d), d.redo \in {e.redo, <<>>},
         d.coalesce \in {e.coalesce, "none"}
  PROVE  d \in Edited(e)
<1>1. Shape(d)
  BY DEF Whole, Sound
<1>2. d.text \in Text /\ d.cursor \in Pos /\ d.anchor \in Pos /\ d.undo \in Seq(Journaled)
  <2>1. d.text \in Text /\ d.cursor \in Positions(d.text) /\ d.anchor \in Positions(d.text)
        /\ d.undo \in Seq(Journaled)
    BY DEF Kept, UndoSound
  <2>2. QED
    BY <2>1, OffsetsOfPlaces
<1>3. d.strayed \in BOOLEAN /\ d.aborted \in BOOLEAN
  BY <1>1 DEF Shape
<1>4. QED
  BY <1>1, <1>2, <1>3 DEF Shape, Edited

LEMMA RoundKeeps ==
  ASSUME NEW e, NEW x \in Rounds(e), NEW u \in Text, NEW cs \in BOOLEAN,
         NEW r \in Text, Plain(r)
  PROVE  ReplaceRound(x, u, r, cs) \in Rounds(e)
<1> DEFINE t == x.ed.text
           hits == Hits(t, u, x.start, Len(t), cs)
           m == ApplyMatch(x.ed, HitByte(t, x.start, Min(hits), cs), u)
           d == Replaced(m, r)
           y == [ed |-> d, start |-> Offset(d.text, d.cursor)]
<1>1. /\ x.ed \in Edited(e) /\ Whole(x.ed) /\ Kept(x.ed) /\ x.start \in 0..Len(t)
      /\ t \in Text /\ Len(t) \in Nat /\ Len(u) \in Nat
  BY DEF Rounds, Kept, Text
<1>2. ReplaceRound(x, u, r, cs) = IF hits = {} THEN x ELSE y
  BY DEF ReplaceRound, Behind
<1>3. ASSUME hits # {} PROVE y \in Rounds(e)
  <2>4. Whole(m) /\ Kept(m) /\ m.redo = x.ed.redo /\ m.coalesce = x.ed.coalesce
    BY <1>1, MatchFits
  <2> HIDE DEF m
  <2>5. /\ Whole(d) /\ Kept(d) /\ d.redo \in {x.ed.redo, <<>>}
        /\ d.coalesce \in {x.ed.coalesce, "none"}
    BY <2>4, ReplacedKeeps
  <2> HIDE DEF d
  <2>6. d.redo \in {e.redo, <<>>} /\ d.coalesce \in {e.coalesce, "none"}
    BY <1>1, <2>5 DEF Edited
  <2>7. d \in Edited(e)
    BY <2>5, <2>6, EditedIn
  <2>8. Offset(d.text, d.cursor) \in 0..Len(d.text) /\ Len(d.text) \in Nat
    BY <2>5, OffsetsOfPlaces DEF Kept, Text
  <2>9. QED
    BY <2>5, <2>7, <2>8 DEF Rounds
<1>4. QED
  BY <1>2, <1>3

(* The rounds of replace_all, one after the other.                          *)
RoundsOf(e, u, r, cs, start, f) ==
  /\ f \in [Nat -> Rounds(e)]
  /\ \A n \in Nat :
        f[n] = IF n = 0 THEN [ed |-> e, start |-> start] ELSE ReplaceRound(f[n - 1], u, r, cs)

LEMMA RoundsAre ==
  ASSUME NEW e, Whole(e), Kept(e), NEW u \in Text, NEW cs \in BOOLEAN, NEW r \in Text, Plain(r),
         NEW start \in 0..Len(e.text)
  PROVE  \E f : /\ RoundsOf(e, u, r, cs, start, f)
                /\ ReplaceFrom(e, u, r, cs, start) = f[Len(e.text)].ed
<1> DEFINE V == Rounds(e)
           x0 == [ed |-> e, start |-> start]
           G == [x \in V |-> ReplaceRound(x, u, r, cs)]
           A == CHOOSE f : f = [n \in Nat |-> IF n = 0 THEN x0 ELSE ReplaceRound(f[n - 1], u, r, cs)]
<1>1. x0 \in V
  <2>1. e \in Edited(e)
    BY EditedIn
  <2>2. start \in Nat
    BY DEF Kept, Text
  <2>3. QED
    BY <2>1, <2>2 DEF Rounds
<1>2. G \in [V -> V]
  BY RoundKeeps
<1> HIDE DEF V, x0
<1>3. PICK f \in [Nat -> V] : \A n \in Nat : f[n] = IF n = 0 THEN x0 ELSE G[f[n - 1]]
  <2> HIDE DEF G
  <2>1. \E f : Iterates(V, x0, G, f)
    BY <1>1, <1>2, Iteration
  <2>2. QED
    BY <2>1 DEF Iterates
<1>4. ASSUME NEW n \in Nat PROVE f[n] = IF n = 0 THEN x0 ELSE ReplaceRound(f[n - 1], u, r, cs)
  <2>1. n # 0 => n - 1 \in Nat
    OBVIOUS
  <2>2. QED
    BY <1>3, <2>1
<1>5. f = [n \in Nat |-> IF n = 0 THEN x0 ELSE ReplaceRound(f[n - 1], u, r, cs)]
  BY <1>4
<1>6. A = [n \in Nat |-> IF n = 0 THEN x0 ELSE ReplaceRound(A[n - 1], u, r, cs)]
  BY <1>5
<1>7. ReplaceFrom(e, u, r, cs, start) = A[Len(e.text)].ed
  BY DEF ReplaceFrom, x0
<1> HIDE DEF A
<1>8. ASSUME NEW n \in Nat PROVE A[n] = IF n = 0 THEN x0 ELSE ReplaceRound(A[n - 1], u, r, cs)
  BY <1>6
<1> DEFINE S == {n \in Nat : A[n] = f[n]}
<1>9. \A n \in Nat : n \in S
  <2>1. 0 \in S
    BY <1>4, <1>8
  <2>2. ASSUME NEW n \in Nat, n \in S PROVE n + 1 \in S
    <3>1. n + 1 \in Nat /\ n + 1 # 0 /\ (n + 1) - 1 = n
      OBVIOUS
    <3>2. A[n + 1] = ReplaceRound(A[n], u, r, cs) /\ f[n + 1] = ReplaceRound(f[n], u, r, cs)
      BY <1>4, <1>8, <3>1
    <3>3. QED
      BY <2>2, <3>2
  <2> HIDE DEF S
  <2>3. QED
    BY <2>1, <2>2, NatInductiveSet
<1>10. RoundsOf(e, u, r, cs, start, f)
  BY <1>3, <1>4 DEF RoundsOf, V, x0
<1>11. Len(e.text) \in Nat
  BY DEF Kept, Text
<1>12. ReplaceFrom(e, u, r, cs, start) = f[Len(e.text)].ed
  BY <1>7, <1>9, <1>11
<1>13. QED
  BY <1>10, <1>12

LEMMA ReplaceEveryKeeps ==
  ASSUME NEW e, Whole(e), Kept(e), NEW u \in Text, NEW cs \in BOOLEAN, NEW r \in Text, Plain(r)
  PROVE  Whole(ReplaceEvery(e, u, r, cs)) /\ Kept(ReplaceEvery(e, u, r, cs))
<1>1. Len(e.text) \in Nat /\ 0 \in 0..Len(e.text)
  BY DEF Kept, Text
<1>2. PICK f : RoundsOf(e, u, r, cs, 0, f) /\ ReplaceFrom(e, u, r, cs, 0) = f[Len(e.text)].ed
  BY <1>1, RoundsAre
<1>3. f[Len(e.text)] \in Rounds(e)
  BY <1>1, <1>2 DEF RoundsOf
<1>4. QED
  BY <1>2, <1>3 DEF Rounds, ReplaceEvery

----------------------------------------------------------------------------
(* Every step keeps the invariant *)

LEMMA NewWhole ==
  ASSUME NEW t \in Text, Plain(t)
  PROVE  Whole(NewEd(t))
<1> DEFINE e == NewEd(t)
<1>1. /\ Shape(e) /\ e.text = t /\ e.cursor = <<0, 0>> /\ e.anchor = <<0, 0>>
      /\ e.undo = <<>> /\ e.redo = <<>> /\ e.coalesce = "none"
  BY DEF NewEd, Shape
<1>2. <<0, 0>> \in Positions(t)
  <2>1. LineCount(t) \in Nat /\ 0 < LineCount(t) /\ 0 \in Nat
    <3>1. Len(t) \in Nat
      BY DEF Text
    <3>2. QED
      BY <3>1, NewlinesNat DEF LineCount
  <2>2. LineLen(t, 0) \in Nat
    BY <2>1, RowPlaces
  <2>3. 0 \in 0..LineLen(t, 0)
    BY <2>2
  <2>4. QED
    BY <2>1, <2>3, RowPlaces
<1> HIDE DEF e
<1>3. UndoSound(t, e.undo) /\ RedoSound(t, e.redo)
  BY <1>1, NothingJournaled
<1>4. ~ Extends(e, "Inserted", "Insert")
  BY <1>1 DEF Extends
<1>5. Whole(e)
  BY <1>1, <1>2, <1>3, <1>4 DEF Whole, Sound, Kept
<1>6. QED
  BY <1>5 DEF e

LEMMA EditorStarts ==
  ASSUME Init
  PROVE  EditorInv
<1>1. <<>> \in Text /\ Plain(<<>>)
  BY DEF Text, Plain
<1>2. QED
  BY <1>1, NewWhole DEF Init, EditorInv

LEMMA EditorStep ==
  ASSUME EditorInv, [Next]_vars
  PROVE  EditorInv'
<1>1. SUFFICES Whole(ed')
  BY DEF EditorInv
<1>2. Whole(ed) /\ Shape(ed) /\ Sound(ed) /\ (Ready => ~ ed.strayed /\ Kept(ed))
  BY DEF EditorInv, Whole, Sound, Ready
<1>3. ASSUME NEW c \in Typed, type_char(c) PROVE Whole(ed')
  <2>1. <<c>> \in Text /\ Plain(<<c>>)
    BY TextsGiven
  <2>2. Whole(DoInsert(ed, <<c>>, "Insert"))
    BY <1>2, <2>1, Inserted
  <2>3. QED
    BY <1>3, <2>2 DEF type_char, Edits, InsertChar
<1>4. ASSUME type_key PROVE Whole(ed')
  <2>1. Kept(ed) /\ \E char \in {CR, TAB, "back"} : ed' = Char(ed, char)
    BY <1>2, <1>4 DEF type_key, Edits
  <2>2. QED
    BY <1>2, <2>1, CharKeeps
<1>5. ASSUME key_down PROVE Whole(ed')
  <2>1. Kept(ed) /\ ~ ed.strayed
    BY <1>2, <1>5 DEF key_down
  <2> DEFINE Good(k) == Whole(k.ed) /\ Kept(k.ed) /\ k.char \in {CR, TAB, "back", NL} \union (Typed \intersect {DEL})
  <2>2. ASSUME NEW k \in goto_line PROVE Good(k)
    <3>1. PICK n \in 0..MaxSize :
            k = Taken(CR, SetCursor(ed, <<Min({Max({n - 1, 0}), LastRow(ed)}), 0>>, FALSE), FALSE)
      BY <2>2 DEF goto_line
    <3> DEFINE line == Max({n - 1, 0})
               row == Min({line, LineCount(ed.text) - 1})
               place == <<row, 0>>
    <3>2. n \in Nat
      BY EditorAssumption
    <3>3. line \in Nat
      <4>1. CASE n = 0
        <5>1. line = 0
          BY <4>1 DEF Max
        <5>2. QED
          BY <5>1
      <4>2. CASE n # 0
        <5> DEFINE S == {n - 1, 0}
        <5>1. S \in SUBSET (0..n) /\ S # {}
          BY <3>2, <4>2
        <5>2. Max(S) \in S
          <6> HIDE DEF S
          <6>1. QED
            BY <3>2, <5>1, GreatestOf
        <5>3. QED
          BY <3>2, <4>2, <5>2
      <4>3. QED
        BY <4>1, <4>2
    <3> HIDE DEF line
    <3>4. ed.text \in Text
      BY <2>1 DEF Kept
    <3>5. row \in Nat /\ row < LineCount(ed.text)
      BY <3>3, <3>4, ClampedRow
    <3>6. k = Taken(CR, SetCursor(ed, place, FALSE), FALSE)
      BY <3>1 DEF line, LastRow
    <3> HIDE DEF row
    <3>7. place \in Positions(ed.text)
      <4>1. LineLen(ed.text, row) \in Nat
        BY <3>4, <3>5, RowPlaces
      <4>2. 0 \in 0..LineLen(ed.text, row)
        BY <4>1
      <4>3. QED
        BY <3>4, <3>5, <4>2, RowPlaces
    <3> HIDE DEF place
    <3>8. Whole(SetCursor(ed, place, FALSE)) /\ ~ SetCursor(ed, place, FALSE).strayed
      BY <1>2, <2>1, <3>7, CursorMoved
    <3>9. Kept(SetCursor(ed, place, FALSE))
      BY <3>8 DEF Whole, Sound
    <3>10. QED
      BY <3>6, <3>8, <3>9 DEF Taken
  <2>3. ASSUME NEW k \in searches PROVE Good(k)
    <3>1. PICK u \in Patterns, cs \in BOOLEAN :
            k \in {Taken(CR, FindNext(ed, u, cs), TRUE), Taken(CR, FindPrev(ed, u, cs), TRUE)}
      <4>1. PICK d \in Found(ed) : k = Taken(CR, d, TRUE)
        BY <2>3 DEF searches
      <4>2. PICK u \in Patterns, cs \in BOOLEAN : d = FindNext(ed, u, cs) \/ d = FindPrev(ed, u, cs)
        BY <4>1 DEF Found
      <4>3. QED
        BY <4>1, <4>2
    <3>2. u \in Text
      BY TextsGiven
    <3>3. \A d \in {FindNext(ed, u, cs), FindPrev(ed, u, cs)} : Whole(d) /\ Kept(d)
      BY <1>2, <2>1, <3>2, FindKeeps
    <3>4. QED
      BY <3>1, <3>3 DEF Taken
  <2>4. ASSUME NEW k \in replacements PROVE Good(k)
    <3>1. ASSUME NEW u \in Patterns, NEW r \in Replacements, NEW cs \in BOOLEAN
          PROVE  /\ Good(Taken(CR, ReplaceCurrent(ed, u, r, cs), TRUE))
                 /\ Good(Taken(NL, ReplaceEvery(ed, u, r, cs), TRUE))
      <4>1. u \in Text /\ r \in Text /\ Plain(r)
        BY TextsGiven
      <4>2. Whole(ReplaceCurrent(ed, u, r, cs)) /\ Kept(ReplaceCurrent(ed, u, r, cs))
        BY <1>2, <2>1, <4>1, ReplaceCurrentKeeps
      <4>3. Whole(ReplaceEvery(ed, u, r, cs)) /\ Kept(ReplaceEvery(ed, u, r, cs))
        BY <1>2, <2>1, <4>1, ReplaceEveryKeeps
      <4>4. QED
        BY <4>2, <4>3 DEF Taken
    <3> HIDE DEF Good
    <3> DEFINE one(u, r, cs) == Taken(CR, ReplaceCurrent(ed, u, r, cs), TRUE)
               every(u, r, cs) == Taken(NL, ReplaceEvery(ed, u, r, cs), TRUE)
    <3>2. \E u \in Patterns, r \in Replacements, cs \in BOOLEAN :
            k = one(u, r, cs) \/ k = every(u, r, cs)
      <4>1. replacements =
              {one(u, r, cs) : u \in Patterns, r \in Replacements, cs \in BOOLEAN}
              \union {every(u, r, cs) : u \in Patterns, r \in Replacements, cs \in BOOLEAN}
        BY DEF replacements
      <4> HIDE DEF one, every
      <4>2. QED
        BY <2>4, <4>1
    <3>3. \A u \in Patterns, r \in Replacements, cs \in BOOLEAN :
            Good(one(u, r, cs)) /\ Good(every(u, r, cs))
      BY <3>1
    <3> HIDE DEF one, every
    <3>4. QED
      BY <3>2, <3>3
  <2>5. ASSUME NEW k \in field_keys PROVE Good(k)
    BY <1>2, <2>1, <2>5 DEF field_keys, Taken
  <2>6. PICK k \in goto_line \union searches \union replacements \union field_keys :
          ed' = Posted(k)
    BY <1>5 DEF key_down, Edits
  <2>7. Good(k)
    BY <2>2, <2>3, <2>4, <2>5, <2>6
  <2>8. CASE k.ed.aborted
    BY <2>6, <2>7, <2>8 DEF Posted
  <2>9. CASE ~ k.ed.aborted
    BY <2>6, <2>7, <2>9, CharKeeps DEF Posted
  <2>10. QED
    BY <2>8, <2>9
<1>6. ASSUME undo PROVE Whole(ed')
  BY <1>2, <1>6, UndoKeeps DEF undo, Edits
<1>7. ASSUME redo PROVE Whole(ed')
  BY <1>2, <1>7, RedoKeeps DEF redo, Edits
<1>8. ASSUME delete_forward PROVE Whole(ed')
  BY <1>2, <1>8, DeleteForwardKeeps DEF delete_forward, Edits
<1>9. ASSUME cut PROVE Whole(ed')
  BY <1>2, <1>9, SelectedDeleted DEF cut, Edits
<1>10. ASSUME paste PROVE Whole(ed')
  <2>1. PICK u \in Clips : ed' = DoInsert(ed, u, "none")
    BY <1>10 DEF paste, Edits
  <2>2. u \in Text
    BY TextsGiven
  <2>3. Whole(DoInsert(ed, u, "none"))
    BY <1>2, <2>2, Inserted
  <2>4. QED
    BY <2>1, <2>3
<1>11. ASSUME NEW extend \in BOOLEAN, move(extend) PROVE Whole(ed')
  <2>1. ~ ed.strayed
    BY <1>2, <1>11 DEF move
  <2>2. QED
    BY <1>2, <1>11, <2>1, MovesKeep DEF move
<1>12. ASSUME NEW extend \in BOOLEAN, mouse(extend) PROVE Whole(ed')
  <2>1. ~ ed.strayed /\ \E p \in Positions(ed.text) : ed' = SetCursor(ed, p, extend)
    BY <1>2, <1>12 DEF mouse
  <2>2. QED
    BY <1>2, <2>1, CursorMoved
<1>13. ASSUME jump_to_next_diagnostic PROVE Whole(ed')
  <2>1. ~ ed.strayed /\ ed.text \in Text
    BY <1>2, <1>13 DEF jump_to_next_diagnostic, Kept
  <2>2. PICK s \in Spots : ed' = SetCursor(ed, Clamped(ed, s), FALSE)
    BY <1>13 DEF jump_to_next_diagnostic
  <2>3. s \in Pos
    BY EditorAssumption DEF Pos
  <2>4. Clamped(ed, s) \in Positions(ed.text)
    BY <2>1, <2>3, ClampedPlace
  <2>5. Whole(SetCursor(ed, Clamped(ed, s), FALSE))
    BY <1>2, <2>1, <2>4, CursorMoved
  <2>6. QED
    BY <2>2, <2>5
<1>14. ASSUME open_prompt PROVE Whole(ed')
  BY <1>2, <1>14 DEF open_prompt
<1>15. ASSUME close_find PROVE Whole(ed')
  BY <1>2, <1>15 DEF close_find
<1>16. ASSUME press_f3 PROVE Whole(ed')
  <2>1. PICK u \in Patterns, cs \in BOOLEAN : ed' \in {FindNext(ed, u, cs), FindPrev(ed, u, cs)}
    BY <1>16 DEF press_f3, Found
  <2>2. u \in Text /\ Kept(ed)
    BY <1>2, <1>16, TextsGiven DEF press_f3
  <2>3. QED
    BY <1>2, <2>1, <2>2, FindKeeps
<1>17. ASSUME NEW u \in Files, load_from(u) PROVE Whole(ed')
  <2>1. u \in Text
    BY TextsGiven
  <2>2. CrLfToNl(u) \in Text
    BY <2>1, CrLfText
  <2>3. CodePoints(CrLfToNl(u)) \in Text /\ Plain(CodePoints(CrLfToNl(u)))
    BY <2>2, PointsText
  <2>4. QED
    BY <1>17, <2>3, NewWhole DEF load_from
<1>18. ASSUME UNCHANGED vars PROVE Whole(ed')
  BY <1>2, <1>18 DEF vars
<1>19. QED
  BY <1>3, <1>4, <1>5, <1>6, <1>7, <1>8, <1>9, <1>10, <1>11, <1>12, <1>13, <1>14, <1>15,
     <1>16, <1>17, <1>18 DEF Next

LEMMA EditorInvariant == Spec => []EditorInv
<1>1. Init => EditorInv
  BY EditorStarts
<1>2. EditorInv /\ [Next]_vars => EditorInv'
  BY EditorStep
<1>3. QED
  BY <1>1, <1>2, PTL DEF Spec

----------------------------------------------------------------------------
(* Where cursor and anchor are *)

(* Cursor and anchor are places of the text in every state: after any edit, *)
(* undo, redo, search, replacement or jump, whatever was typed or pasted.   *)
THEOREM CursorStaysInText == Spec => []CursorInText
<1>1. EditorInv => CursorInText
  BY DEF EditorInv, CursorInText, Whole, Sound, Kept
<1>2. QED
  BY <1>1, EditorInvariant, PTL

----------------------------------------------------------------------------
(* Back through the journal and forth *)

Undoing(e) ==
  {x \in [text : Text, cursor : Pos, anchor : Pos, undo : Seq(Journaled), redo : Seq(Journaled),
          coalesce : {e.coalesce, "none"}, strayed : BOOLEAN, aborted : BOOLEAN] : Whole(x) /\ ~ x.strayed}

LEMMA UndoingIn ==
  ASSUME NEW e, NEW d, Whole(d), ~ d.strayed, d.coalesce \in {e.coalesce, "none"}
  PROVE  d \in Undoing(e)
<1>1. Shape(d) /\ Kept(d) /\ RedoSound(d.text, d.redo)
  BY DEF Whole, Sound
<1>2. d.text \in Text /\ d.cursor \in Pos /\ d.anchor \in Pos /\ d.undo \in Seq(Journaled)
  <2>1. d.text \in Text /\ d.cursor \in Positions(d.text) /\ d.anchor \in Positions(d.text)
        /\ d.undo \in Seq(Journaled)
    BY <1>1 DEF Kept, UndoSound
  <2>2. QED
    BY <2>1, OffsetsOfPlaces
<1>3. d.strayed \in BOOLEAN /\ d.aborted \in BOOLEAN /\ d.redo \in Seq(Journaled)
  BY <1>1 DEF Shape, RedoSound
<1>4. QED
  BY <1>1, <1>2, <1>3 DEF Shape, Undoing

(* n undos leave the journal n entries shorter, and the text before the     *)
(* n-th last of them.                                                       *)
Regressed(e, x, n) ==
  /\ Len(x.undo) = Len(e.undo) - n
  /\ \A i \in 1..(Len(e.undo) - n) : x.undo[i] = e.undo[i]
  /\ n # 0 => x.text = e.undo[Len(e.undo) + 1 - n].was

LEMMA UndoRegresses ==
  ASSUME NEW e, NEW x, Whole(x), ~ x.strayed, Len(e.undo) \in Nat,
         NEW n \in Nat, n < Len(e.undo), Regressed(e, x, n)
  PROVE  Regressed(e, Undo(x), n + 1)
<1> DEFINE N == Len(e.undo)
           s == x.undo
           y == Undo(x)
<1>1. UndoSound(x.text, s) /\ x.text \in Text /\ Len(s) = N - n /\ N - n \in Nat /\ N - n > 0
  BY DEF Whole, Sound, Kept, Regressed
<1>2. s # <<>>
  BY <1>1
<1>3. y.text = Last(s).was /\ y.undo = Front(s)
  BY <1>2, UndoKeeps
<1>4. s \in Seq(Journaled)
  BY <1>1 DEF UndoSound
<1>5. /\ Last(s) = s[Len(s)] /\ Len(Front(s)) = Len(s) - 1
      /\ \A i \in 1..(Len(s) - 1) : Front(s)[i] = s[i]
  <2>1. Last(s) = s[Len(s)]
    BY DEF Last
  <2>2. QED
    BY <1>1, <1>2, <2>1, UndoTop
<1> HIDE DEF y, s
<1>6. \A i \in 1..(N - n) : s[i] = e.undo[i]
  BY DEF Regressed, s
<1>7. N - n \in 1..(N - n) /\ N + 1 - (n + 1) = N - n /\ N - (n + 1) = (N - n) - 1
  <2>1. N \in Nat
    OBVIOUS
  <2> HIDE DEF N
  <2>2. QED
    BY <1>1, <2>1
<1>8. y.text = e.undo[N + 1 - (n + 1)].was
  BY <1>1, <1>3, <1>5, <1>6, <1>7
<1>9. Len(y.undo) = N - (n + 1)
  BY <1>1, <1>3, <1>5, <1>7
<1>10. ASSUME NEW i \in 1..(N - (n + 1)) PROVE y.undo[i] = e.undo[i]
  <2>1. i \in 1..(Len(s) - 1) /\ i \in 1..(N - n)
    BY <1>1
  <2>2. QED
    BY <1>3, <1>5, <1>6, <2>1
<1>11. QED
  BY <1>8, <1>9, <1>10 DEF Regressed, y

LEMMA UndoLeadsBack ==
  ASSUME NEW e, Whole(e), ~ e.strayed
  PROVE  LET after[n \in Nat] == IF n = 0 THEN e ELSE Undo(after[n - 1])
         IN  \A n \in 1..Len(e.undo) : after[n].text = e.undo[Len(e.undo) + 1 - n].was
<1> DEFINE V == Undoing(e)
           G == [x \in V |-> Undo(x)]
           A == CHOOSE f : f = [n \in Nat |-> IF n = 0 THEN e ELSE Undo(f[n - 1])]
           N == Len(e.undo)
<1>1. e \in V
  BY UndoingIn
<1>2. ASSUME NEW x \in V PROVE Undo(x) \in V /\ Whole(x) /\ ~ x.strayed
  <2>1. Whole(x) /\ ~ x.strayed /\ x.coalesce \in {e.coalesce, "none"}
    BY DEF Undoing
  <2>2. Whole(Undo(x)) /\ ~ Undo(x).strayed /\ Undo(x).coalesce \in {e.coalesce, "none"}
    BY <2>1, UndoKeeps
  <2>3. QED
    BY <2>1, <2>2, UndoingIn
<1> HIDE DEF V
<1>3. PICK f \in [Nat -> V] : \A n \in Nat : f[n] = IF n = 0 THEN e ELSE G[f[n - 1]]
  <2>1. G \in [V -> V]
    BY <1>2
  <2> HIDE DEF G
  <2>2. \E f : Iterates(V, e, G, f)
    BY <1>1, <2>1, Iteration
  <2>3. QED
    BY <2>2 DEF Iterates
<1>4. ASSUME NEW n \in Nat PROVE f[n] = IF n = 0 THEN e ELSE Undo(f[n - 1])
  <2>1. n # 0 => n - 1 \in Nat
    OBVIOUS
  <2>2. QED
    BY <1>3, <2>1
<1>5. f = [n \in Nat |-> IF n = 0 THEN e ELSE Undo(f[n - 1])]
  BY <1>4
<1>6. A = [n \in Nat |-> IF n = 0 THEN e ELSE Undo(A[n - 1])]
  BY <1>5
<1> HIDE DEF A, G
<1>7. ASSUME NEW n \in Nat PROVE A[n] = IF n = 0 THEN e ELSE Undo(A[n - 1])
  BY <1>6
<1>8. N \in Nat /\ e.undo \in Seq(Journaled)
  <2>1. e.undo \in Seq(Journaled)
    BY DEF Whole, Sound, Kept, UndoSound
  <2>2. QED
    BY <2>1
<1> DEFINE S == {n \in Nat : n <= N => A[n] \in V /\ Regressed(e, A[n], n)}
<1>9. 0 \in S
  <2>1. A[0] = e
    BY <1>7
  <2>2. Regressed(e, e, 0)
    BY <1>8 DEF Regressed
  <2>3. QED
    BY <1>1, <2>1, <2>2
<1>10. ASSUME NEW n \in Nat, n \in S PROVE n + 1 \in S
  <2>1. SUFFICES ASSUME n + 1 <= N PROVE A[n + 1] \in V /\ Regressed(e, A[n + 1], n + 1)
    OBVIOUS
  <2>2. n < N /\ A[n] \in V /\ Regressed(e, A[n], n)
    BY <1>8, <1>10, <2>1
  <2>3. A[n + 1] = Undo(A[n])
    <3>1. n + 1 \in Nat /\ n + 1 # 0 /\ (n + 1) - 1 = n
      OBVIOUS
    <3>2. QED
      BY <1>7, <3>1
  <2>4. Regressed(e, Undo(A[n]), n + 1)
    BY <1>2, <1>8, <2>2, UndoRegresses
  <2>5. QED
    BY <1>2, <2>2, <2>3, <2>4
<1>11. \A n \in Nat : n \in S
  <2> HIDE DEF S
  <2>1. QED
    BY <1>9, <1>10, NatInductiveSet
<1>12. \A n \in 1..N : A[n].text = e.undo[N + 1 - n].was
  <2>1. ASSUME NEW n \in 1..N PROVE A[n].text = e.undo[N + 1 - n].was
    <3>1. n \in Nat /\ n <= N /\ n # 0
      BY <1>8
    <3>2. Regressed(e, A[n], n)
      BY <1>11, <3>1
    <3>3. QED
      BY <3>1, <3>2 DEF Regressed
  <2>2. QED
    BY <2>1
<1>13. QED
  BY <1>12 DEF A

(* What may be redone fits as the journal of what was done does.            *)
LEMMA RedoLeadsForth ==
  ASSUME EditorInv
  PROVE  RedoFits
<1>1. SUFFICES ASSUME ~ ed.strayed, ed.redo # <<>>
               PROVE  /\ Last(ed.redo).was = ed.text
                      /\ \A i \in 2..Len(ed.redo) : ed.redo[i - 1].was = ed.redo[i].now
  BY DEF RedoFits
<1> DEFINE s == ed.redo
           n == Len(s)
<1>2. RedoSound(ed.text, s) /\ ed.text \in Text
  BY <1>1 DEF EditorInv, Whole, Sound, Kept
<1>3. Last(s).was = ed.text
  BY <1>1, <1>2, RedoTop
<1>4. n \in Nat /\ \A i \in 1..n : s[i].was = IF i = n THEN ed.text ELSE s[i + 1].now
  BY <1>2 DEF RedoSound
<1>5. ASSUME NEW i \in 2..n PROVE s[i - 1].was = s[i].now
  <2>1. i - 1 \in 1..n /\ i - 1 # n /\ (i - 1) + 1 = i
    BY <1>4
  <2> HIDE DEF s, n
  <2>2. QED
    BY <1>4, <2>1
<1>6. QED
  BY <1>3, <1>5

(* Undoing entry after entry gives back the very texts the edits were made  *)
(* on, and what can be redone was done to the text that is there now: for   *)
(* every interleaving of typing, merging, capping, undoing, redoing,        *)
(* pasting, searching and replacing.                                        *)
THEOREM JournalsFit == Spec => []HistoryFits
<1>1. EditorInv => UndoGoesBack
  BY UndoLeadsBack DEF EditorInv, UndoGoesBack
<1>2. EditorInv => RedoFits
  BY RedoLeadsForth
<1>3. EditorInv => HistoryFits
  BY <1>1, <1>2 DEF HistoryFits
<1>4. QED
  BY <1>3, EditorInvariant, PTL

----------------------------------------------------------------------------
(* Searching and replacing *)

(* What two texts have in common behind s and behind j.                     *)
SameTail(w, s, t, j) ==
  /\ s \in 0..Len(w) /\ j \in 0..Len(t) /\ Len(w) - s = Len(t) - j
  /\ \A i \in 1..(Len(t) - j) : w[s + i] = t[j + i]

(* From p to q and from k to l are the same part of that tail.              *)
Abreast(w, s, t, j, p, q, k, l) ==
  /\ w \in Text /\ s \in Nat /\ t \in Text /\ j \in Nat /\ SameTail(w, s, t, j)
  /\ p \in Nat /\ q \in Nat /\ k \in Nat /\ l \in Nat
  /\ s <= p /\ p <= q /\ q <= Len(w) /\ p + j = k + s /\ q + j = l + s

Part(t, p, q) == SubSeq(t, p + 1, q)

LEMMA TailSlices ==
  ASSUME NEW w, NEW s, NEW t, NEW j, NEW p, NEW q, NEW k, NEW l,
         Abreast(w, s, t, j, p, q, k, l)
  PROVE  Part(w, p, q) = Part(t, k, l)
<1> USE DEF Abreast
<1> DEFINE m == Len(t) - j
           x == SubSeq(w, p + 1, q)
           y == SubSeq(t, k + 1, l)
<1>1. /\ s \in Nat /\ j \in Nat /\ m \in Int /\ k <= l /\ l - k = q - p /\ l <= Len(t)
  BY DEF SameTail, Text
<1>2. ASSUME NEW i \in 1..(q - p)
      PROVE  (p - s) + i \in 1..m /\ p + i = s + ((p - s) + i) /\ k + i = j + ((p - s) + i)
  BY <1>1 DEF SameTail, Text
<1>3. \A i \in 1..m : w[s + i] = t[j + i]
  BY DEF SameTail
<1> HIDE DEF m
<1>4. x \in Text /\ Len(x) = q - p /\ \A i \in 1..(q - p) : x[i] = w[p + i]
  BY <1>1, PartText
<1>5. y \in Text /\ Len(y) = q - p /\ \A i \in 1..(q - p) : y[i] = t[k + i]
  BY <1>1, PartText
<1> HIDE DEF x, y
<1>6. ASSUME NEW i \in 1..(q - p) PROVE x[i] = y[i]
  <2> DEFINE o == (p - s) + i
  <2>1. o \in 1..m /\ p + i = s + o /\ k + i = j + o
    BY <1>2
  <2> HIDE DEF o
  <2>2. w[s + o] = t[j + o]
    BY <1>3, <2>1
  <2>3. QED
    BY <1>4, <1>5, <2>1, <2>2
<1>7. x = y
  BY <1>4, <1>5, <1>6, TextEqual
<1>8. QED
  BY <1>7 DEF x, y, Part

----------------------------------------------------------------------------
(* What a pass over the text replaces *)

(* f gives what the text from each offset on becomes.                       *)
Passes(t, u, r, cs, f) ==
  /\ f \in [Nat -> Text]
  /\ \A i \in Nat :
       f[i] = IF i >= Len(t) THEN <<>>
              ELSE IF i + Len(u) <= Len(t) /\ IsAt(t, u, i, cs) THEN r \o f[i + Len(u)]
              ELSE <<t[i + 1]>> \o f[i + 1]

LEMMA PassExists ==
  ASSUME NEW t \in Text, NEW u \in Text, NEW cs \in BOOLEAN, u # <<>>, NEW r \in Text
  PROVE  \E f : Passes(t, u, r, cs, f) /\ Substituted(t, u, r, cs) = f[0]
<1> DEFINE n == Len(t)
           L == Len(u)
           Hit(i) == i + L <= n /\ IsAt(t, u, i, cs)
           rank == [i \in Nat |-> IF i >= n THEN 0 ELSE n - i]
           Becomes(i, g) == IF i >= n THEN <<>>
                            ELSE IF Hit(i) THEN r \o g[i + L] ELSE <<t[i + 1]>> \o g[i + 1]
           F == [y \in Nat \X [Nat -> Text] |-> Becomes(y[1], y[2])]
<1>1. n \in Nat /\ L \in Nat /\ L # 0
  <2>1. n \in Nat /\ L \in Nat
    BY DEF Text
  <2>2. L # 0
    BY EmptySeq DEF Text
  <2>3. QED
    BY <2>1, <2>2
<1>2. <<>> \in Text /\ \A i \in Nat : i < n => <<t[i + 1]>> \in Text
  <2>1. ASSUME NEW i \in Nat, i < n PROVE <<t[i + 1]>> \in Text
    <3>1. i + 1 \in 1..n
      BY <1>1, <2>1
    <3>2. t[i + 1] \in Point
      BY <3>1 DEF Text
    <3>3. QED
      BY <3>2 DEF Text
  <2>2. QED
    BY <2>1 DEF Text
<1> HIDE DEF n, L, Hit
<1>3. ASSUME NEW i \in Nat, NEW g \in [Nat -> Text]
      PROVE  F[<<i, g>>] = Becomes(i, g)
  OBVIOUS
<1>4. ASSUME NEW i \in Nat, NEW g \in [Nat -> Text]
      PROVE  Becomes(i, g) \in Text
  <2>1. i + 1 \in Nat /\ i + L \in Nat
    BY <1>1
  <2>2. g[i + 1] \in Text /\ g[i + L] \in Text
    BY <2>1
  <2>3. r \o g[i + L] \in Text
    BY <2>2, JoinText
  <2>4. i < n => <<t[i + 1]>> \o g[i + 1] \in Text
    BY <1>2, <2>2, JoinText
  <2>5. i >= n \/ i < n
    BY <1>1
  <2>6. QED
    BY <1>2, <2>3, <2>4, <2>5
<1>5. rank \in [Nat -> Nat]
  BY <1>1
<1>6. ASSUME NEW i \in Nat, NEW g \in [Nat -> Text], NEW h \in [Nat -> Text],
             \A k \in Nat : rank[k] < rank[i] => g[k] = h[k]
      PROVE  Becomes(i, g) = Becomes(i, h)
  <2>1. CASE i >= n
    BY <2>1
  <2>2. CASE i < n
    <3>1. i + 1 \in Nat /\ i + L \in Nat /\ rank[i + 1] < rank[i] /\ rank[i + L] < rank[i]
      BY <1>1, <2>2
    <3>2. g[i + 1] = h[i + 1] /\ g[i + L] = h[i + L]
      BY <1>6, <3>1
    <3>3. QED
      BY <3>2
  <2>3. QED
    BY <1>1, <2>1, <2>2
<1> HIDE DEF Becomes, rank
<1>7. \A y \in Nat, g \in [Nat -> Text] : F[<<y, g>>] \in Text
  BY <1>3, <1>4
<1>8. LowerRanksDecide(Nat, Text, rank, F)
  <2> HIDE DEF F
  <2>1. ASSUME NEW i \in Nat, NEW g \in [Nat -> Text], NEW h \in [Nat -> Text],
               \A k \in Nat : rank[k] < rank[i] => g[k] = h[k]
        PROVE  F[<<i, g>>] = F[<<i, h>>]
    <3>1. Becomes(i, g) = Becomes(i, h)
      BY <1>6, <2>1
    <3>2. QED
      BY <1>3, <3>1
  <2>2. QED
    BY <2>1 DEF LowerRanksDecide
<1> HIDE DEF F
<1>9. Recursive(Nat, Text, rank, F)
  <2>1. Text # {}
    BY <1>2
  <2>2. QED
    BY <1>5, <1>7, <1>8, <2>1 DEF Recursive
<1>10. PICK f \in [Nat -> Text] : \A i \in Nat : f[i] = F[<<i, f>>]
  <2>1. Defined(Nat, Text, F)
    BY <1>9, RecursionDefines
  <2>2. QED
    BY <2>1 DEF Defined
<1>11. \A i \in Nat : f[i] = Becomes(i, f)
  BY <1>3, <1>10
<1> DEFINE A == CHOOSE g : g = [i \in Nat |-> Becomes(i, g)]
<1>12. f = [i \in Nat |-> Becomes(i, f)]
  BY <1>10, <1>11
<1>13. A = [i \in Nat |-> Becomes(i, A)]
  BY <1>12
<1>14. Substituted(t, u, r, cs) = A[0]
  BY DEF Substituted, Becomes, Hit, n, L
<1> HIDE DEF A
<1>15. \A i \in Nat : A[i] = Becomes(i, A)
  BY <1>13
<1> DEFINE S == {k \in Nat : \A i \in Nat : rank[i] < k => A[i] = f[i]}
<1>16. \A k \in Nat : k \in S
  <2>1. 0 \in S
    BY <1>5
  <2>2. ASSUME NEW k \in Nat, k \in S PROVE k + 1 \in S
    <3>1. SUFFICES ASSUME NEW i \in Nat, rank[i] < k + 1 PROVE A[i] = f[i]
      OBVIOUS
    <3>2. CASE i >= n
      <4>1. Becomes(i, A) = <<>> /\ Becomes(i, f) = <<>>
        BY <3>2 DEF Becomes
      <4>2. QED
        BY <1>11, <1>15, <4>1
    <3>3. CASE i < n
      <4>1. i + 1 \in Nat /\ i + L \in Nat /\ rank[i + 1] < k /\ rank[i + L] < k
        BY <1>1, <3>1, <3>3 DEF rank
      <4>2. A[i + 1] = f[i + 1] /\ A[i + L] = f[i + L]
        BY <2>2, <4>1
      <4>3. Becomes(i, A) = Becomes(i, f)
        BY <4>2 DEF Becomes
      <4>4. QED
        BY <1>11, <1>15, <4>3
    <3>4. QED
      BY <1>1, <3>2, <3>3
  <2> HIDE DEF S
  <2>3. QED
    BY <2>1, <2>2, NatInductiveSet
<1>17. A[0] = f[0]
  <2>1. rank[0] \in Nat /\ rank[0] < rank[0] + 1 /\ rank[0] + 1 \in Nat
    BY <1>5
  <2>2. QED
    BY <1>16, <2>1
<1>18. Passes(t, u, r, cs, f)
  BY <1>10, <1>11 DEF Passes, Becomes, Hit, n, L
<1>19. QED
  BY <1>14, <1>17, <1>18

(* No occurrence begins behind j and before q.                              *)
NoneFrom(t, u, j, q, cs) == \A k \in j..(q - 1) : ~ (k + Len(u) <= Len(t) /\ IsAt(t, u, k, cs))

(* From j to q the pass takes the text over as it is.                       *)
TakesOver(t, f, j, q) == f[j] = SubSeq(t, j + 1, q) \o f[q]

(* Where the text has no occurrence the pass keeps it.                      *)
LEMMA PassSkips ==
  ASSUME NEW t \in Text, NEW u \in Text, NEW cs \in BOOLEAN, NEW r \in Text, NEW f, Passes(t, u, r, cs, f),
         NEW j \in Nat, NEW q \in Nat, j <= q, q <= Len(t), NoneFrom(t, u, j, q, cs)
  PROVE  TakesOver(t, f, j, q)
<1> DEFINE P(m) == (j <= m /\ m <= q) => f[j] = SubSeq(t, j + 1, m) \o f[m]
           S == {m \in Nat : P(m)}
<1>1. Len(t) \in Nat /\ \A i \in Nat : f[i] \in Text
  <2>1. f \in [Nat -> Text]
    BY DEF Passes
  <2>2. Len(t) \in Nat
    BY DEF Text
  <2>3. QED
    BY <2>1, <2>2
<1>2. f[j] = SubSeq(t, j + 1, j) \o f[j]
  <2>1. SubSeq(t, j + 1, j) = <<>>
    <3>1. j <= Len(t)
      BY <1>1
    <3>2. QED
      BY <3>1, WholePart
  <2>2. <<>> \o f[j] = f[j]
    BY <1>1, ConcatEmptySeq DEF Text
  <2>3. QED
    BY <2>1, <2>2
<1>3. 0 \in S
  <2>1. j <= 0 => j = 0
    OBVIOUS
  <2>2. P(0)
    BY <1>2, <2>1
  <2> HIDE DEF P
  <2>3. QED
    BY <2>2
<1>4. ASSUME NEW m \in Nat, P(m) PROVE P(m + 1)
  <2>1. CASE j <= m /\ m + 1 <= q
    <3>1. /\ m < Len(t) /\ ~ (m >= Len(t)) /\ m <= q /\ m <= Len(t)
          /\ m + 1 <= Len(t) /\ m \in j..(q - 1) /\ m + 1 \in Nat /\ m + 1 \in 1..Len(t)
          /\ m <= m + 1
      BY <1>1, <2>1
    <3>2. f[j] = SubSeq(t, j + 1, m) \o f[m]
      BY <1>4, <2>1, <3>1
    <3>3. f[m] = <<t[m + 1]>> \o f[m + 1]
      BY <3>1 DEF Passes, NoneFrom
    <3>4. SubSeq(t, m + 1, m + 1) = <<t[m + 1]>>
      <4> DEFINE x == SubSeq(t, m + 1, m + 1)
      <4>0. (m + 1) - m = 1 /\ 1 \in 1..1
        BY <3>1
      <4>1. x \in Text /\ Len(x) = 1 /\ x[1] = t[m + 1]
        BY <3>1, <4>0, PartText
      <4>2. <<t[m + 1]>> \in Text /\ Len(<<t[m + 1]>>) = 1 /\ <<t[m + 1]>>[1] = t[m + 1]
        <5>1. t[m + 1] \in Point
          BY <3>1 DEF Text
        <5>2. QED
          BY <5>1 DEF Text
      <4> HIDE DEF x
      <4>3. \A i \in 1..1 : i = 1
        OBVIOUS
      <4>4. x = <<t[m + 1]>>
        BY <4>1, <4>2, <4>3, TextEqual
      <4>5. QED
        BY <4>4 DEF x
    <3>5. SubSeq(t, j + 1, m + 1) = SubSeq(t, j + 1, m) \o SubSeq(t, m + 1, m + 1)
      BY <2>1, <3>1, PartsJoin
    <3>6. SubSeq(t, j + 1, m) \in Text /\ SubSeq(t, m + 1, m + 1) \in Text
      BY <2>1, <3>1, PartText
    <3>7. f[m + 1] \in Text
      BY <1>1, <3>1
    <3> DEFINE x == SubSeq(t, j + 1, m)
               y == SubSeq(t, m + 1, m + 1)
               z == f[m + 1]
    <3>8. (x \o y) \o z = x \o (y \o z)
      <4>1. x \in Text /\ y \in Text /\ z \in Text
        BY <3>6, <3>7
      <4> HIDE DEF x, y, z
      <4>2. QED
        BY <4>1, JoinAssociative
    <3>9. f[j] = SubSeq(t, j + 1, m + 1) \o f[m + 1]
      BY <3>2, <3>3, <3>4, <3>5, <3>8
    <3>10. QED
      BY <3>9
  <2>2. CASE j = m + 1
    BY <1>2, <2>2
  <2>3. CASE ~ (j <= m + 1 /\ m + 1 <= q)
    BY <2>3
  <2>4. (j <= m /\ m + 1 <= q) \/ j = m + 1 \/ ~ (j <= m + 1 /\ m + 1 <= q)
    OBVIOUS
  <2> HIDE DEF P
  <2>5. QED
    BY <2>1, <2>2, <2>3, <2>4
<1>5. \A m \in Nat : m \in S
  <2> HIDE DEF P
  <2>1. \A m \in Nat : m \in S => m + 1 \in S
    BY <1>4
  <2> HIDE DEF S
  <2>2. QED
    BY <1>3, <2>1, NatInductiveSet
<1>6. P(q)
  <2> HIDE DEF P
  <2>1. QED
    BY <1>5
<1>7. j <= q /\ q <= q
  OBVIOUS
<1>8. QED
  BY <1>6, <1>7, Zenon DEF TakesOver

(* How far a text has been replaced: up to s it is what the pass makes of t *)
(* up to j, and behind it is as t behind j.                                 *)
Partial(w, s, t, j, f) == SameTail(w, s, t, j) /\ SubSeq(w, 1, s) \o f[j] = f[0]

(* An occurrence of a text that is partly replaced is one of the text given.*)
LEMMA HitsAlike ==
  ASSUME NEW w \in Text, NEW s \in Nat, NEW t \in Text, NEW j \in Nat,
         NEW u \in Text, NEW cs \in BOOLEAN, NEW p \in Nat, NEW k \in Nat,
         Abreast(w, s, t, j, p, p + Len(u), k, k + Len(u))
  PROVE  IsAt(w, u, p, cs) <=> IsAt(t, u, k, cs)
<1>1. Part(w, p, p + Len(u)) = Part(t, k, k + Len(u))
  BY TailSlices
<1>2. QED
  BY <1>1 DEF IsAt, Part

LEMMA PartialEnds ==
  ASSUME NEW w \in Text, NEW s \in Nat, NEW t \in Text, NEW j \in Nat, NEW u \in Text, u # <<>>, NEW cs \in BOOLEAN, NEW r \in Text,
         NEW f, Passes(t, u, r, cs, f), Partial(w, s, t, j, f), Hits(w, u, s, Len(w), cs) = {}
  PROVE  w = f[0]
<1> DEFINE n == Len(t)
           m == Len(w)
           L == Len(u)
<1>1. /\ SameTail(w, s, t, j) /\ n \in Nat /\ m \in Nat /\ L \in Nat /\ s \in Nat /\ j \in Nat
      /\ s <= m /\ j <= n /\ m + j = n + s
  BY DEF Partial, SameTail, Text
<1>2. ASSUME NEW k \in j..(n - 1), k + L <= n, IsAt(t, u, k, cs) PROVE FALSE
  <2> DEFINE p == s + (k - j)
  <2>1. p \in Nat /\ k \in Nat /\ s <= p /\ p + L <= m /\ p + j = k + s /\ p \in s..(m - L)
    BY <1>1, <1>2
  <2> HIDE DEF p
  <2>2. IsAt(w, u, p, cs)
    <3>1. Abreast(w, s, t, j, p, p + Len(u), k, k + Len(u))
      BY <1>1, <1>2, <2>1 DEF Abreast
    <3>2. QED
      BY <1>2, <2>1, <3>1, HitsAlike
  <2>3. p \in Hits(w, u, s, m, cs)
    BY <2>1, <2>2 DEF Hits
  <2>4. QED
    BY <2>3
<1>3. f[j] = SubSeq(t, j + 1, n) \o f[n]
  <2>1. Len(t) \in Nat /\ j <= Len(t) /\ Len(t) <= Len(t)
    BY <1>1
  <2>2. NoneFrom(t, u, j, Len(t), cs)
    BY <1>2 DEF NoneFrom
  <2>3. TakesOver(t, f, j, Len(t))
    BY <2>1, <2>2, PassSkips
  <2>4. QED
    BY <2>3 DEF TakesOver
<1>4. f[n] = <<>>
  <2>1. n >= n
    BY <1>1
  <2>2. QED
    BY <1>1, <2>1 DEF Passes
<1>5. SubSeq(w, s + 1, m) = SubSeq(t, j + 1, n)
  <2>1. s <= s /\ m <= Len(w) /\ s + j = j + s /\ m + j = n + s
    BY <1>1
  <2>2. Abreast(w, s, t, j, s, m, j, n)
    BY <1>1, <2>1 DEF Abreast
  <2>3. Part(w, s, m) = Part(t, j, n)
    BY <2>2, TailSlices
  <2>4. QED
    BY <2>3 DEF Part
<1>6. SubSeq(t, j + 1, n) \in Text
  BY <1>1, PartText
<1>7. f[j] = SubSeq(w, s + 1, m)
  BY <1>3, <1>4, <1>5, <1>6, ConcatEmptySeq DEF Text
<1>8. SubSeq(w, 1, m) = SubSeq(w, 1, s) \o SubSeq(w, s + 1, m)
  <2>1. 0 \in Nat /\ 0 <= s /\ 0 + 1 = 1 /\ m <= Len(w)
    BY <1>1
  <2>2. SubSeq(w, 0 + 1, m) = SubSeq(w, 0 + 1, s) \o SubSeq(w, s + 1, m)
    <3> HIDE DEF m
    <3>1. QED
      BY <1>1, <2>1, PartsJoin
  <2>3. QED
    BY <2>1, <2>2
<1>9. SubSeq(w, 1, m) = w
  <2>1. 0 \in Nat /\ 0 <= Len(w)
    BY <1>1
  <2>2. QED
    BY <2>1, WholePart
<1>10. QED
  BY <1>7, <1>8, <1>9 DEF Partial

(* A text with the n characters behind p replaced by r.                     *)
Respliced(w, p, n, r) == WithInserted(WithoutRange(w, p, n), p, r)

(* v is w up to p, then r, then w behind q.                                 *)
Exchanged(v, w, p, q, r) ==
  /\ v \in Text /\ Len(v) + (q - p) = Len(w) + Len(r)
  /\ SubSeq(v, 1, p + Len(r)) = SubSeq(w, 1, p) \o r
  /\ \A i \in 1..(Len(w) - q) : v[(p + Len(r)) + i] = w[q + i]

LEMMA ResplicedText ==
  ASSUME NEW w \in Text, NEW p \in Nat, NEW n \in Nat, p + n <= Len(w), NEW r \in Text
  PROVE  Exchanged(Respliced(w, p, n, r), w, p, p + n, r)
<1> DEFINE k == Len(w)
           m == Len(r)
           x == WithoutRange(w, p, n)
           v == WithInserted(x, p, r)
<1>1. k \in Nat /\ m \in Nat /\ p \in 0..k /\ n \in 0..(k - p)
  BY DEF Text
<1>2. /\ x \in Text /\ Len(x) = k - n /\ \A i \in 1..p : x[i] = w[i]
      /\ \A i \in (p + 1)..(k - n) : x[i] = w[n + i]
  BY <1>1, RemovedText
<1> HIDE DEF x
<1>3. p \in 0..Len(x)
  BY <1>1, <1>2
<1>4. /\ v \in Text /\ Len(v) = (k - n) + m
      /\ \A i \in 1..p : v[i] = x[i]
      /\ \A i \in 1..m : v[p + i] = r[i]
      /\ \A i \in (p + 1)..(k - n) : v[m + i] = x[i]
  <2>1. /\ v \in Text /\ Len(v) = Len(x) + Len(r)
        /\ \A i \in 1..p : v[i] = x[i]
        /\ \A i \in 1..Len(r) : v[p + i] = r[i]
        /\ \A i \in (p + 1)..Len(x) : v[Len(r) + i] = x[i]
    BY <1>2, <1>3, InsertedText
  <2> HIDE DEF v, k
  <2>2. QED
    BY <1>2, <2>1
<1> HIDE DEF v, k, m
<1>5. ASSUME NEW i \in 1..(k - (p + n)) PROVE v[(p + m) + i] = w[(p + n) + i]
  <2> DEFINE o == p + i
  <2>1. o \in (p + 1)..(k - n) /\ m + o = (p + m) + i /\ n + o = (p + n) + i
    BY <1>1
  <2> HIDE DEF o
  <2>2. v[m + o] = x[o] /\ x[o] = w[n + o]
    BY <1>2, <1>4, <2>1
  <2>3. QED
    BY <2>1, <2>2
<1> DEFINE a == SubSeq(v, 1, p + m)
           b == SubSeq(w, 1, p)
           c == b \o r
<1>6. a \in Text /\ Len(a) = p + m /\ \A i \in 1..(p + m) : a[i] = v[i]
  <2> DEFINE q == p + m
  <2>1. 0 \in Nat /\ q \in Nat /\ 0 <= q /\ q <= Len(v) /\ 0 + 1 = 1 /\ q - 0 = q
        /\ \A i \in 1..q : 0 + i = i
    BY <1>1, <1>4
  <2> HIDE DEF q
  <2>2. /\ SubSeq(v, 0 + 1, q) \in Text /\ Len(SubSeq(v, 0 + 1, q)) = q - 0
        /\ \A i \in 1..(q - 0) : SubSeq(v, 0 + 1, q)[i] = v[0 + i]
    BY <1>4, <2>1, PartText
  <2>3. /\ SubSeq(v, 1, q) \in Text /\ Len(SubSeq(v, 1, q)) = q
        /\ \A i \in 1..q : SubSeq(v, 1, q)[i] = v[i]
    BY <2>1, <2>2
  <2>4. QED
    BY <2>3 DEF q
<1>7. b \in Text /\ Len(b) = p /\ \A i \in 1..p : b[i] = w[i]
  <2>1. 0 \in Nat /\ 0 <= p /\ p <= Len(w) /\ 0 + 1 = 1 /\ p - 0 = p /\ \A i \in 1..p : 0 + i = i
    BY <1>1 DEF k
  <2>2. /\ SubSeq(w, 0 + 1, p) \in Text /\ Len(SubSeq(w, 0 + 1, p)) = p - 0
        /\ \A i \in 1..(p - 0) : SubSeq(w, 0 + 1, p)[i] = w[0 + i]
    BY <2>1, PartText
  <2>3. QED
    BY <2>1, <2>2
<1> HIDE DEF a, b
<1>8. /\ c \in Text /\ Len(c) = p + m
      /\ \A i \in 1..p : c[i] = b[i]
      /\ \A i \in 1..m : c[p + i] = r[i]
  <2>1. /\ c \in Text /\ Len(c) = Len(b) + Len(r)
        /\ \A i \in 1..Len(b) : c[i] = b[i]
        /\ \A i \in 1..Len(r) : c[Len(b) + i] = r[i]
    BY <1>7, JoinText
  <2> HIDE DEF c
  <2>2. Len(b) = p /\ Len(r) = m
    BY <1>7 DEF m
  <2>3. QED
    BY <2>1, <2>2
<1> HIDE DEF c
<1>9. ASSUME NEW i \in 1..(p + m) PROVE a[i] = c[i]
  <2>1. CASE i <= p
    <3>1. i \in 1..p
      BY <2>1
    <3>2. v[i] = x[i] /\ x[i] = w[i] /\ b[i] = w[i] /\ c[i] = b[i] /\ a[i] = v[i]
      BY <1>2, <1>4, <1>6, <1>7, <1>8, <3>1
    <3>3. QED
      BY <3>2
  <2>2. CASE ~ (i <= p)
    <3> DEFINE o == i - p
    <3>1. o \in 1..m /\ p + o = i
      BY <1>1, <2>2
    <3> HIDE DEF o
    <3>2. v[p + o] = r[o] /\ c[p + o] = r[o]
      BY <1>4, <1>8, <3>1
    <3>3. QED
      BY <1>6, <3>1, <3>2
  <2>3. QED
    BY <2>1, <2>2
<1>10. a = c
  BY <1>6, <1>8, <1>9, TextEqual
<1>11. Respliced(w, p, n, r) = v
  BY DEF Respliced, v, x
<1>12. a = b \o r
  BY <1>10 DEF c
<1>13. Len(v) + ((p + n) - p) = k + m
  BY <1>1, <1>4
<1>14. SubSeq(v, 1, p + m) = SubSeq(w, 1, p) \o r
  BY <1>12 DEF a, b
<1>15. Exchanged(v, w, p, p + n, r)
  BY <1>4, <1>5, <1>13, <1>14 DEF Exchanged, k, m
<1>16. QED
  BY <1>11, <1>15

(* Each replacement takes the pass on behind the occurrence.                *)
LEMMA PartialGrows ==
  ASSUME NEW w \in Text, NEW s \in Nat, NEW t \in Text, NEW j \in Nat, NEW u \in Text, u # <<>>, NEW cs \in BOOLEAN,
         NEW r \in Text, NEW f, Passes(t, u, r, cs, f), Partial(w, s, t, j, f),
         Hits(w, u, s, Len(w), cs) # {}
  PROVE  LET p == Min(Hits(w, u, s, Len(w), cs))
         IN  \E l \in Nat : j < l /\ Partial(Respliced(w, p, Len(u), r), p + Len(r), t, l, f)
<1> DEFINE n == Len(t)
           k == Len(w)
           L == Len(u)
           m == Len(r)
           hits == Hits(w, u, s, k, cs)
           p == Min(hits)
           q == j + (p - s)
           l == q + L
           z == p + L
           v == Respliced(w, p, L, r)
<1>1. /\ SameTail(w, s, t, j) /\ n \in Nat /\ k \in Nat /\ L \in Nat /\ m \in Nat
      /\ s <= k /\ j <= n /\ k + j = n + s
  <2>1. SameTail(w, s, t, j)
    BY DEF Partial
  <2>2. n \in Nat /\ k \in Nat /\ L \in Nat /\ m \in Nat
    BY DEF Text
  <2>3. s \in 0..k /\ j \in 0..n /\ k - s = n - j
    BY <2>1 DEF SameTail
  <2> HIDE DEF n, k, L, m
  <2>4. s <= k /\ j <= n /\ k + j = n + s
    BY <2>2, <2>3
  <2>5. QED
    BY <2>1, <2>2, <2>4
<1>2. L # 0
  BY EmptySeq DEF Text
<1>3. hits \in SUBSET Nat /\ hits # {}
  BY <1>1 DEF Hits
<1>4. p \in hits /\ \A o \in hits : p <= o
  <2> HIDE DEF hits
  <2>1. QED
    BY <1>3, LeastOf
<1>5. p \in Nat /\ s <= p /\ p + L <= k /\ IsAt(w, u, p, cs)
  <2>1. p \in s..(k - L) /\ IsAt(w, u, p, cs)
    BY <1>4 DEF Hits
  <2> HIDE DEF p
  <2>2. QED
    BY <1>1, <2>1
<1>6. ASSUME NEW o \in Nat, s <= o, o < p, IsAt(w, u, o, cs) PROVE FALSE
  <2>1. o \in s..(k - L)
    <3> HIDE DEF p
    <3>1. QED
      BY <1>1, <1>5, <1>6
  <2>2. o \in hits
    BY <1>6, <2>1 DEF Hits
  <2>3. p <= o
    BY <1>4, <2>2
  <2> HIDE DEF p
  <2>4. QED
    BY <1>5, <1>6, <2>3
<1> HIDE DEF p, k, n, L, m
<1>7. /\ q \in Nat /\ l \in Nat /\ z \in Nat /\ j <= q /\ j < l /\ q + L = l /\ q <= n /\ l <= n
      /\ ~ (q >= n) /\ p <= k /\ p <= z /\ z <= k /\ p + L = z
      /\ p + j = q + s /\ z + j = l + s /\ k - z = n - l
  BY <1>1, <1>2, <1>5
<1> HIDE DEF q, l, z
<1>8. NoneFrom(t, u, j, q, cs)
  <2>1. SUFFICES ASSUME NEW o \in j..(q - 1), o + Len(u) <= Len(t), IsAt(t, u, o, cs) PROVE FALSE
    BY DEF NoneFrom
  <2> DEFINE i == s + (o - j)
  <2>2. o \in Nat /\ i \in Nat /\ s <= i /\ i + L <= k /\ i + j = o + s /\ i < p
    BY <1>1, <1>5, <1>7, <2>1
  <2> HIDE DEF i
  <2>3. IsAt(w, u, i, cs)
    <3>1. i + Len(u) <= Len(w)
      BY <2>2 DEF L, k
    <3>2. SameTail(w, s, t, j) /\ Len(u) \in Nat
      BY <1>1 DEF Text
    <3>3. Abreast(w, s, t, j, i, i + Len(u), o, o + Len(u))
      BY <2>2, <3>1, <3>2 DEF Abreast
    <3>4. QED
      BY <2>1, <2>2, <3>3, HitsAlike
  <2>4. QED
    BY <1>6, <2>2, <2>3
<1>9. f[j] = SubSeq(t, j + 1, q) \o f[q]
  <2>1. q <= Len(t)
    BY <1>7 DEF n
  <2>2. TakesOver(t, f, j, q)
    BY <1>1, <1>7, <1>8, <2>1, PassSkips
  <2>3. QED
    BY <2>2 DEF TakesOver
<1>10. f[q] = r \o f[l]
  <2>1. IsAt(t, u, q, cs)
    <3>1. p + Len(u) <= Len(w)
      BY <1>5 DEF L, k
    <3>2. SameTail(w, s, t, j) /\ Len(u) \in Nat
      BY <1>1 DEF Text
    <3>3. Abreast(w, s, t, j, p, p + Len(u), q, q + Len(u))
      BY <1>5, <1>7, <3>1, <3>2 DEF Abreast
    <3>4. QED
      BY <1>5, <1>7, <3>3, HitsAlike
  <2>2. q + Len(u) <= Len(t) /\ ~ (q >= Len(t)) /\ q + Len(u) = l
    BY <1>7 DEF L, n
  <2>3. f[q] = IF q >= Len(t) THEN <<>>
               ELSE IF q + Len(u) <= Len(t) /\ IsAt(t, u, q, cs) THEN r \o f[q + Len(u)]
               ELSE <<t[q + 1]>> \o f[q + 1]
    BY <1>7 DEF Passes
  <2>4. f[q] = r \o f[q + Len(u)]
    BY <2>1, <2>2, <2>3
  <2>5. QED
    BY <2>2, <2>4
<1>11. SubSeq(w, s + 1, p) = SubSeq(t, j + 1, q)
  <2>1. s <= s /\ s + j = j + s
    BY <1>1
  <2>2. p <= Len(w)
    BY <1>7 DEF k
  <2>3. Abreast(w, s, t, j, s, p, j, q)
    BY <1>1, <1>5, <1>7, <2>1, <2>2 DEF Abreast
  <2>4. Part(w, s, p) = Part(t, j, q)
    BY <2>3, TailSlices
  <2>5. QED
    BY <2>4 DEF Part
<1>12. SubSeq(w, 1, p) = SubSeq(w, 1, s) \o SubSeq(w, s + 1, p)
  <2>1. 0 \in Nat /\ 0 <= s /\ 0 + 1 = 1
    BY <1>1
  <2>2. p <= Len(w)
    BY <1>7 DEF k
  <2>3. SubSeq(w, 0 + 1, p) = SubSeq(w, 0 + 1, s) \o SubSeq(w, s + 1, p)
    BY <1>1, <1>5, <2>1, <2>2, PartsJoin
  <2>4. QED
    BY <2>1, <2>3
<1>13. /\ v \in Text /\ Len(v) + (z - p) = k + m
       /\ SubSeq(v, 1, p + m) = SubSeq(w, 1, p) \o r
       /\ \A i \in 1..(k - z) : v[(p + m) + i] = w[z + i]
  <2>1. Len(u) \in Nat /\ p + Len(u) <= Len(w) /\ p + Len(u) = z
    BY <1>1, <1>5, <1>7 DEF L, k
  <2>2. Exchanged(Respliced(w, p, Len(u), r), w, p, p + Len(u), r)
    BY <1>5, <2>1, ResplicedText
  <2>3. Exchanged(v, w, p, z, r)
    BY <2>1, <2>2 DEF v, L
  <2> HIDE DEF v
  <2>4. QED
    BY <2>3 DEF Exchanged, k, m
<1> HIDE DEF v
<1>14. SameTail(v, p + m, t, l)
  <2> DEFINE x == Len(v)
  <2>1. x \in Nat
    BY <1>13 DEF Text
  <2>2. x + (z - p) = k + m
    BY <1>13
  <2> HIDE DEF x
  <2>3. p + m \in 0..x /\ l \in 0..n /\ x - (p + m) = n - l
    BY <1>1, <1>5, <1>7, <2>1, <2>2
  <2>4. ASSUME NEW i \in 1..(n - l) PROVE v[(p + m) + i] = t[l + i]
    <3> DEFINE o == (z - s) + i
    <3>1. i \in 1..(k - z) /\ o \in 1..(n - j) /\ s + o = z + i /\ j + o = l + i
      BY <1>1, <1>5, <1>7, <2>4
    <3> HIDE DEF o
    <3>2. w[s + o] = t[j + o]
      BY <1>1, <3>1 DEF SameTail, n
    <3>3. v[(p + m) + i] = w[z + i]
      BY <1>13, <3>1
    <3>4. QED
      BY <3>1, <3>2, <3>3
  <2>5. QED
    BY <2>3, <2>4 DEF SameTail, x, n
<1>15. SubSeq(v, 1, p + m) \o f[l] = f[0]
  <2> DEFINE a == SubSeq(w, 1, s)
             b == SubSeq(t, j + 1, q)
             c == f[l]
  <2>1. a \in Text /\ b \in Text /\ c \in Text
    <3>1. a \in Text
      <4>1. 0 \in Nat /\ 0 <= s /\ 0 + 1 = 1
        BY <1>1
      <4>2. s <= Len(w)
        BY <1>1 DEF k
      <4>3. SubSeq(w, 0 + 1, s) \in Text
        BY <1>1, <4>1, <4>2, PartText
      <4>4. QED
        BY <4>1, <4>3
    <3>2. b \in Text
      <4>1. q <= Len(t)
        BY <1>7 DEF n
      <4>2. QED
        BY <1>1, <1>7, <4>1, PartText
    <3>3. c \in Text
      BY <1>7 DEF Passes
    <3>4. QED
      BY <3>1, <3>2, <3>3
  <2>2. f[0] = a \o f[j]
    BY DEF Partial
  <2>3. f[j] = b \o (r \o c)
    BY <1>9, <1>10
  <2>4. SubSeq(v, 1, p + m) = (a \o b) \o r
    BY <1>11, <1>12, <1>13
  <2> HIDE DEF a, b
  <2>5. ((a \o b) \o r) \o c = a \o (b \o (r \o c))
    <3> HIDE DEF c
    <3>1. FoldsEitherWay(a, b, r, c)
      BY <2>1, JoinOfFour
    <3>2. QED
      BY <3>1 DEF FoldsEitherWay
  <2>6. f[0] = a \o (b \o (r \o c))
    BY <2>2, <2>3
  <2> HIDE DEF c
  <2>7. SubSeq(v, 1, p + m) \o c = f[0]
    BY <2>4, <2>5, <2>6
  <2>8. QED
    BY <2>7 DEF c
<1>16. Partial(v, p + m, t, l, f)
  BY <1>14, <1>15 DEF Partial
<1>17. QED
  BY <1>7, <1>16 DEF v, p, hits, k, L, m

(* The replaced selection, and the cursor behind the replacement.           *)
LEMMA ReplacedText ==
  ASSUME NEW e, Whole(e), Kept(e), HasSelection(e), NEW r \in Text, Plain(r)
  PROVE  LET lo == Offset(e.text, SelStart(e))
             hi == Offset(e.text, SelEnd(e))
             d == Replaced(e, r)
         IN  /\ d.text = Respliced(e.text, lo, hi - lo, r)
             /\ Offset(d.text, d.cursor) = lo + Len(r)
<1> DEFINE t == e.text
           c == SelStart(e)
           lo == Offset(t, c)
           hi == Offset(t, SelEnd(e))
           n == hi - lo
           s == DeleteSelection(e)
           strays == s.strayed \/ (HasSelection(e) /\ s.redo # <<>>)
           x == [s EXCEPT !.strayed = strays]
           y == DoInsert(s, r, "none")
           v == WithoutRange(t, lo, n)
           m == Len(r)
           d == Replaced(e, r)
<1>1. Shape(e) /\ t \in Text /\ e.cursor \in Positions(t) /\ e.anchor \in Positions(t)
  BY DEF Whole, Sound, Kept
<1>2. c \in Positions(t) /\ lo <= hi /\ lo \in 0..Len(t) /\ hi \in 0..Len(t) /\ PosOf(t, lo) = c
  <2>1. c \in Positions(t) /\ SelEnd(e) \in Positions(t) /\ lo <= hi
    BY <1>1, Selection
  <2> HIDE DEF c
  <2>2. QED
    BY <1>1, <2>1, OffsetsOfPlaces
<1>3. Shape(s) /\ Sound(s) /\ Kept(s) /\ s.anchor = s.cursor /\ s.text = v /\ s.cursor = c
  BY <1>1, SelectionDeleted DEF Whole
<1>4. d = IF r = <<>> THEN x ELSE y
  BY DEF Replaced
<1> HIDE DEF s, d, c, lo, hi
<1>5. Len(t) \in Nat /\ m \in Nat /\ n \in 0..(Len(t) - lo) /\ lo \in Nat
  <2>1. Len(t) \in Nat /\ m \in Nat
    BY <1>1 DEF Text
  <2> HIDE DEF m, t
  <2>2. QED
    BY <1>2, <2>1
<1>6. /\ v \in Text /\ lo \in 0..Len(v) /\ PosOf(v, lo) = c
  <2> HIDE DEF n
  <2>1. v \in Text /\ Len(v) = Len(t) - n /\ \A i \in 1..lo : v[i] = t[i]
    BY <1>1, <1>2, <1>5, RemovedText
  <2> HIDE DEF v
  <2>2. lo \in 0..Len(v) /\ lo <= Len(v)
    BY <1>2, <1>5, <2>1
  <2>3. \A i \in 1..lo : t[i] = v[i]
    BY <2>1
  <2>4. PosOf(t, lo) = PosOf(v, lo)
    BY <1>1, <1>2, <2>1, <2>2, <2>3, PlaceByPrefix
  <2>5. QED
    BY <1>2, <2>1, <2>2, <2>4
<1>7. Offset(v, c) = lo
  <2> HIDE DEF v
  <2>1. Offset(v, PosOf(v, lo)) = lo
    BY <1>6, PlaceOf
  <2>2. QED
    BY <1>6, <2>1
<1>8. CASE r = <<>>
  <2>1. d.text = v /\ d.cursor = c
    <3>1. x.text = s.text /\ x.cursor = s.cursor
      <4> HIDE DEF strays
      <4>1. QED
        BY <1>3 DEF Shape
    <3> HIDE DEF x
    <3>2. QED
      BY <1>3, <1>4, <1>8, <3>1
  <2>2. WithInserted(v, lo, <<>>) = v
    <3> HIDE DEF v
    <3>1. QED
      BY <1>6, NothingInserted
  <2>3. Len(r) = 0
    BY <1>8
  <2>4. d.text = Respliced(t, lo, n, r)
    BY <1>8, <2>1, <2>2 DEF Respliced
  <2>5. Offset(d.text, d.cursor) = lo + Len(r)
    BY <1>5, <1>7, <2>1, <2>3
  <2>6. QED
    BY <2>4, <2>5 DEF d, n, hi, lo, c
<1>9. CASE r # <<>>
  <2>1. d = y
    BY <1>4, <1>9
  <2>2. ~ LoneReturn(r) /\ CrLfToNl(r) = r
    <3>1. CrLfToNl(r) = r
      BY CrLfText
    <3>2. QED
      BY <3>1, CrLfText
  <2>3. DeleteSelection(s) = s
    BY <1>3 DEF DeleteSelection, HasSelection
  <2> DEFINE q == DeleteSelection(s)
  <2>4. /\ y.text = WithInserted(q.text, Offset(q.text, q.cursor), CrLfToNl(r))
        /\ y.cursor = EndOf(q.cursor, r)
    <3> HIDE DEF y
    <3>1. QED
      BY <1>3, <2>2, Inserted DEF y
  <2>5. q = s
    BY <2>3
  <2> HIDE DEF q, y, v
  <2>6. y.text = WithInserted(v, lo, r) /\ y.cursor = EndOf(c, r)
    BY <1>3, <1>7, <2>2, <2>4, <2>5
  <2> DEFINE w == WithInserted(v, lo, r)
  <2>7. lo + Len(r) \in 0..Len(w) /\ EndOf(c, r) = PosOf(w, lo + Len(r))
    BY <1>6, <2>2, EndOfPlace
  <2>8. w \in Text
    BY <1>6, InsertedText
  <2> HIDE DEF w
  <2>9. Offset(w, EndOf(c, r)) = lo + Len(r)
    BY <2>7, <2>8, PlaceOf
  <2>10. d.text = w /\ d.cursor = EndOf(c, r)
    BY <2>1, <2>6 DEF w
  <2>11. d.text = Respliced(t, lo, n, r)
    BY <2>10 DEF w, v, Respliced
  <2>12. QED
    BY <2>9, <2>10, <2>11 DEF d, n, hi, lo, c
<1>10. QED
  BY <1>8, <1>9

(* What is selected where a match was.                                      *)
LEMMA MatchSelected ==
  ASSUME NEW e, Whole(e), Kept(e), NEW u \in Text, u # <<>>,
         NEW b, NEW p \in 0..Len(e.text), p + Len(u) <= Len(e.text),
         CharAt(e.text, b) = p, CharAt(e.text, b + Bytes(u)) = p + Len(u)
  PROVE  LET d == ApplyMatch(e, b, u)
         IN  /\ HasSelection(d)
             /\ Offset(e.text, SelStart(d)) = p /\ Offset(e.text, SelEnd(d)) = p + Len(u)
<1> DEFINE t == e.text
           q == p + Len(u)
           d == ApplyMatch(e, b, u)
           a == PosOf(t, p)
           c == PosOf(t, q)
<1>1. /\ t \in Text /\ p \in 0..Len(t) /\ q \in 0..Len(t) /\ p < q
  <2>1. t \in Text /\ Len(t) \in Nat /\ Len(u) \in Nat
    BY DEF Kept, Text
  <2>2. Len(u) # 0
    BY EmptySeq DEF Text
  <2>3. QED
    BY <2>1, <2>2
<1>2. d.anchor = a /\ d.cursor = c
  BY MatchFits
<1> HIDE DEF d, q
<1>3. Offset(t, a) = p /\ Offset(t, c) = q
  BY <1>1, PlaceOf
<1>4. Before(a, c)
  BY <1>1, PlacesOrdered
<1> HIDE DEF a, c
<1>5. a # c
  BY <1>1, <1>3
<1>6. SelStart(d) = a /\ SelEnd(d) = c /\ HasSelection(d)
  BY <1>2, <1>4, <1>5 DEF SelStart, SelEnd, HasSelection
<1>7. QED
  BY <1>3, <1>6 DEF d, q

(* A round of replace_all exchanges the first occurrence.                   *)
LEMMA RoundText ==
  ASSUME NEW e, NEW x \in Rounds(e), NEW u \in Text, u # <<>>, NEW cs \in BOOLEAN,
         NEW r \in Text, Plain(r), PlacedFrom(x.ed.text, x.start, u, cs),
         Hits(x.ed.text, u, x.start, Len(x.ed.text), cs) # {}
  PROVE  LET y == ReplaceRound(x, u, r, cs)
             p == Min(Hits(x.ed.text, u, x.start, Len(x.ed.text), cs))
         IN  y.ed.text = Respliced(x.ed.text, p, Len(u), r) /\ y.start = p + Len(r)
<1> DEFINE t == x.ed.text
           hits == Hits(t, u, x.start, Len(t), cs)
           p == Min(hits)
           byte == HitByte(t, x.start, p, cs)
           m == ApplyMatch(x.ed, byte, u)
           d == Replaced(m, r)
           y == [ed |-> d, start |-> Offset(d.text, d.cursor)]
<1>1. /\ Whole(x.ed) /\ Kept(x.ed) /\ x.start \in 0..Len(t)
      /\ t \in Text /\ Len(t) \in Nat /\ Len(u) \in Nat
  BY DEF Rounds, Kept, Text
<1>2. ReplaceRound(x, u, r, cs) = y
  BY DEF ReplaceRound, Behind
<1>3. /\ p \in 0..Len(t) /\ p + Len(u) <= Len(t)
      /\ x.start \in Nat /\ p \in Nat /\ x.start <= p /\ IsAt(t, u, p, cs)
  <2>1. hits \in SUBSET {o \in 0..Len(t) : o + Len(u) <= Len(t)} /\ hits # {}
    BY <1>1, HitsIn
  <2>2. \A o \in hits : o \in x.start..(Len(t) - Len(u)) /\ IsAt(t, u, o, cs)
    BY DEF Hits
  <2> HIDE DEF hits
  <2>3. hits \in SUBSET Nat
    BY <1>1, <2>1
  <2>4. p \in hits
    BY <2>1, <2>3, LeastOf
  <2>5. p \in x.start..(Len(t) - Len(u)) /\ IsAt(t, u, p, cs) /\ p \in 0..Len(t)
        /\ p + Len(u) <= Len(t)
    BY <2>1, <2>2, <2>4
  <2> HIDE DEF p
  <2>6. QED
    BY <1>1, <2>5
<1> HIDE DEF hits, p
<1>4. Whole(m) /\ Kept(m) /\ m.text = t
  BY <1>1, MatchFits
<1>5. HasSelection(m) /\ Offset(t, SelStart(m)) = p /\ Offset(t, SelEnd(m)) = p + Len(u)
  <2>1. CharAt(t, byte) = p /\ CharAt(t, byte + Bytes(u)) = p + Len(u)
    BY <1>1, <1>3, HitPlaced
  <2> HIDE DEF byte
  <2>2. QED
    BY <1>1, <1>3, <2>1, MatchSelected
<1> HIDE DEF m
<1> DEFINE lo == Offset(m.text, SelStart(m))
           hi == Offset(m.text, SelEnd(m))
<1>6. lo = p /\ hi = p + Len(u)
  BY <1>4, <1>5
<1>7. d.text = Respliced(m.text, lo, hi - lo, r) /\ Offset(d.text, d.cursor) = lo + Len(r)
  <2> HIDE DEF d, lo, hi
  <2>1. QED
    BY <1>4, <1>5, ReplacedText DEF d, lo, hi
<1> HIDE DEF lo, hi, d
<1>8. hi - lo = Len(u)
  BY <1>1, <1>3, <1>6
<1>9. d.text = Respliced(t, p, Len(u), r) /\ Offset(d.text, d.cursor) = p + Len(r)
  BY <1>4, <1>6, <1>7, <1>8
<1>10. QED
  BY <1>2, <1>9 DEF p, hits

(* What is left to replace of a text moves no byte when that text did not.  *)
LEMMA PlacedBehind ==
  ASSUME NEW w \in Text, NEW s \in Nat, NEW t \in Text, NEW j \in Nat, SameTail(w, s, t, j),
         NEW u \in Text, NEW cs \in BOOLEAN, Placed(t, u, cs)
  PROVE  PlacedFrom(w, s, u, cs)
<1>1. CASE cs
  BY <1>1 DEF PlacedFrom
<1>2. CASE ~ cs
  <2>1. LowerKeeps(t) /\ LowerKeeps(u)
    BY <1>2 DEF Placed
  <2>2. SUFFICES ASSUME NEW i \in (s + 1)..Len(w) PROVE Width(Lower(w[i])) = Width(w[i])
    BY <2>1 DEF PlacedFrom
  <2> DEFINE k == i - s
             o == j + k
             m == Len(w)
             n == Len(t)
  <2>3. m \in Nat /\ n \in Nat
    BY DEF Text
  <2>4. s \in 0..m /\ j \in 0..n /\ m - s = n - j
    BY DEF SameTail
  <2> HIDE DEF m, n
  <2>5. i \in (s + 1)..m
    BY <2>2 DEF m
  <2>6. k \in 1..(n - j) /\ o \in 1..n /\ s + k = i
    BY <2>3, <2>4, <2>5
  <2> HIDE DEF k
  <2>7. w[s + k] = t[j + k]
    BY <2>6 DEF SameTail, n
  <2>8. w[i] = t[o]
    BY <2>6, <2>7
  <2> HIDE DEF o
  <2>9. o \in DOMAIN t
    BY <2>6 DEF n, Text
  <2>10. QED
    BY <2>1, <2>8, <2>9 DEF LowerKeeps
<1>3. QED
  BY <1>1, <1>2

(* How far the rounds have come: they are through, or the n-th has passed   *)
(* at least n characters of the text given.                                 *)
Advanced(x, t, u, cs, g, n) ==
  \E j \in Nat : /\ Partial(x.ed.text, x.start, t, j, g)
                 /\ n <= j \/ Hits(x.ed.text, u, x.start, Len(x.ed.text), cs) = {}

LEMMA RoundAdvances ==
  ASSUME NEW e, NEW x \in Rounds(e), NEW t \in Text, NEW u \in Text, u # <<>>,
         NEW cs \in BOOLEAN, Placed(t, u, cs),
         NEW r \in Text, Plain(r), NEW g, Passes(t, u, r, cs, g), NEW n \in Nat,
         Advanced(x, t, u, cs, g, n)
  PROVE  Advanced(ReplaceRound(x, u, r, cs), t, u, cs, g, n + 1)
<1> DEFINE w == x.ed.text
           hits == Hits(w, u, x.start, Len(w), cs)
           y == ReplaceRound(x, u, r, cs)
           p == Min(hits)
<1>1. PICK j \in Nat : /\ Partial(w, x.start, t, j, g)
                       /\ n <= j \/ hits = {}
  BY DEF Advanced
<1>2. CASE hits = {}
  <2>1. y = x
    BY <1>2 DEF ReplaceRound
  <2>2. QED
    BY <1>1, <1>2, <2>1 DEF Advanced
<1>3. CASE hits # {}
  <2>1. w \in Text /\ x.start \in Nat
    BY DEF Rounds, Kept
  <2>2. y.ed.text = Respliced(w, p, Len(u), r) /\ y.start = p + Len(r)
    <3>1. SameTail(w, x.start, t, j)
      BY <1>1 DEF Partial
    <3>2. PlacedFrom(w, x.start, u, cs)
      BY <2>1, <3>1, PlacedBehind
    <3>3. QED
      BY <1>3, <3>2, RoundText
  <2>3. \E l \in Nat : j < l /\ Partial(Respliced(w, p, Len(u), r), p + Len(r), t, l, g)
    <3> DEFINE s == x.start
    <3>1. s \in Nat /\ Partial(w, s, t, j, g) /\ Hits(w, u, s, Len(w), cs) # {}
      BY <1>1, <1>3, <2>1
    <3>2. p = Min(Hits(w, u, s, Len(w), cs))
      OBVIOUS
    <3> HIDE DEF w, s, p
    <3>3. LET o == Min(Hits(w, u, s, Len(w), cs))
          IN  \E l \in Nat : j < l /\ Partial(Respliced(w, o, Len(u), r), o + Len(r), t, l, g)
      BY <2>1, <3>1, PartialGrows DEF w
    <3>4. QED
      BY <3>2, <3>3
  <2>4. PICK l \in Nat : j < l /\ Partial(y.ed.text, y.start, t, l, g)
    BY <2>2, <2>3
  <2>5. n + 1 <= l
    BY <1>1, <1>3, <2>4
  <2> HIDE DEF y
  <2>6. Advanced(y, t, u, cs, g, n + 1)
    BY <2>4, <2>5 DEF Advanced
  <2>7. QED
    BY <2>6 DEF y
<1>4. QED
  BY <1>2, <1>3

(* Replace All as a whole: after as many rounds as the text has characters  *)
(* nothing is left to replace.                                              *)
LEMMA EveryReplaced ==
  ASSUME NEW e, Whole(e), Kept(e), NEW u \in Text, u # <<>>, NEW cs \in BOOLEAN, NEW r \in Text, Plain(r), Placed(e.text, u, cs)
  PROVE  ReplaceEvery(e, u, r, cs).text = Substituted(e.text, u, r, cs)
<1> DEFINE t == e.text
           n == Len(t)
<1>1. t \in Text /\ n \in Nat /\ 0 \in 0..n
  BY DEF Kept, Text
<1>2. PICK f : RoundsOf(e, u, r, cs, 0, f) /\ ReplaceFrom(e, u, r, cs, 0) = f[n].ed
  BY <1>1, RoundsAre
<1>3. PICK g : Passes(t, u, r, cs, g) /\ Substituted(t, u, r, cs) = g[0]
  BY <1>1, PassExists
<1>4. /\ \A k \in Nat : f[k] \in Rounds(e)
      /\ f[0] = [ed |-> e, start |-> 0]
      /\ \A k \in Nat : f[k + 1] = ReplaceRound(f[k], u, r, cs)
  <2>1. \A k \in Nat : k + 1 \in Nat /\ k + 1 # 0 /\ (k + 1) - 1 = k
    OBVIOUS
  <2>2. f \in [Nat -> Rounds(e)]
    BY <1>2 DEF RoundsOf
  <2>3. \A k \in Nat : f[k] = IF k = 0 THEN [ed |-> e, start |-> 0] ELSE ReplaceRound(f[k - 1], u, r, cs)
    BY <1>2 DEF RoundsOf
  <2>4. f[0] = [ed |-> e, start |-> 0]
    BY <2>3
  <2>5. \A k \in Nat : f[k + 1] = ReplaceRound(f[k], u, r, cs)
    BY <2>1, <2>3
  <2>6. QED
    BY <2>2, <2>4, <2>5
<1>5. Advanced(f[0], t, u, cs, g, 0)
  <2>1. f[0].ed.text = t /\ f[0].start = 0
    BY <1>4
  <2>2. SameTail(t, 0, t, 0)
    <3>1. 0 \in 0..Len(t) /\ Len(t) - 0 = Len(t) - 0 /\ \A i \in 1..(Len(t) - 0) : t[0 + i] = t[0 + i]
      BY <1>1
    <3>2. QED
      BY <3>1 DEF SameTail
  <2>3. SubSeq(t, 1, 0) \o g[0] = g[0]
    <3>1. SubSeq(t, 0 + 1, 0) = <<>>
      <4>1. 0 \in Nat /\ 0 <= Len(t)
        BY <1>1
      <4>2. QED
        BY <1>1, <4>1, WholePart
    <3>2. 0 + 1 = 1
      OBVIOUS
    <3>3. g[0] \in Text
      BY <1>3 DEF Passes
    <3>4. QED
      BY <3>1, <3>2, <3>3, ConcatEmptySeq DEF Text
  <2>4. Partial(t, 0, t, 0, g)
    BY <2>2, <2>3 DEF Partial
  <2>5. QED
    BY <2>1, <2>4 DEF Advanced
<1> DEFINE P(k) == Advanced(f[k], t, u, cs, g, k)
           S == {k \in Nat : P(k)}
<1>6. \A k \in Nat : P(k) => P(k + 1)
  <2>1. SUFFICES ASSUME NEW k \in Nat, P(k) PROVE P(k + 1)
    OBVIOUS
  <2> DEFINE x == f[k]
             y == f[k + 1]
  <2>2. x \in Rounds(e) /\ Advanced(x, t, u, cs, g, k) /\ y = ReplaceRound(x, u, r, cs)
    BY <1>4, <2>1
  <2> HIDE DEF x, y
  <2>3. Advanced(y, t, u, cs, g, k + 1)
    BY <1>1, <1>3, <2>2, RoundAdvances
  <2>4. QED
    BY <2>3 DEF y
<1>7. \A k \in Nat : k \in S
  <2>1. P(0)
    BY <1>5
  <2> HIDE DEF P
  <2>2. 0 \in S /\ \A k \in Nat : k \in S => k + 1 \in S
    BY <1>6, <2>1
  <2> HIDE DEF S
  <2>3. QED
    BY <2>2, NatInductiveSet
<1> DEFINE x == f[n]
           w == x.ed.text
           s == x.start
<1>8. Advanced(x, t, u, cs, g, n) /\ x \in Rounds(e)
  <2>1. P(n)
    <3> HIDE DEF P
    <3>1. QED
      BY <1>1, <1>7
  <2>2. QED
    BY <1>1, <1>4, <2>1
<1>9. ReplaceEvery(e, u, r, cs).text = w
  BY <1>2 DEF ReplaceEvery
<1> HIDE DEF x
<1>10. w \in Text /\ s \in Nat /\ Len(w) \in Nat /\ Len(u) \in Nat /\ Len(u) # 0
  <2>1. w \in Text /\ s \in Nat
    BY <1>8 DEF Rounds, Kept
  <2> HIDE DEF w, s
  <2>2. Len(u) # 0
    BY EmptySeq DEF Text
  <2>3. QED
    BY <2>1, <2>2 DEF Text
<1>11. PICK j \in Nat : Partial(w, s, t, j, g) /\ (n <= j \/ Hits(w, u, s, Len(w), cs) = {})
  BY <1>8 DEF Advanced
<1> HIDE DEF w, s
<1>12. Hits(w, u, s, Len(w), cs) = {}
  <2>1. CASE n <= j
    <3>1. SameTail(w, s, t, j)
      BY <1>11 DEF Partial
    <3>2. j \in 0..n /\ s \in 0..Len(w) /\ Len(w) - s = n - j
      BY <3>1 DEF SameTail
    <3>3. \A p \in s..(Len(w) - Len(u)) : FALSE
      <4> HIDE DEF n
      <4>1. QED
        BY <1>1, <1>10, <2>1, <3>2
    <3>4. QED
      BY <3>3 DEF Hits
  <2>2. QED
    BY <1>11, <2>1
<1>13. w = g[0]
  BY <1>1, <1>3, <1>10, <1>11, <1>12, PartialEnds
<1>14. QED
  BY <1>3, <1>9, <1>13

(* A search that finds anything selects it.                                 *)
LEMMA FoundSelected ==
  ASSUME NEW e, Whole(e), Kept(e), NEW u \in Text, u # <<>>, NEW cs \in BOOLEAN,
         Placed(e.text, u, cs), Hits(e.text, u, 0, Len(e.text), cs) # {},
         NEW d \in {FindNext(e, u, cs), FindPrev(e, u, cs)},
         ~ SlicesInside(e) \/ d = FindPrev(e, u, cs)
  PROVE  Spans(d, u, cs)
<1> DEFINE t == e.text
<1>1. t \in Text /\ Len(t) \in Nat /\ Len(u) \in Nat
  BY DEF Kept, Text
<1>2. PICK from \in Nat, p \in Nat :
        /\ from <= p /\ p + Len(u) <= Len(t) /\ IsAt(t, u, p, cs)
        /\ d = ApplyMatch(e, HitByte(t, from, p, cs), u)
  <2>1. Matched(e, u, cs, d)
    BY FindKeeps
  <2>2. QED
    BY <2>1 DEF Matched
<1> DEFINE byte == HitByte(t, from, p, cs)
           x == ApplyMatch(e, byte, u)
<1>3. PlacedFrom(t, from, u, cs)
  <2>1. \A i \in (from + 1)..Len(t) : i \in DOMAIN t
    BY <1>1 DEF Text
  <2>2. QED
    BY <2>1 DEF Placed, PlacedFrom, LowerKeeps
<1>4. CharAt(t, byte) = p /\ CharAt(t, byte + Bytes(u)) = p + Len(u)
  BY <1>1, <1>2, <1>3, HitPlaced
<1>5. p \in 0..Len(t)
  BY <1>1, <1>2
<1>6. x = d
  BY <1>2
<1> HIDE DEF byte
<1>7. x.text = t
  BY MatchFits
<1>8. Offset(t, SelStart(x)) = p /\ Offset(t, SelEnd(x)) = p + Len(u)
  BY <1>2, <1>4, <1>5, MatchSelected
<1> HIDE DEF x
<1>9. Selected(x) = SubSeq(t, p + 1, p + Len(u))
  BY <1>7, <1>8 DEF Selected, Between
<1>10. QED
  BY <1>2, <1>6, <1>9 DEF IsAt, Spans

(* Replace All replaces every occurrence from the left, inside no           *)
(* replacement, and a search selects an occurrence wherever the text has    *)
(* one, although both count in bytes and the editor in characters: in every *)
(* state from which the editor takes another key, where the search is case- *)
(* sensitive or letter case moves no byte, and the forward search does not  *)
(* slice a character (bedit.rs, find_next, find_prev and replace_all).      *)
THEOREM SearchesRight == Spec => [](Ready => SearchRight)
<1>1. ASSUME EditorInv, Ready PROVE SearchRight
  <2>1. Whole(ed) /\ Kept(ed)
    BY <1>1 DEF EditorInv, Whole, Sound, Ready
  <2>2. ASSUME NEW u \in Patterns, NEW r \in Replacements, NEW cs \in BOOLEAN,
               Placed(ed.text, u, cs)
        PROVE  ReplaceEvery(ed, u, r, cs).text = Substituted(ed.text, u, r, cs)
    <3>1. u \in Text /\ u # <<>> /\ r \in Text /\ Plain(r)
      BY EditorAssumption, TextsGiven
    <3>2. QED
      BY <2>1, <2>2, <3>1, EveryReplaced
  <2>3. ASSUME NEW u \in Patterns, NEW cs \in BOOLEAN, Occurs(u, cs), Placed(ed.text, u, cs)
        PROVE  /\ SlicesInside(ed) \/ Spans(FindNext(ed, u, cs), u, cs)
               /\ Spans(FindPrev(ed, u, cs), u, cs)
    <3>1. u \in Text /\ u # <<>>
      BY EditorAssumption, TextsGiven
    <3>2. Hits(ed.text, u, 0, Len(ed.text), cs) # {}
      BY <2>3 DEF Occurs
    <3>3. ~ SlicesInside(ed) => Spans(FindNext(ed, u, cs), u, cs)
      BY <2>1, <2>3, <3>1, <3>2, FoundSelected
    <3>4. Spans(FindPrev(ed, u, cs), u, cs)
      BY <2>1, <2>3, <3>1, <3>2, FoundSelected
    <3>5. QED
      BY <3>3, <3>4
  <2>4. QED
    BY <2>2, <2>3 DEF SearchRight, AllReplaced, FoundIsSelected
<1>2. EditorInv => (Ready => SearchRight)
  BY <1>1
<1>3. QED
  BY <1>2, EditorInvariant, PTL
====
