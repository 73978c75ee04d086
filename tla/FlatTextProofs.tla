--------------------------- MODULE FlatTextProofs ---------------------------
(****************************************************************************)
(* What the answers of FlatText are, for every text: counting line ends,    *)
(* rows, columns and offsets, and what taking out and putting in changes.   *)
(****************************************************************************)
EXTENDS FlatText, SequenceTheorems, Recursion

Point == STRING \union {NL, SP}
Text == Seq(Point)
Pos  == Nat \X Nat

----------------------------------------------------------------------------
(* Counting line ends *)

LEMMA NewlinesFinite ==
  ASSUME NEW t, NEW p \in Nat
  PROVE  /\ IsFiniteSet({i \in 1..p : t[i] = NL})
         /\ NewlinesBefore(t, p) \in Nat
<1>1. IsFiniteSet(1..p)
  BY FS_Interval
<1>2. {i \in 1..p : t[i] = NL} \subseteq 1..p
  OBVIOUS
<1>3. QED
  BY <1>1, <1>2, FS_Subset, FS_CardinalityType DEF NewlinesBefore

LEMMA NewlinesNat ==
  ASSUME NEW t
  PROVE  \A p \in Nat : NewlinesBefore(t, p) \in Nat
BY NewlinesFinite

LEMMA NewlinesStep ==
  ASSUME NEW t, NEW p \in Nat
  PROVE  NewlinesBefore(t, p + 1) =
           IF t[p + 1] = NL THEN NewlinesBefore(t, p) + 1 ELSE NewlinesBefore(t, p)
<1> DEFINE N(q) == {i \in 1..q : t[i] = NL}
<1>1. IsFiniteSet(N(p)) /\ p + 1 \notin N(p)
  <2>1. IsFiniteSet(N(p))
    BY NewlinesFinite
  <2>2. QED
    BY <2>1
<1>2. N(p + 1) = IF t[p + 1] = NL THEN N(p) \union {p + 1} ELSE N(p)
  OBVIOUS
<1>3. Cardinality(N(p) \union {p + 1}) = Cardinality(N(p)) + 1
  <2> HIDE DEF N
  <2>1. QED
    BY <1>1, FS_AddElement
<1>4. QED
  BY <1>2, <1>3 DEF NewlinesBefore

LEMMA NoNewlines ==
  ASSUME NEW t
  PROVE  NewlinesBefore(t, 0) = 0
<1>1. {i \in 1..0 : t[i] = NL} = {}
  OBVIOUS
<1>2. QED
  BY <1>1, FS_EmptySet DEF NewlinesBefore

LEMMA NewlinesGrow ==
  ASSUME NEW t, NEW p \in Nat, NEW q \in Nat, p <= q
  PROVE  NewlinesBefore(t, p) <= NewlinesBefore(t, q)
<1> DEFINE N(o) == {i \in 1..o : t[i] = NL}
<1>1. IsFiniteSet(N(q)) /\ N(p) \subseteq N(q)
  BY NewlinesFinite
<1> HIDE DEF N
<1>2. Cardinality(N(p)) <= Cardinality(N(q))
  BY <1>1, FS_Subset
<1>3. QED
  BY <1>2 DEF NewlinesBefore, N

(* Past a line end there are more.                                          *)
LEMMA NewlinesPast ==
  ASSUME NEW t, NEW p \in Nat, NEW q \in Nat, p < q,
         \E i \in (p + 1)..q : t[i] = NL
  PROVE  NewlinesBefore(t, p) < NewlinesBefore(t, q)
<1>1. PICK i \in (p + 1)..q : t[i] = NL
  OBVIOUS
<1>2. i - 1 \in Nat /\ i \in Nat /\ (i - 1) + 1 = i
  BY <1>1
<1>3. NewlinesBefore(t, i) = NewlinesBefore(t, i - 1) + 1
  BY <1>1, <1>2, NewlinesStep
<1>4. /\ NewlinesBefore(t, p) <= NewlinesBefore(t, i - 1)
      /\ NewlinesBefore(t, i) <= NewlinesBefore(t, q)
  BY <1>1, <1>2, NewlinesGrow
<1>5. /\ NewlinesBefore(t, p) \in Nat /\ NewlinesBefore(t, i - 1) \in Nat
      /\ NewlinesBefore(t, q) \in Nat
  BY <1>2, NewlinesNat
<1>6. QED
  BY <1>3, <1>4, <1>5

LEMMA NewlinesPrefix ==
  ASSUME NEW t, NEW s, NEW p \in Nat, \A i \in 1..p : t[i] = s[i]
  PROVE  NewlinesBefore(t, p) = NewlinesBefore(s, p)
<1>1. {i \in 1..p : t[i] = NL} = {i \in 1..p : s[i] = NL}
  OBVIOUS
<1>2. QED
  BY <1>1 DEF NewlinesBefore

(* What stands behind the first a characters counts by itself.              *)
LEMMA NewlinesShift ==
  ASSUME NEW t, NEW s, NEW a \in Nat, NEW n \in Nat, \A i \in 1..n : t[a + i] = s[i]
  PROVE  NewlinesBefore(t, a + n) = NewlinesBefore(t, a) + NewlinesBefore(s, n)
<1> DEFINE S == {k \in Nat : k <= n =>
                   NewlinesBefore(t, a + k) = NewlinesBefore(t, a) + NewlinesBefore(s, k)}
<1>1. 0 \in S
  <2>1. NewlinesBefore(t, a) \in Nat
    BY NewlinesNat
  <2>2. NewlinesBefore(s, 0) = 0
    BY NoNewlines
  <2>3. a + 0 = a
    OBVIOUS
  <2>4. NewlinesBefore(t, a + 0) = NewlinesBefore(t, a) + NewlinesBefore(s, 0)
    BY <2>1, <2>2, <2>3
  <2>5. QED
    BY <2>4
<1>2. ASSUME NEW k \in Nat, k \in S PROVE k + 1 \in S
  <2>1. SUFFICES ASSUME k + 1 <= n
                 PROVE  NewlinesBefore(t, a + (k + 1))
                          = NewlinesBefore(t, a) + NewlinesBefore(s, k + 1)
    OBVIOUS
  <2>2. NewlinesBefore(t, a + k) = NewlinesBefore(t, a) + NewlinesBefore(s, k)
    BY <1>2, <2>1
  <2>3. t[a + (k + 1)] = s[k + 1] /\ a + (k + 1) = (a + k) + 1 /\ a + k \in Nat
    BY <2>1
  <2>4. /\ NewlinesBefore(t, (a + k) + 1) =
             IF t[(a + k) + 1] = NL THEN NewlinesBefore(t, a + k) + 1 ELSE NewlinesBefore(t, a + k)
        /\ NewlinesBefore(s, k + 1) =
             IF s[k + 1] = NL THEN NewlinesBefore(s, k) + 1 ELSE NewlinesBefore(s, k)
    BY <2>3, NewlinesStep
  <2>5. /\ NewlinesBefore(t, a) \in Nat /\ NewlinesBefore(s, k) \in Nat
        /\ NewlinesBefore(t, a + k) \in Nat
    BY <2>3, NewlinesNat
  <2>6. QED
    BY <2>2, <2>3, <2>4, <2>5
<1>3. \A k \in Nat : k \in S
  <2> HIDE DEF S
  <2>1. QED
    BY <1>1, <1>2, NatInductiveSet
<1>4. QED
  BY <1>3

----------------------------------------------------------------------------
(* Lines *)

IsStart(t, p) == p = 0 \/ t[p] = NL
IsEnd(t, p)   == p = Len(t) \/ t[p + 1] = NL

LEMMA StartUnique ==
  ASSUME NEW t \in Text, NEW p \in 0..Len(t), NEW q \in 0..Len(t), p < q, IsStart(t, q)
  PROVE  NewlinesBefore(t, p) # NewlinesBefore(t, q)
<1>1. p \in Nat /\ q \in Nat /\ q \in (p + 1)..q /\ t[q] = NL
  BY DEF IsStart, Text
<1>2. NewlinesBefore(t, p) < NewlinesBefore(t, q)
  BY <1>1, NewlinesPast
<1>3. QED
  BY <1>1, <1>2, NewlinesNat

LEMMA EndUnique ==
  ASSUME NEW t \in Text, NEW p \in 0..Len(t), NEW q \in 0..Len(t), p < q, IsEnd(t, p)
  PROVE  NewlinesBefore(t, p) # NewlinesBefore(t, q)
<1>1. p \in Nat /\ q \in Nat /\ p + 1 \in (p + 1)..q /\ t[p + 1] = NL
  BY DEF IsEnd, Text
<1>2. NewlinesBefore(t, p) < NewlinesBefore(t, q)
  BY <1>1, NewlinesPast
<1>3. QED
  BY <1>1, <1>2, NewlinesNat

LEMMA LineStartIs ==
  ASSUME NEW t \in Text, NEW p \in 0..Len(t), IsStart(t, p)
  PROVE  LineStart(t, NewlinesBefore(t, p)) = p
<1>1. ASSUME NEW q \in 0..Len(t), IsStart(t, q), NewlinesBefore(t, q) = NewlinesBefore(t, p)
      PROVE  q = p
  <2>1. ~ (q < p) /\ ~ (p < q)
    BY <1>1, StartUnique
  <2>2. QED
    BY <2>1 DEF Text
<1>2. QED
  BY <1>1 DEF LineStart, IsStart

LEMMA LineEndIs ==
  ASSUME NEW t \in Text, NEW p \in 0..Len(t), IsEnd(t, p)
  PROVE  LineEnd(t, NewlinesBefore(t, p)) = p
<1>1. ASSUME NEW q \in 0..Len(t), IsEnd(t, q), NewlinesBefore(t, q) = NewlinesBefore(t, p)
      PROVE  q = p
  <2>1. ~ (q < p) /\ ~ (p < q)
    BY <1>1, EndUnique
  <2>2. QED
    BY <2>1 DEF Text
<1>2. QED
  BY <1>1 DEF LineEnd, IsEnd

(* From any place back to the start of its line, and on to its end.         *)
LEMMA StartBehind ==
  ASSUME NEW t \in Text, NEW o \in 0..Len(t)
  PROVE  \E s \in 0..o : IsStart(t, s) /\ NewlinesBefore(t, s) = NewlinesBefore(t, o)
<1> DEFINE S == {n \in Nat : \E s \in 0..n :
                   IsStart(t, s) /\ NewlinesBefore(t, s) = NewlinesBefore(t, n)}
<1>1. 0 \in S
  BY DEF IsStart
<1>2. ASSUME NEW n \in Nat, n \in S PROVE n + 1 \in S
  <2>1. CASE t[n + 1] = NL
    <3>1. IsStart(t, n + 1) /\ n + 1 \in 0..(n + 1)
      BY <2>1 DEF IsStart
    <3>2. QED
      BY <3>1
  <2>2. CASE t[n + 1] # NL
    <3>1. NewlinesBefore(t, n + 1) = NewlinesBefore(t, n)
      BY <2>2, NewlinesStep
    <3>2. \A s \in 0..n : s \in 0..(n + 1)
      OBVIOUS
    <3>3. QED
      BY <1>2, <3>1, <3>2
  <2>3. QED
    BY <2>1, <2>2
<1>3. \A n \in Nat : n \in S
  <2> HIDE DEF S
  <2>1. QED
    BY <1>1, <1>2, NatInductiveSet
<1>4. o \in Nat
  BY DEF Text
<1>5. QED
  BY <1>3, <1>4

LEMMA EndAhead ==
  ASSUME NEW t \in Text, NEW o \in 0..Len(t)
  PROVE  \E e \in o..Len(t) : IsEnd(t, e) /\ NewlinesBefore(t, e) = NewlinesBefore(t, o)
<1> DEFINE n == Len(t)
           S == {k \in Nat : k <= n => \E e \in (n - k)..n :
                   IsEnd(t, e) /\ NewlinesBefore(t, e) = NewlinesBefore(t, n - k)}
<1>n. n \in Nat
  BY DEF Text
<1>1. 0 \in S
  BY <1>n DEF IsEnd
<1> HIDE DEF n
<1>2. ASSUME NEW k \in Nat, k \in S PROVE k + 1 \in S
  <2> DEFINE q == n - (k + 1)
  <2>1. SUFFICES ASSUME k + 1 <= n
                 PROVE  \E e \in q..n : IsEnd(t, e) /\ NewlinesBefore(t, e) = NewlinesBefore(t, q)
    OBVIOUS
  <2>2. q \in Nat /\ n - k = q + 1 /\ q \in q..n
    BY <1>n, <2>1
  <2>3. CASE t[q + 1] = NL
    BY <2>2, <2>3 DEF IsEnd
  <2>4. CASE t[q + 1] # NL
    <3>1. NewlinesBefore(t, q + 1) = NewlinesBefore(t, q)
      BY <2>2, <2>4, NewlinesStep
    <3>2. PICK e \in (q + 1)..n : IsEnd(t, e) /\ NewlinesBefore(t, e) = NewlinesBefore(t, q + 1)
      BY <1>2, <2>1, <2>2, <1>n
    <3>3. e \in q..n
      BY <2>2, <1>n
    <3>4. QED
      BY <3>1, <3>2, <3>3
  <2>5. QED
    BY <2>3, <2>4
<1>3. \A k \in Nat : k \in S
  <2> HIDE DEF S
  <2>1. QED
    BY <1>1, <1>2, NatInductiveSet
<1>4. n - o \in Nat /\ n - o <= n /\ n - (n - o) = o
  BY <1>n DEF n
<1>5. QED
  BY <1>3, <1>4 DEF n

(* Every row up to that of a place begins somewhere before it.              *)
LEMMA RowReached ==
  ASSUME NEW t \in Text, NEW row \in Nat, row < LineCount(t)
  PROVE  \E o \in 0..Len(t) : NewlinesBefore(t, o) = row
<1> DEFINE S == {n \in Nat : \A r \in 0..NewlinesBefore(t, n) :
                   \E o \in 0..n : NewlinesBefore(t, o) = r}
<1>1. 0 \in S
  <2>1. NewlinesBefore(t, 0) = 0
    BY NoNewlines
  <2>2. \A r \in 0..0 : r = 0
    OBVIOUS
  <2>3. 0 \in 0..0
    OBVIOUS
  <2>4. QED
    BY <2>1, <2>2, <2>3
<1>2. ASSUME NEW n \in Nat, n \in S PROVE n + 1 \in S
  <2>1. SUFFICES ASSUME NEW r \in 0..NewlinesBefore(t, n + 1)
                 PROVE  \E o \in 0..(n + 1) : NewlinesBefore(t, o) = r
    OBVIOUS
  <2>2. NewlinesBefore(t, n) \in Nat /\ NewlinesBefore(t, n + 1) \in Nat
    <3>1. n + 1 \in Nat
      OBVIOUS
    <3>2. QED
      BY <3>1, NewlinesNat
  <2>3. CASE r = NewlinesBefore(t, n + 1)
    BY <2>3
  <2>4. CASE r # NewlinesBefore(t, n + 1)
    <3>1. r \in 0..NewlinesBefore(t, n)
      BY <2>2, <2>4, NewlinesStep
    <3>2. QED
      BY <1>2, <3>1
  <2>5. QED
    BY <2>3, <2>4
<1>3. \A n \in Nat : n \in S
  <2> HIDE DEF S
  <2>1. QED
    BY <1>1, <1>2, NatInductiveSet
<1>4. Len(t) \in Nat /\ NewlinesBefore(t, Len(t)) \in Nat
  BY NewlinesNat DEF Text
<1>5. row \in 0..NewlinesBefore(t, Len(t))
  BY <1>4 DEF LineCount
<1>6. QED
  BY <1>3, <1>4, <1>5

(* A line is the places between its start and its end.                      *)
LEMMA LineOf ==
  ASSUME NEW t \in Text, NEW o \in 0..Len(t)
  PROVE  LET row == NewlinesBefore(t, o) IN
           /\ row \in Nat /\ row < LineCount(t)
           /\ LineStart(t, row) \in 0..o /\ LineEnd(t, row) \in o..Len(t)
           /\ LineLen(t, row) = LineEnd(t, row) - LineStart(t, row)
           /\ \A q \in LineStart(t, row)..LineEnd(t, row) : NewlinesBefore(t, q) = row
<1> DEFINE row == NewlinesBefore(t, o)
<1>1. PICK s \in 0..o : IsStart(t, s) /\ NewlinesBefore(t, s) = row
  BY StartBehind
<1>2. PICK e \in o..Len(t) : IsEnd(t, e) /\ NewlinesBefore(t, e) = row
  BY EndAhead
<1>3. Len(t) \in Nat /\ o \in Nat /\ s \in 0..Len(t) /\ e \in 0..Len(t)
  BY DEF Text
<1>4. LineStart(t, row) = s /\ LineEnd(t, row) = e
  BY <1>1, <1>2, <1>3, LineStartIs, LineEndIs
<1>5. row \in Nat /\ row < LineCount(t)
  <2>1. row \in Nat /\ NewlinesBefore(t, Len(t)) \in Nat
    BY <1>3, NewlinesNat
  <2>2. row <= NewlinesBefore(t, Len(t))
    BY <1>3, NewlinesGrow
  <2>3. QED
    BY <2>1, <2>2 DEF LineCount
<1>6. ASSUME NEW q \in s..e PROVE NewlinesBefore(t, q) = row
  <2>1. q \in Nat /\ s \in Nat /\ e \in Nat
    BY <1>3
  <2>2. NewlinesBefore(t, s) <= NewlinesBefore(t, q) /\ NewlinesBefore(t, q) <= NewlinesBefore(t, e)
    BY <2>1, NewlinesGrow
  <2>3. NewlinesBefore(t, q) \in Nat
    BY <2>1, NewlinesNat
  <2>4. QED
    BY <1>1, <1>2, <1>5, <2>2, <2>3
<1> HIDE DEF row
<1>7. LineLen(t, row) = e - s
  BY <1>4, <1>5 DEF LineLen
<1>8. QED
  BY <1>4, <1>5, <1>6, <1>7 DEF row

----------------------------------------------------------------------------
(* Places *)

(* A place is a row that exists and a column up to the end of that row, and *)
(* an offset is got back from its place.                                    *)
LEMMA PlaceOf ==
  ASSUME NEW t \in Text, NEW o \in 0..Len(t)
  PROVE  /\ PosOf(t, o) \in Pos /\ PosOf(t, o) \in Positions(t)
         /\ PosOf(t, o)[1] < LineCount(t)
         /\ PosOf(t, o)[2] <= LineLen(t, PosOf(t, o)[1])
         /\ Offset(t, PosOf(t, o)) = o
<1> DEFINE row == NewlinesBefore(t, o)
           s == LineStart(t, row)
           e == LineEnd(t, row)
<1>1. /\ row \in Nat /\ row < LineCount(t) /\ s \in 0..o /\ e \in o..Len(t)
      /\ LineLen(t, row) = e - s
  BY LineOf
<1>2. PosOf(t, o) = <<row, o - s>>
  BY DEF PosOf
<1>3. Len(t) \in Nat
  BY DEF Text
<1> HIDE DEF row, s, e
<1>4. o - s \in Nat /\ o - s <= e - s /\ s + (o - s) = o /\ s + (e - s) = e
  BY <1>1, <1>3
<1>5. Offset(t, <<row, o - s>>) = o
  <2>1. CASE o - s < e - s
    BY <1>1, <1>4, <2>1 DEF Offset, s
  <2>2. CASE ~ (o - s < e - s)
    <3>1. o = e
      BY <1>1, <1>3, <2>2
    <3>2. QED
      BY <1>1, <1>4, <2>2, <3>1 DEF Offset, s
  <2>3. QED
    BY <2>1, <2>2
<1>6. PosOf(t, o) \in Positions(t)
  BY DEF Positions
<1>7. QED
  BY <1>1, <1>2, <1>4, <1>5, <1>6 DEF Pos

LEMMA RowPlaces ==
  ASSUME NEW t \in Text, NEW row \in Nat, row < LineCount(t)
  PROVE  /\ LineStart(t, row) \in 0..Len(t)
         /\ LineLen(t, row) \in Nat /\ LineStart(t, row) + LineLen(t, row) <= Len(t)
         /\ \A c \in 0..LineLen(t, row) :
              /\ <<row, c>> \in Positions(t)
              /\ Offset(t, <<row, c>>) = LineStart(t, row) + c
<1>1. PICK o \in 0..Len(t) : NewlinesBefore(t, o) = row
  BY RowReached
<1> DEFINE s == LineStart(t, row)
           e == LineEnd(t, row)
<1>2. /\ s \in 0..o /\ e \in o..Len(t) /\ LineLen(t, row) = e - s
      /\ \A q \in s..e : NewlinesBefore(t, q) = row
  BY <1>1, LineOf
<1>3. Len(t) \in Nat
  BY DEF Text
<1> HIDE DEF e
<1>4. e - s \in Nat /\ s \in Nat /\ e \in Nat /\ s + (e - s) <= Len(t) /\ s \in 0..Len(t)
  <2> HIDE DEF s
  <2>1. QED
    BY <1>2, <1>3
<1>5. ASSUME NEW c \in 0..(e - s) PROVE <<row, c>> = PosOf(t, s + c) /\ s + c \in 0..Len(t)
  <2>1. s + c \in s..e /\ s + c \in 0..Len(t) /\ (s + c) - s = c
    BY <1>3, <1>4
  <2>2. NewlinesBefore(t, s + c) = row
    BY <1>2, <2>1
  <2>3. QED
    BY <2>1, <2>2 DEF PosOf
<1>6. ASSUME NEW c \in 0..(e - s)
      PROVE <<row, c>> \in Positions(t) /\ Offset(t, <<row, c>>) = s + c
  BY <1>5, PlaceOf
<1>7. QED
  BY <1>2, <1>4, <1>6

LEMMA OffsetIn ==
  ASSUME NEW t \in Text, NEW p \in Pos
  PROVE  Offset(t, p) \in 0..Len(t)
<1>1. Len(t) \in Nat /\ p[1] \in Nat /\ p[2] \in Nat
  BY DEF Text, Pos
<1>2. CASE p[1] < LineCount(t)
  <2> DEFINE s == LineStart(t, p[1])
             n == LineLen(t, p[1])
  <2>1. s \in 0..Len(t) /\ n \in Nat /\ s + n <= Len(t)
    BY <1>1, <1>2, RowPlaces
  <2>2. Offset(t, p) = s + (IF p[2] < n THEN p[2] ELSE n)
    BY <1>2 DEF Offset
  <2> HIDE DEF s, n
  <2>3. QED
    BY <1>1, <2>1, <2>2
<1>3. CASE ~ (p[1] < LineCount(t))
  BY <1>1, <1>3 DEF Offset
<1>4. QED
  BY <1>2, <1>3

LEMMA OffsetsOfPlaces ==
  ASSUME NEW t \in Text, NEW p \in Positions(t)
  PROVE  p \in Pos /\ Offset(t, p) \in 0..Len(t) /\ PosOf(t, Offset(t, p)) = p
<1>1. PICK o \in 0..Len(t) : p = PosOf(t, o)
  BY DEF Positions
<1>2. QED
  BY <1>1, PlaceOf

(* A place is a matter of the characters before it.                         *)
LEMMA PlaceByPrefix ==
  ASSUME NEW t \in Text, NEW u \in Text, NEW o \in 0..Len(t), o <= Len(u),
         \A i \in 1..o : t[i] = u[i]
  PROVE  PosOf(t, o) = PosOf(u, o)
<1>1. Len(t) \in Nat /\ Len(u) \in Nat /\ o \in Nat /\ o \in 0..Len(u)
  BY DEF Text
<1>2. PICK s \in 0..o : IsStart(t, s) /\ NewlinesBefore(t, s) = NewlinesBefore(t, o)
  BY StartBehind
<1>3. s \in Nat /\ s \in 0..Len(t) /\ s \in 0..Len(u) /\ \A i \in 1..s : t[i] = u[i]
  BY <1>1
<1>4. IsStart(u, s)
  <2>1. s = 0 \/ s \in 1..s
    BY <1>3
  <2>2. QED
    BY <1>2, <1>3, <2>1 DEF IsStart
<1>5. /\ NewlinesBefore(t, o) = NewlinesBefore(u, o)
      /\ NewlinesBefore(t, s) = NewlinesBefore(u, s)
  BY <1>1, <1>3, NewlinesPrefix
<1>6. LineStart(t, NewlinesBefore(t, s)) = s /\ LineStart(u, NewlinesBefore(u, s)) = s
  BY <1>2, <1>3, <1>4, LineStartIs
<1>7. QED
  BY <1>2, <1>5, <1>6 DEF PosOf

----------------------------------------------------------------------------
(* Splices *)

LEMMA PartText ==
  ASSUME NEW t \in Text, NEW a \in Nat, NEW b \in Nat, a <= b, b <= Len(t)
  PROVE  /\ SubSeq(t, a + 1, b) \in Text /\ Len(SubSeq(t, a + 1, b)) = b - a
         /\ \A i \in 1..(b - a) : SubSeq(t, a + 1, b)[i] = t[a + i]
BY SubSeqProperties DEF Text

LEMMA JoinText ==
  ASSUME NEW t \in Text, NEW u \in Text
  PROVE  /\ t \o u \in Text /\ Len(t \o u) = Len(t) + Len(u)
         /\ \A i \in 1..Len(t) : (t \o u)[i] = t[i]
         /\ \A i \in 1..Len(u) : (t \o u)[Len(t) + i] = u[i]
BY ConcatProperties DEF Text

LEMMA TextEqual ==
  ASSUME NEW t \in Text, NEW u \in Text, Len(t) = Len(u), \A i \in 1..Len(t) : t[i] = u[i]
  PROVE  t = u
BY DEF Text

LEMMA InsertedText ==
  ASSUME NEW t \in Text, NEW p \in 0..Len(t), NEW u \in Text
  PROVE  LET w == WithInserted(t, p, u) IN
           /\ w \in Text /\ Len(w) = Len(t) + Len(u)
           /\ \A i \in 1..p : w[i] = t[i]
           /\ \A i \in 1..Len(u) : w[p + i] = u[i]
           /\ \A i \in (p + 1)..Len(t) : w[Len(u) + i] = t[i]
<1> DEFINE n == Len(t)
           m == Len(u)
           x == SubSeq(t, 1, p)
           y == x \o u
           z == SubSeq(t, p + 1, n)
<1>n. n \in Nat /\ m \in Nat /\ p \in Nat /\ p <= n
  BY DEF Text
<1>1. x \in Text /\ Len(x) = p /\ \A i \in 1..p : x[i] = t[i]
  <2>1. 0 + 1 = 1 /\ p - 0 = p /\ 0 \in Nat /\ 0 <= p /\ \A i \in 1..p : 0 + i = i
    BY <1>n
  <2>2. /\ SubSeq(t, 0 + 1, p) \in Text /\ Len(SubSeq(t, 0 + 1, p)) = p - 0
        /\ \A i \in 1..(p - 0) : SubSeq(t, 0 + 1, p)[i] = t[0 + i]
    BY <1>n, <2>1, PartText
  <2>3. QED
    BY <2>1, <2>2
<1>2. z \in Text /\ Len(z) = n - p /\ \A i \in 1..(n - p) : z[i] = t[p + i]
  BY <1>n, PartText
<1> HIDE DEF x, z
<1>3. /\ y \in Text /\ Len(y) = p + m
      /\ \A i \in 1..p : y[i] = t[i]
      /\ \A i \in 1..m : y[p + i] = u[i]
  BY <1>1, JoinText
<1> HIDE DEF y
<1>4. /\ y \o z \in Text /\ Len(y \o z) = (p + m) + (n - p)
      /\ \A i \in 1..(p + m) : (y \o z)[i] = y[i]
      /\ \A i \in 1..(n - p) : (y \o z)[(p + m) + i] = z[i]
  <2>1. /\ y \o z \in Text /\ Len(y \o z) = Len(y) + Len(z)
        /\ \A i \in 1..Len(y) : (y \o z)[i] = y[i]
        /\ \A i \in 1..Len(z) : (y \o z)[Len(y) + i] = z[i]
    BY <1>2, <1>3, JoinText
  <2>2. Len(y) = p + m /\ Len(z) = n - p
    BY <1>2, <1>3
  <2>3. QED
    BY <2>1, <2>2
<1> DEFINE w == y \o z
<1>5. WithInserted(t, p, u) = w
  BY DEF WithInserted, x, y, z
<1> HIDE DEF w, n, m
<1>6. w \in Text /\ Len(w) = n + m
  BY <1>n, <1>4 DEF w
<1>7. \A i \in 1..p : w[i] = t[i]
  BY <1>n, <1>3, <1>4 DEF w
<1>8. \A i \in 1..m : w[p + i] = u[i]
  BY <1>n, <1>3, <1>4 DEF w
<1>9. ASSUME NEW i \in (p + 1)..n PROVE w[m + i] = t[i]
  <2>1. i - p \in 1..(n - p) /\ (p + m) + (i - p) = m + i /\ p + (i - p) = i
    BY <1>n
  <2>2. w[(p + m) + (i - p)] = z[i - p] /\ z[i - p] = t[p + (i - p)]
    BY <1>2, <1>4, <2>1 DEF w
  <2>3. QED
    BY <2>1, <2>2
<1>10. QED
  BY <1>5, <1>6, <1>7, <1>8, <1>9 DEF n, m

LEMMA RemovedText ==
  ASSUME NEW t \in Text, NEW p \in 0..Len(t), NEW n \in 0..(Len(t) - p)
  PROVE  LET w == WithoutRange(t, p, n) IN
           /\ w \in Text /\ Len(w) = Len(t) - n
           /\ \A i \in 1..p : w[i] = t[i]
           /\ \A i \in (p + 1)..(Len(t) - n) : w[i] = t[n + i]
<1> DEFINE l == Len(t)
           x == SubSeq(t, 1, p)
           z == SubSeq(t, (p + n) + 1, l)
<1>n. l \in Nat /\ p \in Nat /\ p <= l /\ n \in Nat /\ p + n \in Nat /\ p + n <= l
  BY DEF Text
<1>1. x \in Text /\ Len(x) = p /\ \A i \in 1..p : x[i] = t[i]
  <2>1. 0 + 1 = 1 /\ p - 0 = p /\ 0 \in Nat /\ 0 <= p /\ \A i \in 1..p : 0 + i = i
    BY <1>n
  <2>2. /\ SubSeq(t, 0 + 1, p) \in Text /\ Len(SubSeq(t, 0 + 1, p)) = p - 0
        /\ \A i \in 1..(p - 0) : SubSeq(t, 0 + 1, p)[i] = t[0 + i]
    BY <1>n, <2>1, PartText
  <2>3. QED
    BY <2>1, <2>2
<1>2. z \in Text /\ Len(z) = l - (p + n) /\ \A i \in 1..(l - (p + n)) : z[i] = t[(p + n) + i]
  <2> DEFINE q == p + n
  <2>1. q \in Nat /\ q <= Len(t) /\ Len(t) \in Nat
    BY <1>n
  <2> HIDE DEF q
  <2>2. /\ SubSeq(t, q + 1, Len(t)) \in Text /\ Len(SubSeq(t, q + 1, Len(t))) = Len(t) - q
        /\ \A i \in 1..(Len(t) - q) : SubSeq(t, q + 1, Len(t))[i] = t[q + i]
    BY <2>1, PartText
  <2>3. QED
    BY <2>2 DEF q
<1> HIDE DEF x, z
<1> DEFINE w == x \o z
<1>3. /\ w \in Text /\ Len(w) = p + (l - (p + n))
      /\ \A i \in 1..p : w[i] = x[i]
      /\ \A i \in 1..(l - (p + n)) : w[p + i] = z[i]
  BY <1>1, <1>2, JoinText
<1>4. WithoutRange(t, p, n) = w
  BY <1>n DEF WithoutRange, x, z
<1> HIDE DEF w, l
<1>5. w \in Text /\ Len(w) = l - n /\ \A i \in 1..p : w[i] = t[i]
  BY <1>n, <1>1, <1>3
<1>6. ASSUME NEW i \in (p + 1)..(l - n) PROVE w[i] = t[n + i]
  <2>1. i - p \in 1..(l - (p + n)) /\ p + (i - p) = i /\ (p + n) + (i - p) = n + i
    BY <1>n
  <2>2. w[p + (i - p)] = z[i - p] /\ z[i - p] = t[(p + n) + (i - p)]
    BY <1>2, <1>3, <2>1
  <2>3. QED
    BY <2>1, <2>2
<1>7. QED
  BY <1>4, <1>5, <1>6 DEF l

(* Taking out what was put in gives the text back, and the other way round. *)
LEMMA InsertedRemoved ==
  ASSUME NEW t \in Text, NEW p \in 0..Len(t), NEW u \in Text
  PROVE  /\ p \in 0..Len(WithInserted(t, p, u))
         /\ Len(u) \in 0..(Len(WithInserted(t, p, u)) - p)
         /\ WithoutRange(WithInserted(t, p, u), p, Len(u)) = t
<1> DEFINE w == WithInserted(t, p, u)
           n == Len(t)
           m == Len(u)
<1>n. n \in Nat /\ m \in Nat /\ p \in Nat /\ p <= n
  BY DEF Text
<1>1. /\ w \in Text /\ Len(w) = n + m
      /\ \A i \in 1..p : w[i] = t[i]
      /\ \A i \in (p + 1)..n : w[m + i] = t[i]
  BY InsertedText
<1> HIDE DEF w
<1>2. p \in 0..Len(w) /\ m \in 0..(Len(w) - p)
  BY <1>n, <1>1
<1> DEFINE x == WithoutRange(w, p, m)
<1>3. /\ x \in Text /\ Len(x) = Len(w) - m
      /\ \A i \in 1..p : x[i] = w[i]
      /\ \A i \in (p + 1)..(Len(w) - m) : x[i] = w[m + i]
  BY <1>1, <1>2, RemovedText
<1> HIDE DEF x, n, m
<1>4. Len(x) = n
  BY <1>n, <1>1, <1>3
<1>5. ASSUME NEW i \in 1..n PROVE x[i] = t[i]
  <2>1. i \in 1..p \/ i \in (p + 1)..n
    BY <1>n
  <2>2. Len(w) - m = n
    BY <1>n, <1>1
  <2>3. QED
    BY <1>1, <1>3, <2>1, <2>2
<1>6. x = t
  BY <1>3, <1>4, <1>5, TextEqual DEF n
<1>7. QED
  BY <1>2, <1>6 DEF x, w, m

LEMMA RemovedInserted ==
  ASSUME NEW t \in Text, NEW a \in 0..Len(t), NEW b \in a..Len(t)
  PROVE  /\ SubSeq(t, a + 1, b) \in Text /\ Len(SubSeq(t, a + 1, b)) = b - a
         /\ b - a \in 0..(Len(t) - a) /\ a \in 0..Len(WithoutRange(t, a, b - a))
         /\ WithoutRange(t, a, b - a) \in Text
         /\ WithInserted(WithoutRange(t, a, b - a), a, SubSeq(t, a + 1, b)) = t
<1> DEFINE n == Len(t)
           k == b - a
           u == SubSeq(t, a + 1, b)
           x == WithoutRange(t, a, k)
<1>n. n \in Nat /\ a \in Nat /\ b \in Nat /\ a <= b /\ b <= n /\ k \in 0..(n - a)
  BY DEF Text
<1>1. u \in Text /\ Len(u) = k /\ \A i \in 1..k : u[i] = t[a + i]
  BY <1>n, PartText
<1> HIDE DEF k
<1>2. /\ x \in Text /\ Len(x) = n - k
      /\ \A i \in 1..a : x[i] = t[i]
      /\ \A i \in (a + 1)..(n - k) : x[i] = t[k + i]
  BY <1>n, RemovedText
<1> HIDE DEF u, x
<1>3. a \in 0..Len(x)
  BY <1>n, <1>2
<1> DEFINE w == WithInserted(x, a, u)
<1>4. /\ w \in Text /\ Len(w) = Len(x) + Len(u)
      /\ \A i \in 1..a : w[i] = x[i]
      /\ \A i \in 1..Len(u) : w[a + i] = u[i]
      /\ \A i \in (a + 1)..Len(x) : w[Len(u) + i] = x[i]
  BY <1>1, <1>2, <1>3, InsertedText
<1> HIDE DEF w, n
<1>5. Len(w) = n
  BY <1>n, <1>1, <1>2, <1>4
<1>6. ASSUME NEW i \in 1..n PROVE w[i] = t[i]
  <2>1. CASE i \in 1..a
    BY <1>2, <1>4, <2>1
  <2>2. CASE i \in (a + 1)..(a + k)
    <3>1. i - a \in 1..k /\ a + (i - a) = i
      BY <1>n, <2>2
    <3>2. w[a + (i - a)] = u[i - a] /\ u[i - a] = t[a + (i - a)]
      BY <1>1, <1>4, <3>1
    <3>3. QED
      BY <3>1, <3>2
  <2>3. CASE i \in (a + k + 1)..n
    <3>1. i - k \in (a + 1)..(n - k) /\ k + (i - k) = i
      BY <1>n, <2>3
    <3>2. w[k + (i - k)] = x[i - k] /\ x[i - k] = t[k + (i - k)]
      BY <1>1, <1>2, <1>4, <3>1
    <3>3. QED
      BY <3>1, <3>2
  <2>4. QED
    BY <1>n, <2>1, <2>2, <2>3
<1>7. w = t
  BY <1>4, <1>5, <1>6, TextEqual DEF n
<1>8. QED
  BY <1>n, <1>1, <1>2, <1>3, <1>7 DEF n, k, u, x, w

(* Two insertions one behind the other are one.                             *)
LEMMA InsertedTwice ==
  ASSUME NEW t \in Text, NEW p \in 0..Len(t), NEW u \in Text, NEW v \in Text
  PROVE  /\ p + Len(u) \in 0..Len(WithInserted(t, p, u))
         /\ WithInserted(WithInserted(t, p, u), p + Len(u), v) = WithInserted(t, p, u \o v)
<1> DEFINE n == Len(t)
           m == Len(u)
           k == Len(v)
           x == WithInserted(t, p, u)
           y == WithInserted(x, p + m, v)
           uv == u \o v
           z == WithInserted(t, p, uv)
<1>n. n \in Nat /\ m \in Nat /\ k \in Nat /\ p \in Nat /\ p <= n /\ p + m \in Nat
  BY DEF Text
<1>1. /\ x \in Text /\ Len(x) = n + m
      /\ \A i \in 1..p : x[i] = t[i]
      /\ \A i \in 1..m : x[p + i] = u[i]
      /\ \A i \in (p + 1)..n : x[m + i] = t[i]
  BY InsertedText
<1>2. /\ uv \in Text /\ Len(uv) = m + k
      /\ \A i \in 1..m : uv[i] = u[i]
      /\ \A i \in 1..k : uv[m + i] = v[i]
  BY JoinText
<1> HIDE DEF x, uv
<1>3. /\ z \in Text /\ Len(z) = n + Len(uv)
      /\ \A i \in 1..p : z[i] = t[i]
      /\ \A i \in 1..Len(uv) : z[p + i] = uv[i]
      /\ \A i \in (p + 1)..n : z[Len(uv) + i] = t[i]
  BY <1>2, InsertedText
<1>4. p + m \in 0..Len(x)
  BY <1>n, <1>1
<1> DEFINE q == p + m
<1>5. /\ y \in Text /\ Len(y) = Len(x) + k
      /\ \A i \in 1..q : y[i] = x[i]
      /\ \A i \in 1..k : y[q + i] = v[i]
      /\ \A i \in (q + 1)..Len(x) : y[k + i] = x[i]
  BY <1>1, <1>4, InsertedText
<1> HIDE DEF y, z, n, m, k
<1>6. Len(y) = (n + m) + k /\ Len(z) = (n + m) + k
  BY <1>n, <1>1, <1>2, <1>3, <1>5
<1>7. ASSUME NEW i \in 1..((n + m) + k) PROVE y[i] = z[i]
  <2>1. CASE i \in 1..p
    BY <1>n, <1>1, <1>3, <1>5, <2>1
  <2>2. CASE i \in (p + 1)..(p + m)
    <3>1. i - p \in 1..m /\ p + (i - p) = i /\ i - p \in 1..(m + k) /\ i \in 1..(p + m)
      BY <1>n, <2>2
    <3>2. x[p + (i - p)] = u[i - p] /\ z[p + (i - p)] = uv[i - p] /\ uv[i - p] = u[i - p]
      BY <1>1, <1>2, <1>3, <3>1
    <3>3. y[i] = x[i]
      BY <1>5, <3>1
    <3>4. QED
      BY <3>1, <3>2, <3>3
  <2>3. CASE i \in (p + m + 1)..(p + m + k)
    <3> DEFINE j == i - (p + m)
    <3>1. j \in 1..k /\ (p + m) + j = i /\ m + j \in 1..(m + k) /\ p + (m + j) = i
      BY <1>n, <2>3
    <3> HIDE DEF j
    <3>2. y[(p + m) + j] = v[j]
      BY <1>5, <3>1
    <3>3. z[p + (m + j)] = uv[m + j] /\ uv[m + j] = v[j]
      BY <1>2, <1>3, <3>1
    <3>4. QED
      BY <3>1, <3>2, <3>3
  <2>4. CASE i \in (p + m + k + 1)..((n + m) + k)
    <3> DEFINE j == i - (m + k)
    <3>1. /\ j \in (p + 1)..n /\ (m + k) + j = i /\ k + (m + j) = i
          /\ m + j \in ((p + m) + 1)..(n + m)
      BY <1>n, <2>4
    <3> HIDE DEF j
    <3>2. z[(m + k) + j] = t[j]
      BY <1>2, <1>3, <3>1
    <3>3. y[k + (m + j)] = x[m + j] /\ x[m + j] = t[j]
      BY <1>1, <1>5, <3>1
    <3>4. QED
      BY <3>1, <3>2, <3>3
  <2>5. QED
    BY <1>n, <2>1, <2>2, <2>3, <2>4
<1>8. y = z
  BY <1>3, <1>5, <1>6, <1>7, TextEqual
<1>9. QED
  BY <1>4, <1>8 DEF y, z, x, uv, m

(* A part of a text is its two halves.                                      *)
LEMMA PartsJoin ==
  ASSUME NEW t \in Text, NEW a \in Nat, NEW b \in Nat, NEW c \in Nat, a <= b, b <= c, c <= Len(t)
  PROVE  SubSeq(t, a + 1, c) = SubSeq(t, a + 1, b) \o SubSeq(t, b + 1, c)
<1> DEFINE x == SubSeq(t, a + 1, b)
           y == SubSeq(t, b + 1, c)
           z == SubSeq(t, a + 1, c)
<1>1. a <= c /\ b <= Len(t) /\ Len(t) \in Nat
  BY DEF Text
<1>2. /\ x \in Text /\ Len(x) = b - a /\ \A i \in 1..(b - a) : x[i] = t[a + i]
      /\ y \in Text /\ Len(y) = c - b /\ \A i \in 1..(c - b) : y[i] = t[b + i]
      /\ z \in Text /\ Len(z) = c - a /\ \A i \in 1..(c - a) : z[i] = t[a + i]
  BY <1>1, PartText
<1> HIDE DEF x, y, z
<1> DEFINE v == x \o y
<1>3. /\ v \in Text /\ Len(v) = Len(x) + Len(y)
      /\ \A i \in 1..Len(x) : v[i] = x[i]
      /\ \A i \in 1..Len(y) : v[Len(x) + i] = y[i]
  BY <1>2, JoinText
<1> HIDE DEF v
<1>4. Len(v) = c - a
  BY <1>2, <1>3
<1>5. ASSUME NEW i \in 1..(c - a) PROVE z[i] = v[i]
  <2>1. CASE i <= b - a
    <3>1. i \in 1..(b - a)
      BY <2>1
    <3>2. QED
      BY <1>2, <1>3, <3>1
  <2>2. CASE ~ (i <= b - a)
    <3> DEFINE k == i - (b - a)
    <3>1. k \in 1..(c - b) /\ (b - a) + k = i /\ b + k = a + i
      BY <2>2
    <3> HIDE DEF k
    <3>2. v[(b - a) + k] = y[k] /\ y[k] = t[b + k]
      BY <1>2, <1>3, <3>1
    <3>3. QED
      BY <1>2, <3>1, <3>2
  <2>3. QED
    BY <2>1, <2>2
<1>6. z = v
  BY <1>2, <1>3, <1>4, <1>5, TextEqual
<1>7. QED
  BY <1>6 DEF x, y, z, v

LEMMA JoinAssociative ==
  ASSUME NEW x \in Text, NEW y \in Text, NEW z \in Text
  PROVE  (x \o y) \o z = x \o (y \o z)
<1>1. x \in Seq(Point) /\ y \in Seq(Point) /\ z \in Seq(Point)
  BY DEF Text
<1>2. QED
  BY <1>1, ConcatAssociative

(* Four texts joined from the left are the same joined from the right.      *)
FoldsEitherWay(a, b, c, d) == ((a \o b) \o c) \o d = a \o (b \o (c \o d))

LEMMA JoinOfFour ==
  ASSUME NEW a \in Text, NEW b \in Text, NEW c \in Text, NEW d \in Text
  PROVE  FoldsEitherWay(a, b, c, d)
<1> DEFINE x == a \o b
           y == c \o d
<1>1. x \in Text /\ y \in Text
  BY JoinText
<1>2. (x \o c) \o d = x \o y
  <2>1. x \in Text
    BY <1>1
  <2> HIDE DEF x
  <2>2. QED
    BY <2>1, JoinAssociative
<1>3. (a \o b) \o y = a \o (b \o y)
  <2>1. y \in Text
    BY <1>1
  <2> HIDE DEF y, x
  <2>2. QED
    BY <2>1, JoinAssociative
<1>4. QED
  BY <1>2, <1>3 DEF FoldsEitherWay

(* The whole text, and no text, as parts.                                   *)
LEMMA WholePart ==
  ASSUME NEW t \in Text, NEW a \in Nat, a <= Len(t)
  PROVE  SubSeq(t, a + 1, a) = <<>> /\ SubSeq(t, 1, Len(t)) = t
<1>1. a + 1 \in Int /\ a \in Int /\ a < a + 1
  OBVIOUS
<1>2. SubSeq(t, a + 1, a) = <<>>
  BY <1>1, SubSeqEmpty
<1>3. SubSeq(t, 1, Len(t)) = t
  BY SubSeqFull DEF Text
<1>4. QED
  BY <1>2, <1>3

=============================================================================
