------------------------------- MODULE Meaning -------------------------------
(***************************************************************************)
(* What a program means, with no IR, hints or bits: the definition the     *)
(* compiled program is checked against.  A value carries what it is:       *)
(* <<"int", word>>, <<"flt", halves>>, <<"pack", kind, lanes>>, a place    *)
(* <<"ref", cell>> or a list <<"list", cell>>, empty if <<"int", 0>>.  The *)
(* store gives each cell a value, and a cell is never used twice.  A       *)
(* vector's length is in the cell before it.                               *)
(*                                                                         *)
(* Does(n, i, m) is what happens after the i-th part of n (before the      *)
(* first for i = 0): which part comes next, 0 for none, and the state.     *)
(***************************************************************************)
EXTENDS Hints, Words

IntV(w) == <<"int", w>>
Begin == [scopes |-> << <<>> >>, store |-> <<>>, vs |-> <<>>, saved |-> <<>>, exit |-> "", out |-> <<>>, defs |-> <<>>]
Part(n, i, m) == [next |-> i, of |-> n.c[i], m |-> m]
End(m) == [next |-> 0, m |-> m]

Give(m, v) == [m EXCEPT !.vs = Append(@, v)]
Have(m, k) == m.vs[Len(m.vs) - k]
Less(m, k) == [m EXCEPT !.vs = SubSeq(@, 1, Len(@) - k)]
Yield(m, k, v) == Give(Less(m, k), v)
Cells(m, values) == [m EXCEPT !.store = @ \o values]
Named(m, name, v) ==
  [m EXCEPT !.store = Append(@, v), !.scopes[Len(m.scopes)] = (name :> Len(m.store) + 1) @@ @]
Inside(m) == [m EXCEPT !.scopes = Append(@, <<>>)]
Outside(m) == [m EXCEPT !.scopes = Front(@)]
Where(m, name) ==
  m.scopes[CHOOSE i \in DOMAIN m.scopes :
             name \in DOMAIN m.scopes[i] /\ \A j \in i + 1 .. Len(m.scopes) : name \notin DOMAIN m.scopes[j]][name]
ValueOf(m, name) == m.store[Where(m, name)]
Known(m, name) == \E i \in DOMAIN m.scopes : name \in DOMAIN m.scopes[i]

True(v) == v[2] # 0
Number(v) == IF v[1] = "flt" THEN v[2] ELSE 2 * v[2]         \* in halves
Lanes(kind) == [PAIR |-> 2, FPAIR |-> 2, QUAD |-> 4, OCT |-> 8][kind]
LaneOf(kind, v) == IF v[1] = "flt" THEN v ELSE IntV(Signed(v[2], WordBits \div Lanes(kind)))
ByteOf(v, j) == IntV((Unsigned(v[2], WordBits) \div 256 ^ j) % 256)
WithByteOf(v, j, w) ==
  IntV(Word(Unsigned(v[2], WordBits) + (Unsigned(w, 8) - ByteOf(v, j)[2]) * 256 ^ j))
Field(v, from, width) == IntV((Unsigned(v[2], WordBits) \div 2 ^ from) % 2 ^ width)
WithField(v, from, width, w) ==
  IntV(Word(Unsigned(v[2], WordBits) + (Unsigned(w, width) - Field(v, from, width)[2]) * 2 ^ from))
(* A variable stays what it was declared as. *)
Converted(old, v) ==
  CASE old[1] = "flt" /\ v[1] = "int" -> <<"flt", 2 * v[2]>>
    [] old[1] = "int" /\ v[1] = "flt" -> IntV(Towards0(v[2], 2))
    [] OTHER -> v

----------------------------------------------------------------------------
(* Expressions *)

Truth(b) == IntV(IF b THEN 1 ELSE 0)
Ordered(op, a, b) ==
  CASE op \in {"Eq", "FEq", "Eqv"} -> Truth(a = b) [] op \in {"Ne", "FNe"} -> Truth(a # b)
    [] op \in {"Lt", "FLt"} -> Truth(a < b) [] op \in {"Le", "FLe"} -> Truth(a <= b)
    [] op \in {"Gt", "FGt"} -> Truth(a > b) [] op \in {"Ge", "FGe"} -> Truth(a >= b)
FloatMeaning(op, a, b) ==
  <<"flt", CASE op \in {"Add", "FAdd"} -> a + b [] op \in {"Sub", "FSub"} -> a - b
             [] op \in {"Mul", "FMul"} -> (a * b) \div 2 [] op \in {"Div", "FDiv"} -> (2 * a) \div b>>
IntMeaning(op, a, b) ==
  IntV(CASE op = "Add" -> Word(a + b) [] op = "Sub" -> Word(a - b) [] op = "Mul" -> Word(a * b)
         [] op = "Div" -> Towards0(a, b) [] op = "Rem" -> Rem0(a, b)
         [] op = "BitAnd" -> BitAnd(a, b) [] op = "BitOr" -> BitOr(a, b) [] op \in {"BitXor", "Neqv"} -> BitXor(a, b)
         [] op = "Shl" -> Word(a * 2 ^ b) [] op = "Shr" -> a \div 2 ^ b)
Comparisons == {"Eq", "Ne", "Lt", "Le", "Gt", "Ge", "FEq", "FNe", "FLt", "FLe", "FGt", "FGe", "Eqv"}
BinaryMeaning(m, op, a, b) ==
  CASE op = "Subscript" \/ op = "FloatSubscript" -> m.store[a[2] + b[2]]
    [] op = "CharSubscript" -> ByteOf(m.store[a[2] + b[2] \div WordBytes], b[2] % WordBytes)
    [] op = "LaneAccess" -> a[3][b[2] + 1]
    [] op = "LogAnd" -> Truth(True(a) /\ True(b))
    [] op = "LogOr" -> Truth(True(a) \/ True(b))
    [] op = "LogXor" -> Truth(True(a) # True(b))
    [] op \in Comparisons ->
         IF {a[1], b[1]} \cap {"ref", "list"} # {} THEN Ordered(op, a[2], b[2]) ELSE Ordered(op, Number(a), Number(b))
    [] op \in {"FAdd", "FSub", "FMul", "FDiv"} \/ (a[1] = "flt" /\ b[1] = "flt") ->
         FloatMeaning(op, Number(a), Number(b))
    [] OTHER -> IntMeaning(op, a[2], b[2])

ListValues(m, v) ==                                \* the cells of a list
  LET f[k \in 0 .. Len(m.store)] ==
        IF k = 0 THEN v ELSE IF f[k - 1][1] = "int" THEN f[k - 1] ELSE m.store[f[k - 1][2] + 1]
      length == CHOOSE k \in 0 .. Len(m.store) : f[k][1] = "int" /\ \A j \in 0 .. k - 1 : f[j][1] # "int"
  IN  [k \in 1 .. length |-> f[k - 1][2]]
UnaryMeaning(m, n, v) ==
  CASE n.x = "Neg" -> IF v[1] = "flt" THEN <<"flt", 0 - v[2]>> ELSE IntV(Word(0 - v[2]))
    [] n.x = "Not" -> IntV(-1 - v[2])
    [] n.x = "LogNot" -> Truth(~True(v))
    [] n.x = "Len" -> IF v[1] = "ref" THEN m.store[v[2] - 1] ELSE IntV(Len(ListValues(m, v)))
    [] n.x \in {"Hd", "Indirection"} -> m.store[v[2]]
    [] n.x \in {"Tl", "Rest"} -> m.store[v[2] + 1]
    [] n.x = "CharIndirection" -> ByteOf(m.store[v[2]], 0)
    [] n.x \in {"FreeVec", "FreeList"} -> IntV(0)

(* n list cells after the store's end: the values, then what tl ends in. *)
ListOf(m, values, tl) ==
  [j \in 1 .. 2 * Len(values) |->
     IF j % 2 = 1 THEN values[(j + 1) \div 2]
     ELSE IF j = 2 * Len(values) THEN tl ELSE <<"list", Len(m.store) + j + 1>>]
NewList(m, values, tl) == Give(Cells(m, ListOf(m, values, tl)), <<"list", Len(m.store) + 1>>)
NewRef(m, cells, offset) == Give(Cells(m, cells), <<"ref", Len(m.store) + 1 + offset>>)
Vector(m, values) == NewRef(m, <<IntV(Len(values))>> \o values, 1)
ZeroCells(k) == [j \in 1 .. k |-> IntV(0)]
SizedVector(m, k) == NewRef(m, <<IntV(k)>> \o ZeroCells(k + 1), 1)
Construct(n, m, args) ==
  CASE n.x \in {"VEC", "FVEC"} /\ Len(n.c) = 1 /\ n.c[1].k = "int" -> SizedVector(m, n.c[1].x)
    [] n.x \in {"VEC", "TABLE"} /\ ~(Len(n.c) = 1 /\ n.c[1].k = "int") -> Vector(m, args)
    [] n.x \in {"FVEC", "FTABLE"} /\ Len(n.c) > 1 -> Vector(m, [j \in DOMAIN args |-> <<"flt", Number(args[j])>>])
    [] n.x \in {"PAIR", "FPAIR", "QUAD", "OCT"} ->
         Give(m, <<"pack", n.x, [j \in 1 .. Lanes(n.x) |-> LaneOf(n.x, args[j])]>>)
    [] n.x \in {"LIST", "MANIFESTLIST"} -> IF args = <<>> THEN Give(m, IntV(0)) ELSE NewList(m, args, IntV(0))

BuiltIn == {"WRITEN", "FWRITE", "FIX", "FLOAT", "ABS", "MIN", "MAX", "HD", "TL", "GETVEC", "APND", "CONCAT",
            "AS_INT", "AS_FLOAT"}
Written(m, v) == Give([m EXCEPT !.out = Append(@, v)], IntV(0))
AppendList(m, list, v) ==
  IF list[1] = "int" THEN NewList(m, <<v>>, IntV(0))
  ELSE Give([Cells(m, <<v, IntV(0)>>) EXCEPT !.store[Last(ListValues(m, list)) + 1] = <<"list", Len(m.store) + 1>>], list)
Joined(m, a, b) ==
  IF a[1] = "int" THEN Give(m, b)
  ELSE NewList(m, [j \in DOMAIN ListValues(m, a) |-> m.store[ListValues(m, a)[j]]], b)
BuiltInMeaning(m, name, args) ==
  CASE name = "WRITEN" -> Written(m, <<"n", args[1][2]>>)
    [] name = "FWRITE" -> Written(m, <<"f", Number(args[1])>>)
    [] name = "FIX" -> Give(m, IntV(Towards0(args[1][2], 2)))
    [] name = "FLOAT" -> Give(m, <<"flt", 2 * args[1][2]>>)
    [] name = "ABS" -> Give(m, IntV(Word(AbsOf(args[1][2]))))
    [] name = "MIN" -> Give(m, IF args[1][2] < args[2][2] THEN args[1] ELSE args[2])
    [] name = "MAX" -> Give(m, IF args[1][2] > args[2][2] THEN args[1] ELSE args[2])
    [] name = "HD" -> Give(m, IF args[1][1] = "int" THEN IntV(0) ELSE m.store[args[1][2]])
    [] name = "TL" -> Give(m, IF args[1][1] = "int" THEN IntV(0) ELSE m.store[args[1][2] + 1])
    [] name = "GETVEC" -> SizedVector(m, args[1][2])
    [] name = "APND" -> AppendList(m, args[1], args[2])
    [] name = "CONCAT" -> Joined(m, args[1], args[2])
    [] name \in {"AS_INT", "AS_FLOAT"} -> Give(m, args[1])

(* A call sees its parameters and the globals only. *)
LastArgs(m, k) == SubSeq(m.vs, Len(m.vs) - k + 1, Len(m.vs))
BindArgs(m, params, args) == FoldLeftDomain(LAMBDA st, j : Named(st, params[j][1], args[j]), m, params)
EnterCall(n, m) ==
  BindArgs([Less(m, Len(n.c)) EXCEPT !.scopes = <<m.scopes[1], <<>> >>, !.saved = Append(@, m.scopes)],
           m.defs[n.x].x.params, LastArgs(m, Len(n.c)))
LeaveCall(m) == [m EXCEPT !.scopes = Last(m.saved), !.saved = Front(@), !.exit = ""]
CallDoes(n, i, m) ==
  CASE i < Len(n.c) -> Part(n, i + 1, m)
    [] i = Len(n.c) /\ n.x \in BuiltIn -> End(BuiltInMeaning(Less(m, Len(n.c)), n.x, LastArgs(m, Len(n.c))))
    [] i = Len(n.c) /\ n.x \notin BuiltIn -> [next |-> i + 1, of |-> m.defs[n.x].c[1], m |-> EnterCall(n, m)]
    [] i > Len(n.c) -> End(IF m.defs[n.x].k = "function" THEN LeaveCall(m) ELSE Give(LeaveCall(m), IntV(0)))

EachPart(n, i, m, finished) == IF i < Len(n.c) THEN Part(n, i + 1, m) ELSE End(finished)
CondDoes(n, i, m) ==
  CASE i = 0 -> Part(n, 1, m)
    [] i = 1 -> Part(n, IF True(Have(m, 0)) THEN 2 ELSE 3, Less(m, 1))
    [] i > 1 -> End(m)
ValofDoes(n, i, m) == IF i = 0 THEN Part(n, 1, m) ELSE End([m EXCEPT !.exit = IF @ = "resultis" THEN "" ELSE @])
AddressDoes(n, m) == End(Give(m, <<"ref", Where(m, n.c[1].x)>>))

----------------------------------------------------------------------------
(* Statements *)

SequenceDoes(n, i, m) == IF m.exit = "" /\ i < Len(n.c) THEN Part(n, i + 1, m) ELSE End(m)
BlockDoes(n, i, m) ==
  CASE i = 0 -> IF n.c = <<>> THEN End(m) ELSE Part(n, 1, Inside(m))
    [] i > 0 /\ m.exit = "" /\ i < Len(n.c) -> Part(n, i + 1, m)
    [] OTHER -> End(Outside(m))
LetDoes(n, i, m) ==
  IF i = 0 THEN Part(n, 1, m)
  ELSE End(Named(Less(m, 1), n.x.name, IF n.x.kind = "FLET" THEN <<"flt", Number(Have(m, 0))>> ELSE Have(m, 0)))
UnpackNames(m, names, v) ==
  FoldLeftDomain(LAMBDA st, j : Named(st, names[j], IF Len(names) = 1 THEN v ELSE v[3][j]), m, names)

Place(n, m) ==                                     \* what a target denotes
  CASE n.x = "id" -> <<"cell", Where(m, n.c[1].x)>>
    [] n.x \in {"Subscript", "FloatSubscript"} -> <<"word", Have(m, 1)[2] + Have(m, 0)[2]>>
    [] n.x = "CharSubscript" -> <<"byte", Have(m, 1)[2] + Have(m, 0)[2] \div WordBytes, Have(m, 0)[2] % WordBytes>>
    [] n.x = "Indirection" -> <<"word", Have(m, 0)[2]>>
    [] n.x = "CharIndirection" -> <<"byte", Have(m, 0)[2], 0>>
    [] n.x = "bits" -> <<"bits", Where(m, n.c[1].x), Have(m, 1)[2], Have(m, 0)[2]>>
    [] n.x = "lane" -> <<"lane", Where(m, n.c[1].x), Have(m, 0)[2]>>
PlaceDoes(n, i, m) ==
  CASE n.x = "id" -> End(Give(m, Place(n, m)))
    [] n.x # "id" /\ i < Len(n.c) -> Part(n, i + 1, m)
    [] OTHER -> End(Yield(m, Len(n.c), Place(n, m)))
Assigned(m, place, v) ==
  [m EXCEPT !.store[place[2]] =
     CASE place[1] = "cell" -> Converted(@, v)
       [] place[1] = "word" -> v
       [] place[1] = "byte" -> WithByteOf(@, place[3], v[2])
       [] place[1] = "bits" -> WithField(@, place[3], place[4], v[2])
       [] place[1] = "lane" -> [@ EXCEPT ![3][place[3] + 1] = LaneOf(m.store[place[2]][2], v)]]
(* All values, then all places, then the stores. *)
AssignAll(m, k, values, places) ==
  FoldLeftDomain(LAMBDA st, j : Assigned(st, places[j], values[j]), Less(m, 2 * k), places)
AssignDoes(n, i, m) ==
  CASE i = 0 -> Part(n, n.x + 1, m)
    [] i > n.x -> Part(n, IF i < 2 * n.x THEN i + 1 ELSE 1, m)
    [] i \in 1 .. n.x - 1 -> Part(n, i + 1, m)
    [] i = n.x -> End(AssignAll(m, n.x, SubSeq(LastArgs(m, 2 * n.x), 1, n.x), LastArgs(m, n.x)))

IfDoes(n, i, m) ==
  CASE i = 0 -> Part(n, 1, m)
    [] i = 1 /\ True(Have(m, 0)) # (n.k = "unless") -> Part(n, 2, Less(m, 1))
    [] i = 1 /\ True(Have(m, 0)) = (n.k = "unless") -> IF Len(n.c) = 3 THEN Part(n, 3, Less(m, 1)) ELSE End(Less(m, 1))
    [] i > 1 -> End(m)

(* After a loop's body: on, or out. *)
GoesOn(m) == m.exit \in {"", "loop"}
Landed(m) == [m EXCEPT !.exit = IF @ \in {"loop", "break"} THEN "" ELSE @]
LoopTest(n, m, body) ==                            \* the condition is on the stack
  IF True(Have(m, 0)) = (n.k \in {"while", "repeatwhile"}) THEN Part(n, body, Less(m, 1)) ELSE End(Less(m, 1))
LoopDoes(n, i, m) ==
  CASE i = 0 -> Part(n, 1, m)
    [] n.k \in {"while", "until"} /\ i = 1 -> LoopTest(n, m, 2)
    [] n.k \in {"while", "until"} /\ i = 2 -> IF GoesOn(m) THEN Part(n, 1, Landed(m)) ELSE End(Landed(m))
    [] n.k = "repeat" /\ i = 1 -> IF GoesOn(m) THEN Part(n, 1, Landed(m)) ELSE End(Landed(m))
    [] n.k \in {"repeatwhile", "repeatuntil"} /\ i = 1 -> IF GoesOn(m) THEN Part(n, 2, Landed(m)) ELSE End(Landed(m))
    [] n.k \in {"repeatwhile", "repeatuntil"} /\ i = 2 -> LoopTest(n, m, 1)

(* The limit and the step are evaluated once. *)
StepOf(n, m) == IF Len(n.c) = 4 THEN ValueOf(m, "step")[2] ELSE 1
Within(n, m) ==
  IF StepOf(n, m) < 0 THEN ValueOf(m, n.x)[2] >= ValueOf(m, "limit")[2] ELSE ValueOf(m, n.x)[2] <= ValueOf(m, "limit")[2]
ForTurn(n, m) == IF Within(n, m) THEN Part(n, Len(n.c), m) ELSE End(Outside(m))
ForBegin(n, m) ==
  LET parts == LastArgs(m, Len(n.c) - 1)
      ranged == Named(Named(Inside(Less(m, Len(parts))), "limit", parts[2]), "step", Last(parts))
  IN  Named(ranged, n.x, parts[1])
ForAdvance(n, m) == [Landed(m) EXCEPT !.store[Where(m, n.x)] = IntV(Word(@[2] + StepOf(n, m)))]
ForDoes(n, i, m) ==
  CASE i < Len(n.c) - 1 -> Part(n, i + 1, m)
    [] i = Len(n.c) - 1 -> ForTurn(n, ForBegin(n, m))
    [] i = Len(n.c) -> IF GoesOn(m) THEN ForTurn(n, ForAdvance(n, m)) ELSE End(Outside(Landed(m)))

(* A vector's elements up to the length it had; a list's cells as they are. *)
OnList(m) == ValueOf(m, "at")[1] # "ref"
MoreElements(m) ==
  IF OnList(m) THEN ValueOf(m, "at")[1] = "list" ELSE ValueOf(m, "index")[2] < ValueOf(m, "length")[2]
Element(m) ==
  IF OnList(m) THEN m.store[ValueOf(m, "at")[2]] ELSE m.store[ValueOf(m, "at")[2] + ValueOf(m, "index")[2]]
ForEachTurn(n, m) ==
  IF MoreElements(m) THEN Part(n, 2, UnpackNames(Inside(m), n.x.names, Element(m))) ELSE End(Outside(m))
ForEachBegin(m) ==
  LET v == Have(m, 0)
      m1 == Named(Named(Inside(Less(m, 1)), "at", v), "index", IntV(0))
  IN  IF v[1] # "ref" THEN m1 ELSE Named(m1, "length", m.store[v[2] - 1])
ForEachAdvance(m) ==
  IF OnList(m) THEN [m EXCEPT !.store[Where(m, "at")] = m.store[ValueOf(m, "at")[2] + 1]]
  ELSE [m EXCEPT !.store[Where(m, "index")] = IntV(@[2] + 1)]
ForEachDoes(n, i, m) ==
  CASE i = 0 -> Part(n, 1, m)
    [] i = 1 -> ForEachTurn(n, ForEachBegin(m))
    [] i = 2 /\ GoesOn(m) -> ForEachTurn(n, ForEachAdvance(Outside(Landed(m))))
    [] i = 2 /\ ~GoesOn(m) -> End(Outside(Outside(Landed(m))))

Chosen(n, v) ==
  LET hit == {j \in DOMAIN n.x : v \in ToSet(n.x[j])}
  IN  IF hit = {} THEN Len(n.c) ELSE 1 + CHOOSE j \in hit : TRUE
SwitchDoes(n, i, m) ==
  CASE i = 0 -> Part(n, 1, m)
    [] i = 1 -> Part(n, Chosen(n, Have(m, 0)[2]), Less(m, 1))
    [] i > 1 /\ m.exit = "" /\ i < Len(n.c) -> Part(n, i + 1, m)
    [] OTHER -> End([m EXCEPT !.exit = IF @ = "endcase" THEN "" ELSE @])

Exiting(m, how) == End([m EXCEPT !.exit = how])
Does(n, i, m) ==
  CASE n.k \in {"int", "flt"} -> End(Give(m, <<n.k, n.x>>))
    [] n.k = "bool" -> End(Give(m, Truth(n.x)))
    [] n.k = "null" -> End(Give(m, IntV(0)))
    [] n.k = "id" -> End(Give(m, ValueOf(m, n.x)))
    [] n.k = "call" -> CallDoes(n, i, m)
    [] n.k = "un" -> IF n.x = "AddressOf" THEN AddressDoes(n, m)
                     ELSE EachPart(n, i, m, Yield(m, 1, UnaryMeaning(m, n, Have(m, 0))))
    [] n.k = "bin" -> EachPart(n, i, m, Yield(m, 2, BinaryMeaning(m, n.x, Have(m, 1), Have(m, 0))))
    [] n.k = "bits" -> EachPart(n, i, m, Yield(m, 3, Field(Have(m, 2), Have(m, 1)[2], Have(m, 0)[2])))
    [] n.k = "cond" -> CondDoes(n, i, m)
    [] n.k = "valof" -> ValofDoes(n, i, m)
    [] n.k = "new" -> EachPart(n, i, m, Construct(n, Less(m, Len(n.c)), LastArgs(m, Len(n.c))))
    [] n.k = "block" -> BlockDoes(n, i, m)
    [] n.k = "stmts" -> SequenceDoes(n, i, m)
    [] n.k = "let" -> LetDoes(n, i, m)
    [] n.k = "unpack" -> EachPart(n, i, m, UnpackNames(Less(m, 1), n.x, Have(m, 0)))
    [] n.k = "to" -> PlaceDoes(n, i, m)
    [] n.k = "assign" -> AssignDoes(n, i, m)
    [] n.k = "do" -> EachPart(n, i, m, Less(m, 1))
    [] n.k \in {"if", "unless"} -> IfDoes(n, i, m)
    [] n.k \in {"while", "until", "repeat", "repeatwhile", "repeatuntil"} -> LoopDoes(n, i, m)
    [] n.k = "for" -> ForDoes(n, i, m)
    [] n.k = "foreach" -> ForEachDoes(n, i, m)
    [] n.k = "switch" -> SwitchDoes(n, i, m)
    [] n.k = "resultis" -> IF i = 0 THEN Part(n, 1, m) ELSE Exiting(m, "resultis")
    [] n.k \in {"return", "break", "loop", "endcase"} -> Exiting(m, n.k)
RECURSIVE Means(_, _)
Means(n, r) == IF r.next = 0 THEN r.m ELSE Means(n, Does(n, r.next, Means(r.of, Does(r.of, 0, r.m))))

(* A whole program: its globals and manifests, then START. *)
Declared(m, d) ==
  CASE d.k \in {"function", "routine"} -> [m EXCEPT !.defs = (d.x.name :> d) @@ @]
    [] d.k \in {"manifest", "global"} -> Named(m, d.x, IntV(d.c[1].x))
Start == Call("START", <<>>)
MeaningOf(decls) == Means(Start, Does(Start, 0, FoldLeft(Declared, Begin, decls))).out
=============================================================================
