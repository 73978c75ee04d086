------------------------------ MODULE MCCompiled ------------------------------
(***************************************************************************)
(* Programs for Compiled, in families: every loop with every exit, the     *)
(* choices of SWITCHON and TEST, the operators on words, numbers, packs    *)
(* and bits, vectors that escape or do not, lists, calls and globals.      *)
(***************************************************************************)
EXTENDS Compiled

(* One program for each choice of its parameters. *)
Each(Program(_), choices) == FoldSet(LAMBDA c, programs : Append(programs, Program(c)), <<>>, choices)
Main(stmts) == Routine("START", <<>>, Block(stmts))

W(e) == Do(Call("WRITEN", <<e>>))
FW(e) == Do(Call("FWRITE", <<e>>))
Inc(name) == Set(name, Bin("Add", Id(name), Num(1)))
Leaves(exit, c) == IF exit = "" THEN Block(<<>>) ELSE If(c, Exit(exit))
Neg(k) == Un("Neg", Num(k))

(* FOR: no turn, one, some; steps up and down; left early or going on. *)
StepsOf == << <<>>, <<Num(2)>>, <<Neg(1)>> >>
ForProgram(range, exit) ==
  <<Main(<<For("i", range, Block(<<Leaves(exit, Bin("Eq", Id("i"), Num(1))), W(Id("i"))>>)), W(Num(7))>>)>>
ForPrograms ==
  Each(LAMBDA c : ForProgram(<<Num(c[1]), Num(c[2])>> \o StepsOf[c[3]], c[4]),
       {-1, 2} \X {-1, 2} \X (1 .. 3) \X {"", "loop", "break", "return"})

(* Each construct that repeats or chooses inside each, left in each way     *)
(* from the inner one.                                                      *)
Kinds == {"for", "while", "repeatuntil", "vec", "list", "switch"}
Elements == <<Num(0), Num(1), Num(2)>>
Turns(kind, name, s) ==                            \* s for 0, 1 and 2
  CASE kind = "for" -> For(name, <<Num(0), Num(2)>>, s)
    [] kind = "while" -> Block(<<Let(name, Num(-1)), Loop("while", <<Bin("Lt", Id(name), Num(2)), Block(<<Inc(name), s>>)>>)>>)
    [] kind = "repeatuntil" -> Block(<<Let(name, Num(-1)), Loop("repeatuntil", <<Block(<<Inc(name), s>>), Bin("Ge", Id(name), Num(2))>>)>>)
    [] kind = "vec" -> ForEach(<<name>>, "", New("VEC", Elements), s)
    [] kind = "list" -> ForEach(<<name>>, "", New("LIST", Elements), s)
    [] kind = "switch" -> For(name, <<Num(0), Num(2)>>, Switchon(Id(name), << <<1, 2>> >>, <<Case(<<s>>)>>, Case(<<W(Num(77))>>)))
ExitsOf(kind) == IF kind = "switch" THEN {"loop", "endcase", "return", "resultis"} ELSE {"loop", "break", "return", "resultis"}
InnerBody(exit) ==
  Block(<<If(Bin("Eq", Id("j"), Id("i")), IF exit = "resultis" THEN Resultis(Id("j")) ELSE Exit(exit)),
          Let("i", Id("j")), W(Id("i"))>>)
Nested(outer, inner, exit) ==
  Turns(outer, "i", Block(<<Turns(inner, "j", InnerBody(exit)), W(Bin("Mul", Id("i"), Num(10)))>>))
NestedProgram(outer, inner, exit) ==
  IF exit = "resultis" THEN <<Main(<<W(Valof(Block(<<Nested(outer, inner, exit), Resultis(Num(9))>>))), W(Num(8))>>)>>
  ELSE <<Main(<<Nested(outer, inner, exit), W(Num(8))>>)>>
Inners == {c \in Kinds \X UNION {ExitsOf(kind) : kind \in Kinds} : c[2] \in ExitsOf(c[1])}
NestedPrograms ==
  FlattenSeq(Each(LAMBDA outer : Each(LAMBDA c : NestedProgram(outer, c[1], c[2]), Inners), Kinds))

(* The other loops; REPEAT needs a way out. *)
TestOf(kind) ==
  CASE kind \in {"while", "repeatwhile"} -> <<Bin("Lt", Id("x"), Num(3))>>
    [] kind \in {"until", "repeatuntil"} -> <<Bin("Ge", Id("x"), Num(3))>>
    [] kind = "repeat" -> <<>>
BodyFor(kind, exit) ==
  Block(<<Inc("x"), Leaves(exit, Bin("Eq", Id("x"), Num(2))),
          Leaves(IF kind = "repeat" THEN "break" ELSE "", Bin("Gt", Id("x"), Num(3))), W(Id("x"))>>)
LoopProgram(kind, from, exit) ==
  <<Main(<<Let("x", Num(from)),
           Loop(kind, IF kind \in {"while", "until"} THEN Append(TestOf(kind), BodyFor(kind, exit))
                      ELSE <<BodyFor(kind, exit)>> \o TestOf(kind)),
           W(Id("x"))>>)>>
LoopPrograms ==
  Each(LAMBDA c : LoopProgram(c[1], c[2], c[3]),
       {"while", "until", "repeat", "repeatwhile", "repeatuntil"} \X {1, 5} \X {"", "loop", "break"})
(* LOOP at the test of a REPEATUNTIL that is met. *)
LoopToTest ==
  Each(LAMBDA k : <<Main(<<Let("x", Num(0)),
            Loop("repeatuntil", <<Block(<<Inc("x"), If(Bin("Ge", Id("x"), Num(k)), Exit("loop")), W(Id("x"))>>),
                                  Bin("Ge", Id("x"), Num(k))>>), W(Num(9))>>)>>, {1, 3})

(* SWITCHON: a case falls through, ends, or goes on with the loop around. *)
CaseBody(v, exit) == Case(<<W(Num(v))>> \o IF exit = "" THEN <<>> ELSE <<Exit(exit)>>)
SwitchProgram(one, two) ==
  <<Main(<<For("i", <<Num(0), Num(4)>>, Block(<<
             Switchon(Id("i"), << <<0>>, <<1, 3>> >>, <<CaseBody(10, one), CaseBody(20, two)>>, CaseBody(30, "")),
             W(Id("i"))>>))>>)>>
SwitchPrograms == Each(LAMBDA c : SwitchProgram(c[1], c[2]), {"", "endcase", "loop"} \X {"", "endcase", "loop"})
ChoicePrograms ==
  Each(LAMBDA k : <<Main(<<Let("x", Num(k)),
            Test(Bin("Gt", Id("x"), Num(0)), Block(<<W(Num(1))>>), Block(<<Unless(Bin("Eq", Id("x"), Num(0)), Exit("return")), W(Num(2))>>)),
            W(Cond(Id("x"), Cond(Bin("Gt", Id("x"), Num(1)), Num(5), Num(6)), Num(7))),
            W(Valof(Block(<<For("j", <<Num(1), Num(3)>>, If(Bin("Gt", Id("j"), Id("x")), Resultis(Id("j")))), Resultis(Num(0))>>)))>>)>>, -1 .. 3)

(* Operators *)
IntOps == {"Add", "Sub", "Mul", "Div", "Rem", "Eq", "Ne", "Lt", "Le", "Gt", "Ge", "BitAnd", "BitOr", "BitXor", "Neqv",
           "LogAnd", "LogOr", "LogXor"}
IntProgram(op) ==
  <<Main(<<Let("a", Num(-7)), Let("b", Num(3)), Let("c", Num(20000))>>
         \o [j \in 1 .. 4 |-> W(Bin(op, << Id("a"), Id("b"), Id("c"), Id("c") >>[j], << Id("b"), Id("a"), Id("c"), Id("b") >>[j]))])>>
Shifts ==
  <<Main(<<Let("a", Num(-7)), W(Bin("Shl", Id("a"), Num(2))), W(Bin("Shr", Id("a"), Num(1))), W(Bin("Shl", Num(1), Num(15))),
           W(Un("Neg", Id("a"))), W(Un("Not", Id("a"))), W(Un("LogNot", Id("a"))), W(Un("LogNot", Bin("Gt", Id("a"), Num(0)))),
           W(Call("ABS", <<Id("a")>>)), W(Call("MIN", <<Id("a"), Num(2)>>)), W(Call("MAX", <<Id("a"), Num(2)>>)),
           W(Bool(TRUE)), W(Null)>>)>>
FloatArith == {"Add", "Sub", "Mul", "Div", "FAdd", "FSub", "FMul", "FDiv"}
FloatTests == {"Eq", "Ne", "Lt", "Le", "Gt", "Ge", "FEq", "FNe", "FLt", "FLe", "FGt", "FGe"}
FloatProgram(op) ==
  <<Main(<<FLet("a", Flt(3)), FLet("b", Num(2)), FLet("c", Flt(-5))>>
         \o [j \in 1 .. 3 |-> IF op \in FloatArith
                              THEN FW(Bin(op, << Id("a"), Id("c"), Id("b") >>[j], << Id("b"), Id("b"), Id("b") >>[j]))
                              ELSE W(Bin(op, << Id("a"), Id("c"), Id("b") >>[j], << Id("b"), Id("a"), Id("b") >>[j]))])>>
Numbers ==
  <<Main(<<FLet("a", Num(3)), Let("n", Call("FIX", <<Flt(-5)>>)), W(Id("n")), Set("a", Num(4)), FW(Id("a")), FW(Un("Neg", Id("a"))),
           FW(Call("FLOAT", <<Id("n")>>)), Set("n", Flt(7)), W(Id("n")),
           FW(Cond(Id("a"), Flt(1), Flt(2))), FW(Valof(Block(<<If(Id("n"), Resultis(Id("a"))), Resultis(Flt(9))>>)))>>)>>
OperatorPrograms ==
  Each(IntProgram, IntOps) \o Each(FloatProgram, FloatArith \cup FloatTests) \o <<Shifts, Numbers>>

(* Packs and bits *)
PackOf == [PAIR |-> <<5, -3>>, QUAD |-> <<1, -2, 7, -8>>, OCT |-> <<0, 1, -1, -2, 1, 0, 1, -1>>]
PackProgram(kind, lane) ==
  <<Main(<<Let("p", New(kind, [j \in DOMAIN PackOf[kind] |-> Num(PackOf[kind][j])])),
           W(Bin("LaneAccess", Id("p"), Num(lane))),
           Assign(<<To("lane", <<Id("p"), Num(lane)>>)>>, <<Num(1)>>)>>
         \o [j \in DOMAIN PackOf[kind] |-> W(Bin("LaneAccess", Id("p"), Num(j - 1)))])>>
FloatPack ==
  <<Main(<<Let("p", New("FPAIR", <<Flt(3), Flt(-5)>>)), FW(Bin("LaneAccess", Id("p"), Num(1))),
           Assign(<<To("lane", <<Id("p"), Num(0)>>)>>, <<Flt(7)>>),
           FW(Bin("FAdd", Bin("LaneAccess", Id("p"), Num(0)), Bin("LaneAccess", Id("p"), Num(1))))>>)>>
Unpacked ==
  Each(LAMBDA n : <<Main(<<Unpack(SubSeq(<<"a", "b", "c", "d">>, 1, n), New(IF n = 2 THEN "PAIR" ELSE "QUAD", [j \in 1 .. n |-> Num(3 - 2 * j)]))>>
          \o [j \in 1 .. n |-> W(Id(<<"a", "b", "c", "d">>[j]))])>>, {2, 4})
BitsProgram(from, width, w) ==
  <<Main(<<Let("x", Num(-21555)), Let("k", Num(width)),
           W(Bits(Id("x"), Num(from), Num(width))), W(Bits(Id("x"), Num(from), Id("k"))),
           Assign(<<To("bits", <<Id("x"), Num(from), Num(width)>>)>>, <<Num(w)>>), W(Id("x")),
           Assign(<<To("bits", <<Id("x"), Num(from), Id("k")>>)>>, <<Num(2 - w)>>), W(Id("x"))>>)>>
PackPrograms ==
  Each(LAMBDA kind : PackProgram(kind, 0), DOMAIN PackOf)
  \o Each(LAMBDA kind : PackProgram(kind, Len(PackOf[kind]) - 1), DOMAIN PackOf)
  \o <<FloatPack>> \o Unpacked \o Each(LAMBDA c : BitsProgram(c[1], c[2], c[3]), {0, 3, 12} \X {1, 4} \X {0, 5})

(* Vectors, bytes and pointers *)
Elem(v, i) == Bin("Subscript", Id(v), i)
PutAt(op, v, i, e) == Assign(<<To(op, <<Id(v), i>>)>>, <<e>>)
VecProgram(make) ==
  <<Main(<<Let("v", make), PutAt("Subscript", "v", Num(1), Num(300)), W(Elem("v", Num(0))), W(Elem("v", Num(1))),
           PutAt("CharSubscript", "v", Num(2), Num(7)), W(Bin("CharSubscript", Id("v"), Num(2))), W(Elem("v", Num(1))),
           Assign(<<To("Indirection", <<Id("v")>>)>>, <<Num(-9)>>), Assign(<<To("CharIndirection", <<Id("v")>>)>>, <<Num(250)>>),
           W(Un("CharIndirection", Id("v"))), W(Un("Indirection", Id("v"))), W(Un("Len", Id("v"))),
           ForEach(<<"e">>, "", Id("v"), Block(<<If(Bin("Eq", Id("e"), Num(0)), Exit("loop")), W(Id("e"))>>)),
           Do(Un("FreeVec", Id("v"))), W(Num(1))>>)>>
FloatVec ==
  <<Main(<<Let("v", New("FVEC", <<Flt(3), Num(2), Flt(-1)>>)), FW(Bin("FloatSubscript", Id("v"), Num(1))),
           PutAt("FloatSubscript", "v", Num(2), Flt(9)), FW(Bin("FloatSubscript", Id("v"), Num(2))), W(Un("Len", Id("v")))>>)>>
PairVec ==
  <<Main(<<Let("v", New("VEC", <<New("PAIR", <<Num(1), Num(-2)>>), New("PAIR", <<Num(3), Num(4)>>)>>)),
           ForEach(<<"a", "b">>, "", Id("v"), Block(<<W(Id("b")), W(Id("a"))>>))>>)>>
Pointers ==
  <<Main(<<Let("x", Num(3)), Let("p", Un("AddressOf", Id("x"))), Assign(<<To("Indirection", <<Id("p")>>)>>, <<Num(8)>>),
           W(Id("x")), Inc("x"), W(Un("Indirection", Id("p")))>>)>>
VecPrograms ==
  <<VecProgram(New("VEC", <<Num(2)>>)), VecProgram(New("VEC", <<Num(4), Num(5), Num(0)>>)), VecProgram(New("TABLE", <<Num(4), Num(5)>>)),
   VecProgram(Call("GETVEC", <<Num(2)>>)), FloatVec, PairVec, Pointers>>

(* A vector, and the ways it leaves the activation that made it: the call,  *)
(* the result, a global, another vector, another name.                      *)
Made == New("VEC", <<Num(4), Num(5)>>)
Keeps(how) ==
  CASE how = "result" -> <<Let("v", Made), Resultis(Id("v"))>>
    [] how = "name" -> <<Let("v", Made), Let("w", Id("v")), Resultis(Id("w"))>>
    [] how = "choice" -> <<Let("v", Made), Let("w", Made), Resultis(Cond(Bin("Eq", Elem("v", Num(0)), Num(4)), Id("w"), Id("v")))>>
    [] how = "call" -> <<Let("v", Made), Resultis(Call("SAME", <<Id("v")>>))>>
    [] how = "global" -> <<Let("v", Made), Set("g", Id("v")), Resultis(Id("g"))>>
    [] how = "vector" -> <<Let("v", Made), Let("w", New("VEC", <<Id("v"), Num(0)>>)), Resultis(Elem("w", Num(0)))>>
    [] how = "stored" -> <<Let("w", Call("GETVEC", <<Num(1)>>)), Let("v", Made), PutAt("Subscript", "w", Num(0), Id("v")), Resultis(Elem("w", Num(0)))>>
    [] how = "pointer" -> <<Let("v", Made), Let("p", Un("AddressOf", Id("v"))), Resultis(Un("Indirection", Id("p")))>>
    [] how = "list" -> <<Let("v", Made), Let("l", New("LIST", <<Id("v")>>)), Resultis(Un("Hd", Id("l")))>>
    [] how = "assigned" -> <<Let("w", Num(0)), Let("v", Made), Set("w", Id("v")), Resultis(Id("w"))>>
    [] how = "element" -> <<Let("v", Made), Let("w", Call("GETVEC", <<Num(1)>>)), PutAt("Subscript", "w", Num(0), Elem("v", Num(1))),
                            PutAt("Subscript", "w", Num(1), Un("Len", Id("v"))), Resultis(Id("w"))>>
EscapeProgram(how) ==
  <<Global("g", Num(0)), Function("SAME", << <<"a", "">> >>, Id("a")),
    Function("MAKE", <<>>, Valof(Block(Keeps(how)))),
    Main(<<Let("a", Call("MAKE", <<>>)), Let("b", New("VEC", <<Num(1)>>)), W(Elem("a", Num(0))), W(Elem("a", Num(1))), W(Elem("b", Num(0)))>>)>>
EscapePrograms ==
  Each(EscapeProgram, {"result", "name", "choice", "call", "global", "vector", "stored", "pointer", "list", "assigned", "element"})

(* Lists *)
ListAt(k) == New("LIST", [j \in 1 .. k |-> Num(j)])
ListProgram(k) ==
  <<Main(<<Let("l", ListAt(k)), W(Un("Len", Id("l"))), Let("m", Call("CONCAT", <<Id("l"), New("LIST", <<Num(9)>>)>>)),
           Set("l", Call("APND", <<Id("l"), Num(7)>>)),
           ForEach(<<"e">>, "", Id("l"), Block(<<If(Bin("Eq", Id("e"), Num(2)), Exit("loop")), W(Id("e"))>>)),
           W(Un("Hd", Un("Tl", Id("l")))), W(Call("HD", <<Call("TL", <<Id("l")>>)>>)), W(Call("HD", <<Null>>)),
           Do(Un("FreeList", Id("l"))), Let("n", New("LIST", <<Num(6), Num(5)>>)),
           ForEach(<<"e">>, "", Id("n"), Block(<<W(Id("e"))>>)),
           ForEach(<<"e">>, "", Id("m"), Block(<<If(Bin("Eq", Id("e"), Num(2)), Exit("break")), W(Id("e"))>>))>>)>>
ListPrograms == Each(ListProgram, {1, 3})

(* Calls, globals, manifests *)
Factorial ==
  <<Function("FACT", << <<"n", "">> >>, Cond(Bin("Le", Id("n"), Num(1)), Num(1), Bin("Mul", Id("n"), Call("FACT", <<Bin("Sub", Id("n"), Num(1))>>)))),
    Main(<<W(Call("FACT", <<Num(4)>>))>>)>>
Halves ==
  <<Function("HALF", << <<"x", "FLOAT">> >>, Bin("FDiv", Id("x"), Flt(4))),
    Main(<<FW(Call("HALF", <<Flt(6)>>)), FLet("y", Call("HALF", <<Flt(12)>>)), FW(Bin("Add", Id("y"), Call("HALF", <<Flt(2)>>)))>>)>>
Shared ==
  <<Manifest("LIMIT", Num(3)), Global("count", Num(2)),
    Routine("BUMP", << <<"by", "">> >>, Block(<<Let("k", Num(0)), If(Bin("Gt", Id("count"), Id("LIMIT")), Exit("return")),
                                               Set("count", Bin("Add", Id("count"), Id("by"))), W(Id("count"))>>)),
    Main(<<Do(Call("BUMP", <<Num(1)>>)), Do(Call("BUMP", <<Num(4)>>)), Do(Call("BUMP", <<Num(1)>>)),
           Let("count", Id("LIMIT")), Do(Call("BUMP", <<Num(2)>>)), W(Id("count"))>>)>>
SwappedBy ==                                         \* through the places of the caller
  <<Routine("SWAP", << <<"p", "">>, <<"q", "">> >>,
            Block(<<Let("t", Un("Indirection", Id("p"))), Assign(<<To("Indirection", <<Id("p")>>)>>, <<Un("Indirection", Id("q"))>>),
                    Assign(<<To("Indirection", <<Id("q")>>)>>, <<Id("t")>>)>>)),
    Main(<<Let("a", Num(1)), Let("b", Num(2)), Do(Call("SWAP", <<Un("AddressOf", Id("a")), Un("AddressOf", Id("b"))>>)), W(Id("a")), W(Id("b"))>>)>>
CallPrograms == <<Factorial, Halves, Shared, SwappedBy>>

MCPrograms ==
  ForPrograms \o NestedPrograms \o LoopPrograms \o LoopToTest
  \o SwitchPrograms \o ChoicePrograms \o OperatorPrograms \o PackPrograms
  \o VecPrograms \o EscapePrograms \o ListPrograms \o CallPrograms

(* a, b := b, a *)
SwapPrograms ==
  <<<<Main(<<Let("a", Num(1)), Let("b", Num(2)), Assign(<<ToName("a"), ToName("b")>>, <<Id("b"), Id("a")>>), W(Id("a")), W(Id("b"))>>)>>>>
=============================================================================
