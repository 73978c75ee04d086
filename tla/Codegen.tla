------------------------------- MODULE Codegen -------------------------------
(***************************************************************************)
(* How the lowerer (newbcpl-ir/lower.rs) turns a hinted tree into IR: the  *)
(* loops, conditionals, assignments and expressions.  Scoped blocks, USING *)
(* and the exits that cross them are in ScopeLowering.                     *)
(*                                                                         *)
(* A function's code is one sequence of instructions in which "block"      *)
(* starts a basic block.  Step says what is emitted before a node's first  *)
(* child (i = 0) and after its child i, and which child comes next; the    *)
(* values of children already lowered are on the builder's stack vs, the   *)
(* blocks and slots an open construct needs on the stack marks.            *)
(***************************************************************************)
EXTENDS Hints, Words

V(id) == <<"v", id>>                               \* Value::Local
IntC(v) == <<"int", v>>                            \* Const::Int
Instr(op, hint, args, x) == [op |-> op, hint |-> hint, args |-> args, x |-> x, dst |-> -1]
Alloca(hint) == Instr("alloca", hint, <<>>, 0)
LoadSlot(slot, hint) == Instr("load", hint, <<>>, slot)
Store(slot, v) == Instr("store", "Word", <<v>>, slot)
BinOp(op, l, r) == Instr("bin", "Int", <<l, r>>, op)
CallRt(name, args) == Instr("call", "Int", args, name)
Gep(base, index, bytes) == Instr("gep", "Word", <<base, index>>, bytes)
ILoad(addr, hint, width) == Instr("iload", hint, <<addr>>, width)
IStore(addr, v, width) == Instr("istore", "Word", <<addr, v>>, width)

(***************************************************************************)
(* The function builder                                                    *)
(***************************************************************************)
NoSlot == -1
Defining == {"param", "alloca", "load", "bin", "un", "call", "gep", "iload", "gload", "extract", "insert", "new"}
NewBuilder(sema, hint, escaping) ==
  [code |-> <<>>, next_value |-> 0, next_block |-> 1, scopes |-> << <<>> >>, frames |-> <<>>,
   valofs |-> <<>>, vs |-> <<>>, marks |-> <<>>, return_hint |-> hint, escaping |-> escaping, arena |-> NoSlot,
   manifests |-> sema.manifests, globals |-> DOMAIN sema.globals]

emit(b, i) ==
  IF i.op \in Defining
  THEN [b EXCEPT !.code = Append(@, [i EXCEPT !.dst = b.next_value]), !.next_value = @ + 1]
  ELSE [b EXCEPT !.code = Append(@, i)]
Emits(b, is) == FoldLeft(emit, b, is)
Push(b, v) == [b EXCEPT !.vs = Append(@, v)]
PopN(b, n) == [b EXCEPT !.vs = SubSeq(@, 1, Len(@) - n)]
Nth(b, n) == b.vs[Len(b.vs) - n]                   \* 0 is the value lowered last
Args(b, n) == SubSeq(b.vs, Len(b.vs) - n + 1, Len(b.vs))
(* n operands give way to the value of the last of the instructions. *)
Result(b, n, is) == Push(Emits(PopN(b, n), is), V(b.next_value + Len(is) - 1))

enter_scope(b) == [b EXCEPT !.scopes = Append(@, <<>>)]
leave_scope(b) == [b EXCEPT !.scopes = Front(@)]
declare_local(b, name, slot) == [b EXCEPT !.scopes[Len(b.scopes)] = (name :> slot) @@ @]
lookup_local_slot(b, name) ==
  LET binding == {i \in DOMAIN b.scopes : name \in DOMAIN b.scopes[i]}
  IN  IF binding = {} THEN NoSlot
      ELSE b.scopes[CHOOSE i \in binding : \A j \in binding : j <= i][name]
(* The value lowered last moves into a new slot, which the name then denotes.*)
Bind(b, name, hint) ==
  declare_local(Emits(PopN(b, 1), <<Alloca(hint), Store(b.next_value, Nth(b, 0))>>), name, b.next_value)

Terminators == {"br", "condbr", "switch", "ret"}
current_open(b) == b.code = <<>> \/ Last(b.code).op \notin Terminators
terminate(b, op, args, to) == emit(b, Instr(op, "Word", args, to))
switch_to(b, id) == emit(b, Instr("block", "Word", <<>>, id))
Dead(b) == switch_to([b EXCEPT !.next_block = @ + 1], b.next_block)

(* An open construct's blocks are numbered from its mark. *)
Reserve(b, n) ==
  [b EXCEPT !.marks = Append(@, [base |-> b.next_block, slot |-> NoSlot]), !.next_block = @ + n]
Keep(b, slot) == [b EXCEPT !.marks[Len(b.marks)].slot = slot]
Kept(b) == Last(b.marks).slot
M(b, j) == Last(b.marks).base + j
Close(b) == [b EXCEPT !.marks = Front(@)]
Jump(b, to) == IF current_open(b) THEN terminate(b, "br", <<>>, M(b, to)) ELSE b
JumpTo(b, to, next) == switch_to(Jump(b, to), M(b, next))
Split(b, then, else, next) ==
  switch_to(terminate(PopN(b, 1), "condbr", <<Nth(b, 0)>>, <<M(b, then), M(b, else)>>), M(b, next))

push_frame(b, brk, cont) ==                        \* cont < 0: nothing here for LOOP to continue
  [b EXCEPT !.frames = Append(@, [brk |-> M(b, brk), cont |-> IF cont < 0 THEN NoSlot ELSE M(b, cont)])]
pop_frame(b) == [b EXCEPT !.frames = Front(@)]
innermost_continue_frame(b) ==
  LET loops == {i \in DOMAIN b.frames : b.frames[i].cont # NoSlot}
  IN  b.frames[CHOOSE i \in loops : \A j \in loops : j <= i]

Go(i, b) == [next |-> i, b |-> b]
Done(b) == [next |-> 0, b |-> b]

----------------------------------------------------------------------------
(* Control *)

lower_if(n, i, b) ==
  CASE i = 0 -> Go(1, b)
    [] i = 1 -> Go(2, Split(Reserve(b, 3), 0, 1, 0))
    [] i = 2 /\ Len(n.c) = 3 -> Go(3, JumpTo(b, 2, 1))
    [] i = 2 /\ Len(n.c) = 2 -> Done(Close(JumpTo(JumpTo(b, 2, 1), 2, 2)))
    [] i = 3 -> Done(Close(JumpTo(b, 2, 2)))

lower_unless(n, i, b) ==
  CASE i = 0 -> Go(1, b)
    [] i = 1 -> Go(2, Split(Reserve(b, 2), 1, 0, 0))
    [] i = 2 -> Done(Close(JumpTo(b, 1, 1)))

(* header, body, end *)
lower_while(n, i, b) ==
  CASE i = 0 -> Go(1, JumpTo(Reserve(b, 3), 0, 0))
    [] i = 1 -> Go(2, push_frame(IF n.k = "while" THEN Split(b, 1, 2, 1) ELSE Split(b, 2, 1, 1), 2, 0))
    [] i = 2 -> Done(Close(JumpTo(pop_frame(b), 0, 2)))

(* body, end *)
lower_repeat_forever(n, i, b) ==
  IF i = 0 THEN Go(1, push_frame(JumpTo(Reserve(b, 2), 0, 0), 1, 0))
  ELSE Done(Close(JumpTo(pop_frame(b), 0, 1)))

(* body, test, end *)
RepeatLoopsToBody(n, i, b) ==
  CASE i = 0 -> Go(1, push_frame(JumpTo(Reserve(b, 3), 0, 0), 2, 0))
    [] i = 1 -> Go(2, JumpTo(pop_frame(b), 1, 1))
    [] i = 2 -> Done(Close(IF n.k = "repeatwhile" THEN Split(b, 0, 2, 2) ELSE Split(b, 2, 0, 2)))
lower_repeat_with_cond(n, i, b) ==
  CASE i = 0 -> Go(1, push_frame(JumpTo(Reserve(b, 3), 0, 0), 2, 1))
    [] i = 1 -> Go(2, JumpTo(pop_frame(b), 1, 1))
    [] i = 2 -> Done(Close(IF n.k = "repeatwhile" THEN Split(b, 0, 2, 2) ELSE Split(b, 2, 0, 2)))

(* header, body, incr, end.  The limit is lowered in the header and the     *)
(* step in incr, so both are evaluated anew on every turn.                  *)
step_is_negative_literal(n) ==
  Len(n.c) = 4 /\ \/ n.c[3].k = "int" /\ n.c[3].x < 0
                  \/ n.c[3].k = "un" /\ n.c[3].x = "Neg" /\ n.c[3].c[1].k = "int" /\ n.c[3].c[1].x > 0
ForStart(n, b) ==
  LET entry == Bind(enter_scope(b), n.x, "Int")
      slot == lookup_local_slot(entry, n.x)
  IN  Result(JumpTo(Keep(Reserve(entry, 4), slot), 0, 0), 0, <<LoadSlot(slot, "Int")>>)
ForLoopsToTest(n, b) ==
  push_frame(Split(Result(b, 2, <<BinOp("ICmpLe", Nth(b, 1), Nth(b, 0))>>), 1, 3, 1), 3, 0)
ForTest(n, b) ==
  LET op == IF step_is_negative_literal(n) THEN "ICmpGe" ELSE "ICmpLe"
  IN  push_frame(Split(Result(b, 2, <<BinOp(op, Nth(b, 1), Nth(b, 0))>>), 1, 3, 1), 3, 2)
ForIncr(b) == Result(JumpTo(pop_frame(b), 2, 2), 0, <<LoadSlot(Kept(b), "Int")>>)
ForNext(b) ==
  LET added == Emits(PopN(b, 2), <<BinOp("IAdd", Nth(b, 1), Nth(b, 0)), Store(Kept(b), V(b.next_value))>>)
  IN  Close(leave_scope(JumpTo(added, 0, 3)))
lower_for(n, i, b) ==
  CASE i = 0 -> Go(1, b)
    [] i = 1 -> Go(2, ForStart(n, b))
    [] i = 2 -> Go(Len(n.c), ForTest(n, b))
    [] i = Len(n.c) -> IF Len(n.c) = 4 THEN Go(3, ForIncr(b)) ELSE Done(ForNext(Push(ForIncr(b), IntC(1))))
    [] OTHER -> Done(ForNext(b))

(***************************************************************************)
(* FOREACH over a vector keeps the vector, its length and an index; over a *)
(* list it keeps a cursor.  LOOP goes on to the next element.              *)
(***************************************************************************)
UnpackLane(b, name, low, pad) ==
  LET v == Nth(b, 0)
      pulled == IF pad = 0 THEN <<BinOp("Shr", v, IntC(low))>>
                ELSE <<BinOp("Shl", v, IntC(pad)), BinOp("Shr", V(b.next_value), IntC(pad + low))>>
  IN  Bind(Result(b, 0, pulled), name, "Word")
unpack_lanes(b, names) ==                          \* WordBits \div Len(names) bits each
  LET bits == WordBits \div Len(names)
  IN  PopN(FoldLeftDomain(LAMBDA st, i : UnpackLane(st, names[i], bits * (i - 1), WordBits - bits * i), b, names), 1)
BindElement(b, names) == IF Len(names) = 1 THEN Bind(b, names[1], "Word") ELSE unpack_lanes(b, names)

VecCursor(b) ==                                    \* slot; the vector, its length; slot + 3: the index
  LET slot == b.next_value
      open == Emits(PopN(b, 1), <<Alloca("Vec"), Store(slot, Nth(b, 0)), LoadSlot(slot, "Vec"),
                                  CallRt("__newbcpl_len", <<V(slot + 1)>>), Alloca("Int"), Store(slot + 3, IntC(0))>>)
  IN  Result(JumpTo(Keep(Reserve(open, 4), slot), 0, 0), 0,
             <<LoadSlot(slot + 3, "Int"), BinOp("ICmpLt", V(slot + 4), V(slot + 2))>>)
VecElement(b) ==
  LET v == b.next_value
  IN  Result(b, 0, <<LoadSlot(Kept(b), "Vec"), LoadSlot(Kept(b) + 3, "Int"),
                     Gep(V(v), V(v + 1), "word"), ILoad(V(v + 2), "Word", "word")>>)
VecAdvance(b) ==
  LET v == b.next_value
  IN  Emits(b, <<LoadSlot(Kept(b) + 3, "Int"), BinOp("IAdd", V(v), IntC(1)), Store(Kept(b) + 3, V(v + 1))>>)

ListCursor(b) ==
  LET slot == b.next_value
      open == Emits(PopN(b, 1), <<Alloca("List"), Store(slot, Nth(b, 0))>>)
  IN  Result(JumpTo(Keep(Reserve(open, 4), slot), 0, 0), 0,
             <<LoadSlot(slot, "List"), BinOp("ICmpNe", V(slot + 1), IntC(0))>>)
ListField(b, index, hint) ==
  LET v == b.next_value
  IN  Result(b, 0, <<LoadSlot(Kept(b), "List"), Gep(V(v), IntC(index), "word"), ILoad(V(v + 1), hint, "word")>>)
ListAdvance(b) ==
  LET v == b.next_value
  IN  Emits(b, <<LoadSlot(Kept(b), "List"), Gep(V(v), IntC(1), "word"), ILoad(V(v + 1), "List", "word"),
                 Store(Kept(b), V(v + 2))>>)

(* header, body, incr, end *)
ForEachBody(n, b) == push_frame(BindElement(b, n.x.names), 3, 2)
ForEachNext(n, b) ==
  IF n.c[1].h = "List" THEN ListAdvance(JumpTo(b, 2, 2)) ELSE VecAdvance(JumpTo(b, 2, 2))
lower_foreach(n, i, b) ==
  CASE i = 0 -> Go(1, b)
    [] i = 1 /\ n.c[1].h # "List" ->
         Go(2, ForEachBody(n, VecElement(enter_scope(Split(VecCursor(b), 1, 3, 1)))))
    [] i = 1 /\ n.c[1].h = "List" ->
         Go(2, ForEachBody(n, ListField(enter_scope(Split(ListCursor(b), 1, 3, 1)), 0, "Word")))
    [] i = 2 -> Done(Close(JumpTo(ForEachNext(n, leave_scope(pop_frame(b))), 0, 3)))

(* One block per case, default, end.  A case that does not leave falls      *)
(* through to the next one; LOOP passes a SWITCHON by.                      *)
lower_switchon(n, i, b) ==
  LET k == Len(n.x)
      Table(st) == UNION {{<<v, M(st, j - 1)>> : v \in ToSet(n.x[j])} : j \in DOMAIN n.x}
      Dispatch(st) == terminate(PopN(st, 1), "switch", <<Nth(st, 0)>>, [cases |-> Table(st), default |-> M(st, k)])
      Cases(st) == push_frame(switch_to(Dispatch(st), M(st, 0)), k + 1, -1)
  IN  CASE i = 0 -> Go(1, b)
        [] i = 1 -> Go(2, Cases(Reserve(b, k + 2)))
        [] i \in 2 .. k + 1 -> Go(i + 1, JumpTo(b, i - 1, i - 1))
        [] i = k + 2 -> Done(Close(pop_frame(JumpTo(b, k + 1, k + 1))))

----------------------------------------------------------------------------
(* Statements *)

lower_block(n, i, b) ==
  CASE i = 0 -> IF n.c = <<>> THEN Done(b) ELSE Go(1, enter_scope(b))
    [] i \in 1 .. Len(n.c) - 1 -> Go(i + 1, b)
    [] OTHER -> Done(leave_scope(b))

is_vector_kind == {"VEC", "FVEC", "TABLE", "FTABLE"}
InArena(b) == [b EXCEPT !.code[Len(b.code)].x.target = "Arena"]
LetInArena(n, b) ==                                \* whatever becomes of it
  Bind(IF n.c[1].k = "new" /\ n.c[1].x \in is_vector_kind THEN InArena(b) ELSE b, n.x.name, n.c[1].h)
lower_let_stmt(n, b) ==
  LET init == n.c[1]
      placed == IF init.k = "new" /\ init.x \in is_vector_kind /\ n.x.name \notin b.escaping THEN InArena(b) ELSE b
      floats == n.x.kind = "FLET" /\ init.h \in {"Int", "Word", "Unknown"}
  IN  Bind(placed, n.x.name, IF floats THEN "Float" ELSE init.h)

StoreName(b, name, v) ==
  IF lookup_local_slot(b, name) # NoSlot THEN emit(b, Store(lookup_local_slot(b, name), v))
  ELSE IF name \in b.globals THEN emit(b, Instr("gstore", "Word", <<v>>, name)) ELSE b
(* A changed pack is written back to a local; to nothing else here. *)
write_back_simd_lvalue(b, place, v) ==
  IF place.k = "id" /\ lookup_local_slot(b, place.x) # NoSlot
  THEN emit(b, Store(lookup_local_slot(b, place.x), v)) ELSE b

subscript_stride == [Subscript |-> "word", CharSubscript |-> "byte", FloatSubscript |-> "word"]
subscript_hint == [Subscript |-> "Word", CharSubscript |-> "Int", FloatSubscript |-> "Float"]
MaskOf(w) == 2 ^ (IF w < 0 THEN 0 ELSE IF w > WordBits - 1 THEN WordBits - 1 ELSE w) - 1
compute_bitfield_mask(b, width) ==                 \* a width that is no literal is on the stack
  IF width.k = "int" THEN Push(b, IntC(MaskOf(width.x)))
  ELSE Result(b, 1, <<BinOp("Shl", IntC(1), Nth(b, 0)), BinOp("ISub", V(b.next_value), IntC(1))>>)
lower_bitfield_write(b, place) ==                  \* value, old, start, mask
  LET v == b.next_value
      is == <<BinOp("Shl", Nth(b, 0), Nth(b, 1)), BinOp("BitXor", V(v), IntC(-1)),
              BinOp("BitAnd", Nth(b, 2), V(v + 1)), BinOp("BitAnd", Nth(b, 3), Nth(b, 0)),
              BinOp("Shl", V(v + 3), Nth(b, 1)), BinOp("BitOr", V(v + 2), V(v + 4))>>
  IN  write_back_simd_lvalue(PopN(Emits(b, is), 4), place, V(v + 5))
lower_bitfield_read(b) ==                          \* old, start, mask
  Result(b, 3, <<BinOp("Shr", Nth(b, 2), Nth(b, 1)), BinOp("BitAnd", V(b.next_value), Nth(b, 0))>>)

Packed == {"Pair", "FPair", "Quad", "Oct"}
simd_kind_from_hint(h) == IF h \in Packed THEN h ELSE "Pair"

StoreTo(n, b) ==                                   \* the value, then what the place is made of
  LET v == b.next_value
  IN  CASE n.x = "id" -> PopN(StoreName(b, n.c[1].x, Nth(b, 0)), 1)
        [] n.x \in DOMAIN subscript_stride ->
             PopN(Emits(b, <<Gep(Nth(b, 1), Nth(b, 0), subscript_stride[n.x]),
                             IStore(V(v), Nth(b, 2), subscript_stride[n.x])>>), 3)
        [] n.x = "Indirection" -> PopN(emit(b, IStore(Nth(b, 0), Nth(b, 1), "word")), 2)
        [] n.x = "CharIndirection" -> PopN(emit(b, IStore(Nth(b, 0), Nth(b, 1), "byte")), 2)
        [] n.x = "bits" -> lower_bitfield_write(compute_bitfield_mask(b, n.c[3]), n.c[1])
        [] n.x = "lane" ->
             write_back_simd_lvalue(
               PopN(emit(b, Instr("insert", "Word", Args(b, 3), simd_kind_from_hint(n.c[1].h))), 3), n.c[1], V(v))
Visited(n) ==                                      \* how many children of a place are lowered
  CASE n.x = "id" -> 0 [] n.x = "bits" -> IF n.c[3].k = "int" THEN 2 ELSE 3 [] OTHER -> Len(n.c)
LowerPlace(n, i, b) == IF i < Visited(n) THEN Go(i + 1, b) ELSE Done(StoreTo(n, b))

(* Targets and values in pairs: a value is stored before the next is computed. *)
lower_assign(n, i, b) ==
  CASE i = 0 -> Go(n.x + 1, b)
    [] i > n.x -> Go(i - n.x, b)
    [] i \in 1 .. n.x - 1 -> Go(n.x + i + 1, b)
    [] OTHER -> Done(b)

ReturnLeavesArena(b, args) == terminate(b, "ret", args, 0)
terminate_return(b, args) ==                       \* no value at all: 0
  LET v == b.next_value
  IN  terminate(Emits(b, <<LoadSlot(b.arena, "Word"), CallRt("bcpl_arena_free", <<V(v)>>)>>), "ret", args, 0)
lower_resultis(b) ==
  IF b.valofs # <<>>
  THEN Dead(terminate(PopN(emit(b, Store(Last(b.valofs).slot, Nth(b, 0))), 1), "br", <<>>, Last(b.valofs).exit))
  ELSE Dead(terminate_return(PopN(b, 1), <<Nth(b, 0)>>))
lower_return(b) == Dead(terminate_return(b, IF b.return_hint = "Word" THEN <<>> ELSE <<IntC(0)>>))
lower_break(b) ==                                  \* BREAK and ENDCASE
  IF b.frames = <<>> THEN b ELSE Dead(terminate(b, "br", <<>>, Last(b.frames).brk))
lower_loop(b) ==
  IF \A i \in DOMAIN b.frames : b.frames[i].cont = NoSlot THEN b
  ELSE Dead(terminate(b, "br", <<>>, innermost_continue_frame(b).cont))

----------------------------------------------------------------------------
(* Expressions *)

LowerChildren(n, i, b, finish) == IF i < Len(n.c) THEN Go(i + 1, b) ELSE Done(finish)

lower_ident(n, b) ==
  CASE lookup_local_slot(b, n.x) # NoSlot -> Result(b, 0, <<LoadSlot(lookup_local_slot(b, n.x), n.h)>>)
    [] lookup_local_slot(b, n.x) = NoSlot /\ n.x \in DOMAIN b.manifests -> Push(b, IntC(b.manifests[n.x]))
    [] lookup_local_slot(b, n.x) = NoSlot /\ n.x \notin DOMAIN b.manifests /\ n.x \in b.globals ->
         Result(b, 0, <<Instr("gload", n.h, <<>>, n.x)>>)
    [] OTHER -> Push(b, <<"fn", n.x>>)

binop_to_ir(op, lhs, rhs) ==
  LET floats == is_float_family(lhs) /\ is_float_family(rhs)
      arithmetic == [Add |-> "Add", Sub |-> "Sub", Mul |-> "Mul", Div |-> "Div"]
      compare == [Eq |-> "CmpEq", Ne |-> "CmpNe", Lt |-> "CmpLt", Le |-> "CmpLe", Gt |-> "CmpGt", Ge |-> "CmpGe"]
      float == [FAdd |-> "FAdd", FSub |-> "FSub", FMul |-> "FMul", FDiv |-> "FDiv", FEq |-> "FCmpEq",
                FNe |-> "FCmpNe", FLt |-> "FCmpLt", FLe |-> "FCmpLe", FGt |-> "FCmpGt", FGe |-> "FCmpGe"]
      integer == [Rem |-> "IRem", Eqv |-> "ICmpEq", Neqv |-> "BitXor"]
  IN  CASE op \in DOMAIN arithmetic -> (IF floats THEN "F" ELSE "I") \o arithmetic[op]
        [] op \in DOMAIN compare -> (IF floats THEN "F" ELSE "I") \o compare[op]
        [] op \in DOMAIN float -> float[op]
        [] op \in DOMAIN integer -> integer[op]
        [] OTHER -> op                             \* BitAnd BitOr BitXor Shl Shr
logical == [LogAnd |-> "BitAnd", LogOr |-> "BitOr", LogXor |-> "BitXor"]

(* Both operands of AND, OR and XOR are evaluated. *)
BinaryResult(n, b) ==
  LET v == b.next_value
  IN  CASE n.x = "LaneAccess" -> Result(b, 2, <<Instr("extract", n.h, Args(b, 2), simd_kind_from_hint(n.c[1].h))>>)
        [] n.x \in DOMAIN subscript_stride ->
             Result(b, 2, <<Gep(Nth(b, 1), Nth(b, 0), subscript_stride[n.x]),
                            ILoad(V(v), subscript_hint[n.x], subscript_stride[n.x])>>)
        [] n.x \in DOMAIN logical ->
             Result(b, 2, <<BinOp("ICmpNe", Nth(b, 1), IntC(0)), BinOp("ICmpNe", Nth(b, 0), IntC(0)),
                            BinOp(logical[n.x], V(v), V(v + 1))>>)
        [] OTHER -> Result(b, 2, <<BinOp(binop_to_ir(n.x, n.c[1].h, n.c[2].h), Nth(b, 1), Nth(b, 0))>>)
lower_binary(n, i, b) == LowerChildren(n, i, b, BinaryResult(n, b))

ConsField(b, index, hint) ==                       \* inline_cons_load
  Result(b, 1, <<Gep(Nth(b, 0), IntC(index), "word"), ILoad(V(b.next_value), hint, "word")>>)
UnaryResult(n, b) ==
  CASE n.x = "Hd" -> ConsField(b, 0, IF n.h = "Float" THEN "Float" ELSE "Word")
    [] n.x \in {"Tl", "Rest"} -> ConsField(b, 1, "List")
    [] n.x = "Len" ->
         Result(b, 1, <<CallRt(IF n.c[1].h = "List" THEN "__newbcpl_cons_len" ELSE "__newbcpl_len", Args(b, 1))>>)
    [] n.x = "FreeVec" -> Result(b, 1, <<CallRt("__newbcpl_freevec", Args(b, 1))>>)
    [] n.x = "FreeList" -> Result(b, 1, <<CallRt("__newbcpl_freelist", Args(b, 1))>>)
    [] n.x = "Indirection" -> Result(b, 1, <<ILoad(Nth(b, 0), "Word", "word")>>)
    [] n.x = "CharIndirection" -> Result(b, 1, <<ILoad(Nth(b, 0), "Int", "byte")>>)
    [] n.x = "LogNot" -> Result(b, 1, <<BinOp("ICmpEq", Nth(b, 0), IntC(0))>>)
    [] n.x = "Neg" -> Result(b, 1, <<Instr("un", n.h, Args(b, 1), IF is_float_family(n.c[1].h) THEN "FNeg" ELSE "INeg")>>)
    [] n.x = "Not" -> Result(b, 1, <<Instr("un", n.h, Args(b, 1), "Not")>>)
AddressOf(e, b) ==                                 \* the slot itself
  Push(b, IF e.k = "id" /\ lookup_local_slot(b, e.x) # NoSlot THEN V(lookup_local_slot(b, e.x)) ELSE IntC(0))
lower_unary(n, i, b) ==
  IF n.x = "AddressOf" THEN Done(AddressOf(n.c[1], b)) ELSE LowerChildren(n, i, b, UnaryResult(n, b))

lower_call(n, i, b) ==
  IF n.x \in {"AS_INT", "AS_FLOAT", "AS_STRING"} THEN IF i = 0 THEN Go(1, b) ELSE Done(b)
  ELSE LowerChildren(n, i, b, Result(b, Len(n.c), <<Instr("call", n.h, Args(b, Len(n.c)), n.x)>>))
lower_typed_construct(n, i, b) ==
  LowerChildren(n, i, b, Result(b, Len(n.c), <<Instr("new", n.h, Args(b, Len(n.c)), [kind |-> n.x, target |-> "Heap"])>>))

LowerBits(n, i, b) ==
  IF i < (IF n.c[3].k = "int" THEN 2 ELSE 3) THEN Go(i + 1, b)
  ELSE Done(lower_bitfield_read(compute_bitfield_mask(b, n.c[3])))

(* One slot takes the value of whichever branch, or RESULTIS, is reached. *)
TakeBranch(b) == PopN(emit(b, Store(Kept(b), Nth(b, 0))), 1)
lower_conditional(n, i, b) ==
  CASE i = 0 -> Go(1, emit(Keep(Reserve(b, 0), b.next_value), Alloca(n.h)))
    [] i = 1 -> Go(2, Split(Keep(Reserve(Close(b), 3), Kept(b)), 0, 1, 0))
    [] i = 2 -> Go(3, JumpTo(TakeBranch(b), 2, 1))
    [] i = 3 -> LET merged == JumpTo(TakeBranch(b), 2, 2)
                IN  Done(Result(Close(merged), 0, <<LoadSlot(Kept(merged), n.h)>>))

lower_valof(n, i, b) ==
  IF i = 0
  THEN LET open == emit(Keep(Reserve(b, 1), b.next_value), Alloca(n.h))
       IN  Go(1, [open EXCEPT !.valofs = Append(@, [slot |-> b.next_value, exit |-> b.next_block])])
  ELSE LET shut == [JumpTo(b, 0, 0) EXCEPT !.valofs = Front(@)]
       IN  Done(Result(Close(shut), 0, <<LoadSlot(Kept(shut), n.h)>>))

----------------------------------------------------------------------------
(* lower_stmt and lower_expr *)

Sequence(n, i, b) == IF i < Len(n.c) THEN Go(i + 1, b) ELSE Done(b)
Step(n, i, b) ==
  CASE n.k \in {"int", "flt", "bool"} -> Done(Push(b, <<n.k, n.x>>))
    [] n.k = "null" -> Done(Push(b, IntC(0)))
    [] n.k = "id" -> Done(lower_ident(n, b))
    [] n.k = "call" -> lower_call(n, i, b)
    [] n.k = "un" -> lower_unary(n, i, b)
    [] n.k = "bin" -> lower_binary(n, i, b)
    [] n.k = "bits" -> LowerBits(n, i, b)
    [] n.k = "cond" -> lower_conditional(n, i, b)
    [] n.k = "valof" -> lower_valof(n, i, b)
    [] n.k = "new" -> lower_typed_construct(n, i, b)
    [] n.k = "block" -> lower_block(n, i, b)
    [] n.k = "stmts" -> Sequence(n, i, b)
    [] n.k = "let" -> IF i = 0 THEN Go(1, b) ELSE Done(lower_let_stmt(n, b))
    [] n.k = "unpack" -> IF i = 0 THEN Go(1, b) ELSE Done(unpack_lanes(b, n.x))
    [] n.k = "to" -> LowerPlace(n, i, b)
    [] n.k = "assign" -> lower_assign(n, i, b)
    [] n.k = "do" -> IF i = 0 THEN Go(1, b) ELSE Done(PopN(b, 1))
    [] n.k = "if" -> lower_if(n, i, b)
    [] n.k = "unless" -> lower_unless(n, i, b)
    [] n.k \in {"while", "until"} -> lower_while(n, i, b)
    [] n.k = "repeat" -> lower_repeat_forever(n, i, b)
    [] n.k \in {"repeatwhile", "repeatuntil"} -> lower_repeat_with_cond(n, i, b)
    [] n.k = "for" -> lower_for(n, i, b)
    [] n.k = "foreach" -> lower_foreach(n, i, b)
    [] n.k = "switch" -> lower_switchon(n, i, b)
    [] n.k = "resultis" -> IF i = 0 THEN Go(1, b) ELSE Done(lower_resultis(b))
    [] n.k = "return" -> Done(lower_return(b))
    [] n.k \in {"break", "endcase"} -> Done(lower_break(b))
    [] n.k = "loop" -> Done(lower_loop(b))
RECURSIVE Lower(_, _)
Lower(n, r) ==
  IF r.next = 0 THEN r.b
  ELSE Lower(n, Step(n, r.next, Lower(n.c[r.next], Step(n.c[r.next], 0, r.b))))

(***************************************************************************)
(* Which locals a vector bound to them may outlive: those named where the  *)
(* value itself goes somewhere (esc_value), or whose address is taken      *)
(* (esc_addr), and not only where something is reached through them        *)
(* (esc_base).                                                             *)
(***************************************************************************)
Through == {"Indirection", "CharIndirection", "Hd", "Tl", "Rest", "Len", "FreeVec", "FreeList"}
esc_is_through_base == DOMAIN subscript_stride \cup {"LaneAccess"}
EscHow(how, n, i) ==
  CASE n.k = "bin" /\ n.x \in esc_is_through_base /\ i = 1 -> IF how = "addr" THEN "addr" ELSE "base"
    [] n.k = "bits" /\ i < 3 -> IF how = "addr" /\ i = 1 THEN "addr" ELSE "base"
    [] n.k = "un" /\ n.x = "AddressOf" -> "addr"
    [] n.k = "un" /\ n.x \in Through ->
         IF how = "addr" /\ n.x \in {"Indirection", "CharIndirection"} THEN "value" ELSE "base"
    [] n.k = "to" /\ i = 1 -> "base"
    [] n.k = "to" /\ n.x = "bits" /\ i = 2 -> "base"
    [] OTHER -> "value"
RECURSIVE Escaping(_, _)
Escaping(how, n) ==
  IF n.k = "id" THEN IF how = "base" THEN {} ELSE {n.x}
  ELSE UNION {Escaping(EscHow(how, n, i), n.c[i]) : i \in DOMAIN n.c}

(* Parameters arrive as words, whatever they are used as. *)
BindParams(b, params) ==
  FoldLeftDomain(LAMBDA st, i : Bind(Result(st, 0, <<Instr("param", "Word", <<>>, i)>>), params[i][1], "Word"), b, params)
enter_function_arena(b) ==
  [Emits(b, <<CallRt("bcpl_arena_enter", <<>>), Alloca("Word"), Store(b.next_value + 1, V(b.next_value))>>)
     EXCEPT !.arena = b.next_value + 1]
start_function(sema, decl) ==
  enter_function_arena(BindParams(NewBuilder(sema, IF decl.k = "function" THEN decl.c[1].h ELSE "Word",
                                             Escaping("value", decl.c[1])), decl.x.params))
LowerBody(decl, b) == Lower(decl.c[1], Step(decl.c[1], 0, b))
lower_function(sema, decl) ==
  LET b == LowerBody(decl, start_function(sema, decl)) IN terminate_return(b, <<Nth(b, 0)>>)
lower_routine(sema, decl) ==
  LET b == LowerBody(decl, start_function(sema, decl))
  IN  IF current_open(b) THEN terminate_return(b, <<>>) ELSE b

LowerDecl(sema, decl) == IF decl.k = "function" THEN lower_function(sema, decl) ELSE lower_routine(sema, decl)
lower(r) ==                                        \* r: what analyze_program returned
  LET code == {d \in ToSet(r.tree.c) : d.k \in {"function", "routine"}}
      named(f) == CHOOSE d \in code : d.x.name = f
  IN  [functions |-> [f \in {d.x.name : d \in code} |-> LowerDecl(r.self, named(f))], globals |-> r.self.globals]
=============================================================================
