------------------------------- MODULE Machine -------------------------------
(***************************************************************************)
(* Compiled programs at run time: each IR instruction does what the code   *)
(* emit.rs (newbcpl-llvm) emits for it does, with the run-time builtins it *)
(* calls.  Programs are compiled as in Hints and Codegen.                  *)
(*                                                                         *)
(* A value is typed as in LLVM: <<"i", word>>, <<"f", halves>> or          *)
(* <<"p", address>>.  Memory is a sequence of words holding bits; the word *)
(* at address a is cell a / WordBytes.  Cells are never reused, except the *)
(* pooled ones of lists, so that an access to memory given back shows.     *)
(***************************************************************************)
EXTENDS Codegen, FiniteSets

(***************************************************************************)
(* A function as the emitter takes it: blocks in the order they were       *)
(* numbered, whatever the order they were filled in; every value must be   *)
(* in value_map when its use is emitted.                                   *)
(***************************************************************************)
PlaceNext(r, i) ==                                 \* which block instruction i is in
  IF i.op = "block" THEN [at |-> i.x, places |-> Append(r.places, i.x)]
  ELSE [at |-> r.at, places |-> Append(r.places, r.at)]
Places(code) == FoldLeft(PlaceNext, [at |-> 0, places |-> <<>>], code).places
SlotsUsed(i) == IF i.op \in {"load", "store"} THEN {i.x} ELSE {}
ValuesUsed(i) == {a[2] : a \in {a \in ToSet(i.args) : a[1] = "v"}} \cup SlotsUsed(i)
EmittedBefore(places, i, j) == places[i] < places[j] \/ (places[i] = places[j] /\ i < j)
Emittable(code, places, defined) ==
  \A j \in DOMAIN code : \A v \in ValuesUsed(code[j]) : EmittedBefore(places, defined[v], j)
IndexBy(code, ops, Key(_)) ==                      \* where each of them is
  FoldLeftDomain(LAMBDA at, j : IF code[j].op \in ops THEN (Key(code[j]) :> j) @@ at ELSE at, <<>>, code)
DefinedAt(code) == IndexBy(code, Defining, LAMBDA i : i.dst)
BlockAt(code) == IndexBy(code, {"block"}, LAMBDA i : i.x)      \* block_map
slot_hint(code) ==
  FoldLeft(LAMBDA hints, i : IF i.op = "alloca" THEN (i.dst :> i.hint) @@ hints ELSE hints, <<>>, code)
emit_function(b) ==
  [code |-> b.code, blocks |-> BlockAt(b.code), slots |-> slot_hint(b.code), returns |-> b.return_hint,
   sound |-> Emittable(b.code, Places(b.code), DefinedAt(b.code))]
Link(lowered) ==
  [functions |-> FoldSet(LAMBDA f, fs : (f :> emit_function(lowered.functions[f])) @@ fs, <<>>, DOMAIN lowered.functions),
   globals |-> lowered.globals]
VARIABLES
  unit,     \* the compiled module
  status,   \* emit, run, done; panic: the emitter's; stray: memory that is not the program's
  frames,   \* the activations: function, pc, value_map's run-time values, arguments, own cells
  mem,
  gone,     \* the cells that were given back
  arenas,   \* the open arenas, innermost last: their cells
  pool,     \* list cells to be used again, next first
  global,
  out       \* what was written
vars == <<unit, status, frames, mem, gone, arenas, pool, global, out>>

Frame(fn, args, dst) == [fn |-> fn, pc |-> 1, regs |-> <<>>, args |-> args, dst |-> dst, cells |-> {}]
Start(compiled) ==
  /\ unit = compiled /\ status = "emit"
  /\ frames = <<>> /\ mem = <<>> /\ gone = {} /\ arenas = <<>> /\ pool = <<>> /\ out = <<>>
  /\ global = unit.globals                         \* declare_globals: an initial word, or 0

Top == Last(frames)
Fn == unit.functions[Top.fn]
Instruction == Fn.code[Top.pc]
At(op) == status = "run" /\ Instruction.op = op

----------------------------------------------------------------------------
(* Values *)

basic_type_for(hint) ==
  IF hint = "Float" THEN "f"
  ELSE IF hint \in {"String", "Object", "List", "Vec", "FVec", "Function", "Null"} THEN "p" ELSE "i"
TypedAs(type, bits) == IF type = "f" THEN <<"f", FloatOf(bits, WordBits)>> ELSE <<type, bits>>
Raw(v) == IF v[1] = "f" THEN FloatBits(v[2], WordBits) ELSE v[2]
lower_value(a) ==
  CASE a[1] = "v" -> Top.regs[a[2]]
    [] a[1] = "int" -> <<"i", Word(a[2])>>
    [] a[1] = "flt" -> <<"f", a[2]>>
    [] a[1] = "bool" -> <<"i", IF a[2] THEN 1 ELSE 0>>
Arg(j) == lower_value(Instruction.args[j])
as_int_word(v) == Raw(v)                           \* bitcast, ptrtoint
as_float_value(v) == CASE v[1] = "f" -> v[2] [] v[1] = "i" -> 2 * v[2] [] v[1] = "p" -> 0
coerce_to_hint(v, hint) ==
  CASE v[1] = "i" /\ hint = "Float" -> <<"f", 2 * v[2]>>
    [] v[1] = "f" /\ hint \in {"Int", "Word"} -> <<"i", Towards0(v[2], 2)>>
    [] OTHER -> v
coerce_arg(v, want) == TypedAs(want, Raw(v))        \* the same bits
truthify(v) == IF v[1] = "f" THEN v[2] \notin {0, NaN} ELSE v[2] # 0

Compare(op, a, b) ==
  CASE op = "Eq" -> a = b [] op = "Ne" -> a # b [] op = "Lt" -> a < b
    [] op = "Le" -> a <= b [] op = "Gt" -> a > b [] op = "Ge" -> a >= b
IntResult(op, a, b) ==
  CASE op = "IAdd" -> Word(a + b) [] op = "ISub" -> Word(a - b) [] op = "IMul" -> Word(a * b)
    [] op = "IDiv" -> Towards0(a, b) [] op = "IRem" -> Rem0(a, b)
    [] op = "BitAnd" -> BitAnd(a, b) [] op = "BitOr" -> BitOr(a, b) [] op = "BitXor" -> BitXor(a, b)
    [] op = "Shl" -> Shl(a, b) [] op = "Shr" -> Shr(a, b)
FloatResult(op, a, b) ==                           \* halves
  CASE NaN \in {a, b} -> NaN
    [] op = "FAdd" -> a + b [] op = "FSub" -> a - b [] op = "FMul" -> (a * b) \div 2 [] op = "FDiv" -> (a * 2) \div b
IntCompare == [ICmpEq |-> "Eq", ICmpNe |-> "Ne", ICmpLt |-> "Lt", ICmpLe |-> "Le", ICmpGt |-> "Gt", ICmpGe |-> "Ge"]
FloatCompare == [FCmpEq |-> "Eq", FCmpNe |-> "Ne", FCmpLt |-> "Lt", FCmpLe |-> "Le", FCmpGt |-> "Gt", FCmpGe |-> "Ge"]
Flag(b) == <<"i", IF b THEN 1 ELSE 0>>
lower_binop(op, l, r) ==
  CASE op \in DOMAIN IntCompare -> Flag(Compare(IntCompare[op], as_int_word(l), as_int_word(r)))
    [] op \in DOMAIN FloatCompare ->                \* ordered: false of anything that is no number
         Flag(/\ NaN \notin {as_float_value(l), as_float_value(r)}
              /\ Compare(FloatCompare[op], as_float_value(l), as_float_value(r)))
    [] op \in {"FAdd", "FSub", "FMul", "FDiv"} -> <<"f", FloatResult(op, as_float_value(l), as_float_value(r))>>
    [] OTHER -> <<"i", IntResult(op, as_int_word(l), as_int_word(r))>>

LaneBits == [Pair |-> WordBits \div 2, FPair |-> WordBits \div 2, Quad |-> WordBits \div 4, Oct |-> WordBits \div 8,
             PAIR |-> WordBits \div 2, FPAIR |-> WordBits \div 2, QUAD |-> WordBits \div 4, OCT |-> WordBits \div 8]
FloatLanes == {"FPair", "FPAIR"}
LaneWord(kind, v) ==                               \* fptrunc to the lane, or the low bits
  IF kind \in FloatLanes THEN Unsigned(FloatBits(v[2], LaneBits[kind]), LaneBits[kind])
  ELSE Unsigned(as_int_word(v), LaneBits[kind])
emit_lane_extract(kind, v, lane) ==
  LET bits == Lane(as_int_word(v), as_int_word(lane), LaneBits[kind])
  IN  IF kind \in FloatLanes THEN <<"f", FloatOf(bits, LaneBits[kind])>> ELSE <<"i", bits>>
emit_lane_insert(kind, v, lane, new) ==
  LET shift == as_int_word(lane) * LaneBits[kind]
      mask == Shl(2 ^ LaneBits[kind] - 1, shift)
  IN  <<"i", BitOr(BitAnd(as_int_word(v), BitXor(mask, -1)), Shl(LaneWord(kind, new), shift))>>
build_packed_word(kind, args) ==                   \* the OR of lanes that do not overlap: their sum
  <<"i", Word(MapThenSumSet(LAMBDA i : LaneWord(kind, args[i]) * 2 ^ ((i - 1) * LaneBits[kind]), DOMAIN args))>>

----------------------------------------------------------------------------
(* Steps *)

Yields(v) == [frames EXCEPT ![Len(frames)] =
               [@ EXCEPT !.pc = @ + 1, !.regs = (Instruction.dst :> v) @@ @]]
Advance == [frames EXCEPT ![Len(frames)].pc = @ + 1]
JumpInto(b) == [frames EXCEPT ![Len(frames)].pc = Fn.blocks[b] + 1]
Fail(why) == status' = why /\ UNCHANGED <<unit, frames, mem, gone, arenas, pool, global, out>>

Unset == 99998                                     \* a slot nothing was stored in
Cell(a) == a \div WordBytes
Mine(a) == Cell(a) \in DOMAIN mem /\ Cell(a) \notin gone
SlotWord == mem[Cell(Top.regs[Instruction.x][2])]
Aligned(a) == a % WordBytes = 0 /\ Mine(a)
AddressOfCell(c) == c * WordBytes
Byte(a) == Unsigned(Lane(mem[Cell(a)], a % WordBytes, 8), 8)
WithByte(a, w) ==
  [mem EXCEPT ![Cell(a)] = BitOr(BitAnd(@, BitXor(Shl(255, 8 * (a % WordBytes)), -1)),
                                 Shl(Unsigned(w, 8), 8 * (a % WordBytes)))]

(* emit_module: every function is emitted before anything runs. *)
emit_module ==
  /\ status = "emit"
  /\ IF \A f \in DOMAIN unit.functions : unit.functions[f].sound
     THEN status' = "run" /\ frames' = <<Frame("START", <<>>, -1)>>
     ELSE status' = "panic" /\ frames' = frames
  /\ UNCHANGED <<unit, mem, gone, arenas, pool, global, out>>

Param == At("param") /\ frames' = Yields(Top.args[Instruction.x])
         /\ UNCHANGED <<unit, status, mem, gone, arenas, pool, global, out>>
Allocate ==                                        \* a slot of the activation, wherever the loop takes it
  /\ At("alloca")
  /\ mem' = Append(mem, Unset)
  /\ frames' = [Yields(<<"p", AddressOfCell(Len(mem) + 1)>>) EXCEPT ![Len(frames)].cells = @ \cup {Len(mem) + 1}]
  /\ UNCHANGED <<unit, status, gone, arenas, pool, global, out>>
Load ==
  /\ At("load")
  /\ IF SlotWord = Unset THEN Fail("stray")
     ELSE /\ frames' = Yields(TypedAs(basic_type_for(Instruction.hint), SlotWord))
          /\ UNCHANGED <<unit, status, mem, gone, arenas, pool, global, out>>
StoreSlot ==
  /\ At("store")
  /\ mem' = [mem EXCEPT ![Cell(Top.regs[Instruction.x][2])] = Raw(coerce_to_hint(Arg(1), Fn.slots[Instruction.x]))]
  /\ frames' = Advance
  /\ UNCHANGED <<unit, status, gone, arenas, pool, global, out>>
Binary ==
  /\ At("bin")
  /\ frames' = Yields(lower_binop(Instruction.x, Arg(1), Arg(2)))
  /\ UNCHANGED <<unit, status, mem, gone, arenas, pool, global, out>>
Unary ==                                           \* into_int_value panics of anything else
  /\ At("un")
  /\ IF Instruction.x # "FNeg" /\ Arg(1)[1] # "i" THEN Fail("panic")
     ELSE /\ frames' = Yields(CASE Instruction.x = "FNeg" -> <<"f", FloatResult("FSub", 0, as_float_value(Arg(1)))>>
                               [] Instruction.x = "INeg" -> <<"i", Word(0 - Arg(1)[2])>>
                               [] Instruction.x = "Not" -> <<"i", BitXor(Arg(1)[2], -1)>>)
          /\ UNCHANGED <<unit, status, mem, gone, arenas, pool, global, out>>
GetElementPtr ==
  /\ At("gep")
  /\ IF Arg(1)[1] = "f" \/ Arg(2)[1] # "i" THEN Fail("panic")
     ELSE /\ frames' = Yields(<<"p", Arg(1)[2] + Arg(2)[2] * (IF Instruction.x = "word" THEN WordBytes ELSE 1)>>)
          /\ UNCHANGED <<unit, status, mem, gone, arenas, pool, global, out>>
IndirectLoad ==
  /\ At("iload")
  /\ CASE Arg(1)[1] = "f" -> Fail("panic")
       [] Instruction.x = "word" /\ Arg(1)[1] # "f" /\ ~Aligned(Arg(1)[2]) -> Fail("stray")
       [] Instruction.x = "byte" /\ Arg(1)[1] # "f" /\ ~Mine(Arg(1)[2]) -> Fail("stray")
       [] OTHER ->
            /\ frames' = Yields(IF Instruction.x = "byte" THEN <<"i", Byte(Arg(1)[2])>>
                               ELSE TypedAs(basic_type_for(Instruction.hint), mem[Cell(Arg(1)[2])]))
            /\ UNCHANGED <<unit, status, mem, gone, arenas, pool, global, out>>
IndirectStore ==
  /\ At("istore")
  /\ CASE Arg(1)[1] = "f" -> Fail("panic")
       [] Instruction.x = "word" /\ Arg(1)[1] # "f" /\ ~Aligned(Arg(1)[2]) -> Fail("stray")
       [] Instruction.x = "byte" /\ Arg(1)[1] # "f" /\ ~Mine(Arg(1)[2]) -> Fail("stray")
       [] OTHER ->
            /\ mem' = IF Instruction.x = "byte" THEN WithByte(Arg(1)[2], as_int_word(Arg(2)))
                      ELSE [mem EXCEPT ![Cell(Arg(1)[2])] = Raw(Arg(2))]
            /\ frames' = Advance
            /\ UNCHANGED <<unit, status, gone, arenas, pool, global, out>>
GlobalLoad ==
  /\ At("gload")
  /\ frames' = Yields(TypedAs(basic_type_for(Instruction.hint), global[Instruction.x]))
  /\ UNCHANGED <<unit, status, mem, gone, arenas, pool, global, out>>
GlobalStore ==                                     \* the value's bits, whatever the global's hint
  /\ At("gstore")
  /\ global' = [global EXCEPT ![Instruction.x] = Raw(Arg(1))]
  /\ frames' = Advance
  /\ UNCHANGED <<unit, status, mem, gone, arenas, pool, out>>
LaneExtract ==
  /\ At("extract")
  /\ frames' = Yields(emit_lane_extract(Instruction.x, Arg(1), Arg(2)))
  /\ UNCHANGED <<unit, status, mem, gone, arenas, pool, global, out>>
LaneInsert ==
  /\ At("insert")                                  \* the value, the pack, the lane
  /\ IF Instruction.x \in FloatLanes /\ Arg(1)[1] # "f" THEN Fail("panic")
     ELSE /\ frames' = Yields(emit_lane_insert(Instruction.x, Arg(2), Arg(3), Arg(1)))
          /\ UNCHANGED <<unit, status, mem, gone, arenas, pool, global, out>>

(***************************************************************************)
(* Vectors have their length in the word before the data; VEC k of one     *)
(* literal is k + 1 zeroed words.  Lists are two-word cells, hd and tl.    *)
(***************************************************************************)
SingleConstSize == Len(Instruction.args) = 1 /\ Instruction.args[1][1] = "int"
VecElements(float) ==
  [j \in DOMAIN Instruction.args |->
     Raw(IF float THEN coerce_to_hint(Arg(j), "Float") ELSE Arg(j))]
NewVec(count, words) ==                            \* allocated whole: length word, data
  [cells |-> Len(mem) + 1 .. Len(mem) + 1 + Len(words), mem |-> mem \o <<count>> \o words,
   data |-> AddressOfCell(Len(mem) + 2)]
Zeros(n) == [j \in 1 .. n |-> 0]
VecBlock(float) ==
  IF SingleConstSize THEN NewVec(Instruction.args[1][2], Zeros(Instruction.args[1][2] + 1))
  ELSE NewVec(Len(Instruction.args), VecElements(float))
VectorKinds == {"VEC", "FVEC", "TABLE", "FTABLE"}
emit_vec_construct ==
  /\ At("new") /\ Instruction.x.kind \in VectorKinds
  /\ LET block == VecBlock(Instruction.x.kind \in {"FVEC", "FTABLE"})
     IN  /\ mem' = block.mem
         /\ frames' = Yields(<<"p", block.data>>)
         /\ arenas' = IF Instruction.x.target = "Heap" THEN arenas
                      ELSE [arenas EXCEPT ![Len(arenas)] = @ \cup block.cells]
  /\ UNCHANGED <<unit, status, gone, pool, global, out>>
emit_packed_word ==
  /\ At("new") /\ Instruction.x.kind \in DOMAIN LaneBits
  /\ IF Instruction.x.kind \in FloatLanes /\ \E j \in DOMAIN Instruction.args : Arg(j)[1] # "f" THEN Fail("panic")
     ELSE /\ frames' = Yields(build_packed_word(Instruction.x.kind, [j \in DOMAIN Instruction.args |-> Arg(j)]))
          /\ UNCHANGED <<unit, status, mem, gone, arenas, pool, global, out>>

(* __newbcpl_cons_alloc, n times: recycled cells first, then new ones.      *)
Taken(n) == IF n < Len(pool) THEN n ELSE Len(pool)
Conses(n) ==
  [j \in 1 .. n |-> IF j <= Len(pool) THEN pool[j] ELSE Len(mem) + 1 + 2 * (j - Len(pool) - 1)]
Reach(n) == [j \in 1 .. Len(mem) + 2 * (n - Taken(n)) |-> IF j <= Len(mem) THEN mem[j] ELSE 0]
TakeConses(n) ==
  /\ pool' = SubSeq(pool, Taken(n) + 1, Len(pool))
  /\ gone' = gone \ UNION {{c, c + 1} : c \in ToSet(SubSeq(pool, 1, Taken(n)))}
(* memory in which cells, in order, hold these values and end in tl *)
Chained(memory, cells, values, tl) ==
  [c \in DOMAIN memory |->
     CASE \E j \in DOMAIN cells : cells[j] = c -> values[CHOOSE j \in DOMAIN cells : cells[j] = c]
       [] \E j \in DOMAIN cells : cells[j] + 1 = c ->
            LET j == CHOOSE j \in DOMAIN cells : cells[j] + 1 = c
            IN  IF j = Len(cells) THEN tl ELSE AddressOfCell(cells[j + 1])
       [] OTHER -> memory[c]]
emit_cons_chain ==                                 \* built from the last argument to the first
  /\ At("new") /\ Instruction.x.kind \in {"LIST", "MANIFESTLIST"}
  /\ LET n == Len(Instruction.args)
         cells == Reverse(Conses(n))
     IN  /\ mem' = Chained(Reach(n), cells, [j \in 1 .. n |-> Raw(Arg(j))], 0)
         /\ TakeConses(n)
         /\ frames' = Yields(<<"p", IF n = 0 THEN 0 ELSE AddressOfCell(cells[1])>>)
  /\ UNCHANGED <<unit, status, arenas, global, out>>

RECURSIVE ListFrom(_)
ListFrom(a) == IF a = 0 THEN <<>> ELSE <<Cell(a)>> \o ListFrom(mem[Cell(a) + 1])

----------------------------------------------------------------------------
(* Calls.  Arguments and results pass as the bits the signature asks for;   *)
(* a name the module does not know takes and returns words.                 *)

want(name) == IF name \in {"FWRITE", "FIX"} THEN "f" ELSE "i"
RtArg(j) == coerce_arg(Arg(j), want(Instruction.x))[2]
AtRt(name) == At("call") /\ Instruction.x = name
Pure == {"FIX", "FLOAT", "ABS", "MIN", "MAX", "HD", "TL", "TAIL"}
Following(a, offset) == IF a = 0 THEN 0 ELSE mem[Cell(a) + offset]
PureResult ==
  CASE Instruction.x = "FIX" -> <<"i", Towards0(RtArg(1), 2)>>
    [] Instruction.x = "FLOAT" -> <<"f", 2 * RtArg(1)>>
    [] Instruction.x = "ABS" -> <<"i", Word(AbsOf(RtArg(1)))>>
    [] Instruction.x = "MIN" -> <<"i", IF RtArg(1) < RtArg(2) THEN RtArg(1) ELSE RtArg(2)>>
    [] Instruction.x = "MAX" -> <<"i", IF RtArg(1) > RtArg(2) THEN RtArg(1) ELSE RtArg(2)>>
    [] Instruction.x = "HD" -> <<"i", Following(RtArg(1), 0)>>
    [] Instruction.x \in {"TL", "TAIL"} -> <<"i", Following(RtArg(1), 1)>>
CallPure ==
  /\ At("call") /\ Instruction.x \in Pure
  /\ frames' = Yields(PureResult)
  /\ UNCHANGED <<unit, status, mem, gone, arenas, pool, global, out>>
Write ==
  /\ At("call") /\ Instruction.x \in {"WRITEN", "FWRITE"}
  /\ out' = Append(out, IF Instruction.x = "WRITEN" THEN <<"n", RtArg(1)>> ELSE <<"f", RtArg(1)>>)
  /\ frames' = Yields(<<"i", 0>>)
  /\ UNCHANGED <<unit, status, mem, gone, arenas, pool, global>>
ArenaEnter ==
  /\ AtRt("bcpl_arena_enter")
  /\ arenas' = Append(arenas, {})
  /\ frames' = Yields(<<"i", Len(arenas) + 1>>)
  /\ UNCHANGED <<unit, status, mem, gone, pool, global, out>>
ArenaFree ==                                       \* and every arena inside it
  /\ AtRt("bcpl_arena_free")
  /\ gone' = gone \cup UNION ToSet(SubSeq(arenas, RtArg(1), Len(arenas)))
  /\ arenas' = SubSeq(arenas, 1, RtArg(1) - 1)
  /\ frames' = Yields(<<"i", 0>>)
  /\ UNCHANGED <<unit, status, mem, pool, global, out>>
alloc_vec_words ==
  /\ At("call") /\ Instruction.x \in {"GETVEC", "FGETVEC"}
  /\ LET block == NewVec(RtArg(1), Zeros(RtArg(1) + 1))
     IN  mem' = block.mem /\ frames' = Yields(<<"i", block.data>>)
  /\ UNCHANGED <<unit, status, gone, arenas, pool, global, out>>
VecLen ==
  /\ AtRt("__newbcpl_len")
  /\ IF RtArg(1) # 0 /\ ~Aligned(RtArg(1) - WordBytes) THEN Fail("stray")
     ELSE /\ frames' = Yields(<<"i", Following(RtArg(1), -1)>>)
          /\ UNCHANGED <<unit, status, mem, gone, arenas, pool, global, out>>
FreeVector ==                                      \* an arena's block stays until its arena goes
  /\ AtRt("__newbcpl_freevec")
  /\ gone' = IF Aligned(RtArg(1)) /\ Cell(RtArg(1)) \notin UNION ToSet(arenas)
             THEN gone \cup (Cell(RtArg(1)) - 1 .. Cell(RtArg(1)) + mem[Cell(RtArg(1)) - 1]) ELSE gone
  /\ frames' = Yields(<<"i", 0>>)
  /\ UNCHANGED <<unit, status, mem, arenas, pool, global, out>>

ConsLen ==
  /\ AtRt("__newbcpl_cons_len")
  /\ frames' = Yields(<<"i", Len(ListFrom(RtArg(1)))>>)
  /\ UNCHANGED <<unit, status, mem, gone, arenas, pool, global, out>>
APND ==                                            \* the list itself grows
  /\ AtRt("APND")
  /\ LET cell == Conses(1)[1]
         joined == IF RtArg(1) = 0 THEN <<cell>> ELSE <<Last(ListFrom(RtArg(1))), cell>>
         values == IF RtArg(1) = 0 THEN <<RtArg(2)>> ELSE <<mem[joined[1]], RtArg(2)>>
     IN  mem' = Chained(Reach(1), joined, values, 0)
         /\ frames' = Yields(<<"i", IF RtArg(1) = 0 THEN AddressOfCell(cell) ELSE RtArg(1)>>)
  /\ TakeConses(1)
  /\ UNCHANGED <<unit, status, arenas, global, out>>
CONCAT ==                                          \* a copy of the first, which the second ends
  /\ AtRt("CONCAT")
  /\ LET first == ListFrom(RtArg(1))
         cells == Conses(Len(first))
     IN  /\ mem' = Chained(Reach(Len(first)), cells, [j \in DOMAIN first |-> mem[first[j]]], RtArg(2))
         /\ TakeConses(Len(first))
         /\ frames' = Yields(<<"i", IF first = <<>> THEN RtArg(2) ELSE AddressOfCell(cells[1])>>)
  /\ UNCHANGED <<unit, status, arenas, global, out>>
FreeList ==                                        \* cons_recycle of each cell
  /\ AtRt("__newbcpl_freelist")
  /\ LET cells == ListFrom(RtArg(1))
     IN  /\ pool' = Reverse(cells) \o pool
         /\ gone' = gone \cup UNION {{c, c + 1} : c \in ToSet(cells)}
         /\ mem' = Chained(mem, Reverse(cells), Zeros(Len(cells)), IF pool = <<>> THEN 0 ELSE AddressOfCell(pool[1]))
  /\ frames' = Yields(<<"i", 0>>)
  /\ UNCHANGED <<unit, status, arenas, global, out>>

CallFunction ==                                    \* parameters are words
  /\ At("call") /\ Instruction.x \in DOMAIN unit.functions
  /\ frames' = Append(Advance, Frame(Instruction.x, [j \in DOMAIN Instruction.args |-> coerce_arg(Arg(j), "i")],
                                     Instruction.dst))
  /\ UNCHANGED <<unit, status, mem, gone, arenas, pool, global, out>>

(* Terminators *)
Goto(b) == frames' = JumpInto(b) /\ UNCHANGED <<unit, status, mem, gone, arenas, pool, global, out>>
Branch == At("br") /\ Goto(Instruction.x)
CondBranch == At("condbr") /\ Goto(Instruction.x[IF truthify(Arg(1)) THEN 1 ELSE 2])
Switch ==
  /\ At("switch")
  /\ LET hit == {c[2] : c \in {c \in Instruction.x.cases : c[1] = as_int_word(Arg(1))}}
     IN  Goto(IF hit = {} THEN Instruction.x.default ELSE CHOOSE b \in hit : TRUE)
ReturnValue == IF Instruction.args = <<>> THEN <<"i", 0>> ELSE Arg(1)
Returned(v) ==                                     \* to the caller, or START is over
  IF Len(frames) = 1 THEN <<>>
  ELSE [Front(frames) EXCEPT ![Len(frames) - 1].regs = (Top.dst :> v) @@ @]
Return ==                                          \* the type must be the declared one (verify)
  /\ At("ret")
  /\ IF ReturnValue[1] # basic_type_for(Fn.returns) THEN Fail("panic")
     ELSE /\ frames' = Returned(ReturnValue)
          /\ gone' = gone \cup Top.cells
          /\ status' = IF Len(frames) = 1 THEN "done" ELSE status
          /\ UNCHANGED <<unit, mem, arenas, pool, global, out>>

RunTime == \/ CallPure \/ Write \/ ArenaEnter \/ ArenaFree \/ alloc_vec_words \/ VecLen \/ FreeVector
           \/ ConsLen \/ APND \/ CONCAT \/ FreeList
Run ==  \/ emit_module \/ Param \/ Allocate \/ Load \/ StoreSlot \/ Binary \/ Unary \/ GetElementPtr
        \/ IndirectLoad \/ IndirectStore \/ GlobalLoad \/ GlobalStore \/ LaneExtract \/ LaneInsert
        \/ emit_vec_construct \/ emit_packed_word \/ emit_cons_chain \/ RunTime \/ CallFunction
        \/ Branch \/ CondBranch \/ Switch \/ Return
=============================================================================
