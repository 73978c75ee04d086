-------------------------------- MODULE Hints --------------------------------
(***************************************************************************)
(* The type hints semantic analysis (newbcpl-sema) leaves on expressions.  *)
(*                                                                         *)
(* A node of the tree is a kind k, what the node itself says (x), and its  *)
(* children c in the order the analyser and the lowerer visit them; h is   *)
(* the hint.  The target of an assignment is a node of kind "to" whose     *)
(* children are the expressions evaluated to find the place.  Names and    *)
(* annotations are as written; strings, classes and messages are left out. *)
(***************************************************************************)
EXTENDS Integers, Sequences, SequencesExt

Node(k, x, c) == [k |-> k, x |-> x, c |-> c, h |-> "Unknown"]

(* Expressions.  A float literal is written in halves. *)
Num(v) == Node("int", v, <<>>)
Flt(v) == Node("flt", v, <<>>)
Bool(v) == Node("bool", v, <<>>)
Null == Node("null", 0, <<>>)
Id(name) == Node("id", name, <<>>)
Call(name, args) == Node("call", name, args)
Un(op, e) == Node("un", op, <<e>>)
Bin(op, l, r) == Node("bin", op, <<l, r>>)
Cond(c, t, e) == Node("cond", "?", <<c, t, e>>)
Valof(s) == Node("valof", "VALOF", <<s>>)
New(kind, args) == Node("new", kind, args)
Bits(e, from, width) == Node("bits", "%%", <<e, from, width>>)

(* Statements *)
Block(stmts) == Node("block", "{}", stmts)
Case(stmts) == Node("stmts", "CASE", stmts)
LetAs(kind, name, ann, e) == Node("let", [kind |-> kind, name |-> name, ann |-> ann], <<e>>)
Let(name, e) == LetAs("LET", name, "", e)
FLet(name, e) == LetAs("FLET", name, "", e)
Unpack(names, e) == Node("unpack", names, <<e>>)
To(place, c) == Node("to", place, c)
ToName(name) == To("id", <<Id(name)>>)
Assign(targets, values) == Node("assign", Len(targets), targets \o values)
Set(name, e) == Assign(<<ToName(name)>>, <<e>>)
Do(e) == Node("do", "expr", <<e>>)
If(c, s) == Node("if", "IF", <<c, s>>)
Test(c, s, t) == Node("if", "TEST", <<c, s, t>>)
Unless(c, s) == Node("unless", "UNLESS", <<c, s>>)
Loop(kind, c) == Node(kind, kind, c)              \* while until repeat repeatwhile repeatuntil
For(name, range, s) == Node("for", name, range \o <<s>>)
ForEach(names, ann, e, s) == Node("foreach", [names |-> names, ann |-> ann], <<e, s>>)
Switchon(e, labels, cases, default) == Node("switch", labels, <<e>> \o cases \o <<default>>)
Resultis(e) == Node("resultis", "RESULTIS", <<e>>)
Exit(kind) == Node(kind, kind, <<>>)              \* break loop endcase return

(* Declarations; a parameter is a name and an annotation. *)
Function(name, params, e) == Node("function", [name |-> name, params |-> params], <<e>>)
Routine(name, params, s) == Node("routine", [name |-> name, params |-> params], <<s>>)
Manifest(name, e) == Node("manifest", name, <<e>>)
Global(name, e) == Node("global", name, <<e>>)

----------------------------------------------------------------------------
FloatFamily == {"Float", "FPair", "FQuad", "FOct", "FVec"}
FloatIsNoFamily(hint) == hint \in FloatFamily \ {"Float"}
is_float_family(hint) == hint \in FloatFamily

map_annotation_to_hint ==
  [INT |-> "Int", INTEGER |-> "Int", FLOAT |-> "Float", REAL |-> "Float", STRING |-> "String",
   WORD |-> "Word", PAIR |-> "Pair", FPAIR |-> "FPair", QUAD |-> "Quad", FQUAD |-> "FQuad",
   OCT |-> "Oct", FOCT |-> "FOct", LIST |-> "List", VEC |-> "Vec", FVEC |-> "FVec"]
Annotated(ann, hint) ==
  IF ann \in DOMAIN map_annotation_to_hint THEN map_annotation_to_hint[ann] ELSE hint

construct_hint ==
  [VEC |-> "Vec", FVEC |-> "FVec", TABLE |-> "Vec", FTABLE |-> "FVec", PAIR |-> "Pair",
   FPAIR |-> "FPair", QUAD |-> "Quad", FQUAD |-> "FQuad", OCT |-> "Oct", FOCT |-> "FOct",
   LIST |-> "List", MANIFESTLIST |-> "List"]

(* The analyser: scopes of bindings, innermost last; the functions; the     *)
(* hints of the RESULTIS seen in each open VALOF; manifests and globals.    *)
seed_builtin_manifests == [TYPE_INT |-> 1, TYPE_FLOAT |-> 2]  \* two of the prelude's sixteen
NewAnalyzer == [scopes |-> << <<>> >>, functions |-> <<>>, valof_results |-> <<>>,
                manifests |-> seed_builtin_manifests, globals |-> <<>>]
push_scope(self) == [self EXCEPT !.scopes = Append(@, <<>>)]
pop_scope(self) == [self EXCEPT !.scopes = Front(@)]
declare(self, name, hint) == [self EXCEPT !.scopes[Len(self.scopes)] = (name :> hint) @@ @]
lookup(self, name) ==
  LET binding == {i \in DOMAIN self.scopes : name \in DOMAIN self.scopes[i]}
  IN  IF binding = {} THEN "Unknown"
      ELSE self.scopes[CHOOSE i \in binding : \A j \in binding : j <= i][name]

DeclareAll(self, names, hint) == FoldLeft(LAMBDA st, n : declare(st, n, hint), self, names)
DeclareParams(self, params) ==
  FoldLeft(LAMBDA st, p : declare(st, p[1], Annotated(p[2], "Word")), self, params)

----------------------------------------------------------------------------
(* compute_type_of, one operator per shape of expression *)

builtin_result(name) ==
  CASE name \in {"FLOAT", "FSQRT", "FSIN", "FCOS", "FTAN", "FABS", "FLOG", "FEXP", "FRND", "RND"} -> "Float"
    [] name \in {"TRUNC", "FIX", "ENTIER", "LEN", "RAND", "RDCH"} -> "Int"
    [] name \in {"TYPE", "TYPEOF", "JOIN"} -> "String"
    [] name \in {"CONCAT", "TL", "TAIL", "REST"} -> "List"
    [] name \in {"GETVEC", "FGETVEC", "PAIRS", "FPAIRS"} -> "Vec"
    [] OTHER -> "none"
call_hint(self, name) ==
  IF builtin_result(name) # "none" THEN builtin_result(name)
  ELSE IF name \in DOMAIN self.functions THEN self.functions[name] ELSE "Word"

unary_hint(op, operand) ==
  CASE op = "Neg" -> operand
    [] op \in {"Not", "LogNot", "CharIndirection", "Len"} -> "Int"
    [] op \in {"Hd", "Tl", "Rest"} -> IF operand = "FVec" THEN "Float" ELSE "Word"
    [] op \in {"Indirection", "AddressOf", "FreeVec", "FreeList"} -> "Word"

binary_result(op, lhs, rhs) ==
  CASE op \in {"Add", "Sub", "Mul", "Div", "Rem"} ->
         IF lhs = rhs /\ is_float_family(lhs) THEN lhs ELSE "Int"
    [] op \in {"FAdd", "FSub", "FMul", "FDiv", "FloatSubscript"} -> "Float"
    [] op = "Subscript" -> "Word"
    [] op = "LaneAccess" -> IF lhs \in {"FPair", "FQuad", "FOct"} THEN "Float" ELSE "Int"
    [] OTHER -> "Int"                              \* comparisons, bits, shifts, bytes, logic

conditional_hint(then, else) ==
  CASE then = else \/ else = "Unknown" -> then
    [] then = "Unknown" -> else
    [] OTHER -> "Word"

merge_hints(hints) ==
  LET known == ToSet(hints) \ {"Unknown"}
  IN  IF \E h \in known : known = {h} THEN CHOOSE h \in known : TRUE ELSE "Word"

(* n's children carry their hints already. *)
compute_type_of(self, n) ==
  CASE n.k \in {"int", "bool", "bits"} -> "Int"
    [] n.k = "flt" -> "Float"
    [] n.k = "null" -> "Null"
    [] n.k = "id" -> lookup(self, n.x)
    [] n.k = "call" -> call_hint(self, n.x)
    [] n.k = "un" -> unary_hint(n.x, n.c[1].h)
    [] n.k = "bin" -> binary_result(n.x, n.c[1].h, n.c[2].h)
    [] n.k = "cond" -> conditional_hint(n.c[2].h, n.c[3].h)
    [] n.k = "valof" -> merge_hints(Last(self.valof_results))
    [] n.k = "new" -> construct_hint[n.x]
    [] OTHER -> "Unknown"                          \* statements have no hint

----------------------------------------------------------------------------
(* What the analyser does before child i of a node, and after the last. *)

for_hint(start) == IF start = "Float" THEN "Float" ELSE "Int"
element_hint(iter) == IF iter = "FVec" THEN "Float" ELSE "Word"
Enter(self, n, i, done) ==
  CASE n.k = "block" /\ i = 1 -> push_scope(self)
    [] n.k = "valof" -> [self EXCEPT !.valof_results = Append(@, <<>>)]
    [] n.k = "for" /\ i = Len(n.c) -> declare(push_scope(self), n.x, for_hint(done[1].h))
    [] n.k = "foreach" /\ i = 2 ->
         DeclareAll(push_scope(self), n.x.names, Annotated(n.x.ann, element_hint(done[1].h)))
    [] n.k \in {"function", "routine"} ->
         DeclareParams(push_scope(declare(self, n.x.name, "Function")), n.x.params)
    [] OTHER -> self

analyze_let(self, n) ==
  LET hint == n.c[1].h
      floats == n.x.kind = "FLET" /\ hint \in {"Int", "Word", "Unknown"}
  IN  declare(self, n.x.name, Annotated(n.x.ann, IF floats THEN "Float" ELSE hint))

fold_int_literal(e) == e.k \in {"int", "bool"} \/ (e.k = "un" /\ e.x = "Neg" /\ e.c[1].k = "int")
LiteralValue(e) ==
  CASE e.k = "int" -> e.x
    [] e.k = "bool" -> IF e.x THEN 1 ELSE 0
    [] OTHER -> 0 - e.c[1].x
AnalyzeManifest(self, name, e) ==
  IF fold_int_literal(e) THEN [declare(self, name, e.h) EXCEPT !.manifests = (name :> LiteralValue(e)) @@ @]
  ELSE declare(self, name, e.h)
AnalyzeGlobal(self, name, e) ==
  [declare(self, name, e.h) EXCEPT !.globals = (name :> (IF e.k = "int" THEN e.x ELSE 0)) @@ @]

Leave(self, n) ==
  CASE n.k \in {"for", "foreach"} \/ (n.k = "block" /\ n.c # <<>>) -> pop_scope(self)
    [] n.k = "let" -> analyze_let(self, n)
    [] n.k = "unpack" -> DeclareAll(self, n.x, n.c[1].h)
    [] n.k = "resultis" /\ self.valof_results # <<>> ->
         [self EXCEPT !.valof_results[Len(self.valof_results)] = Append(@, n.c[1].h)]
    [] n.k = "valof" -> [self EXCEPT !.valof_results = Front(@)]
    [] n.k = "function" -> [pop_scope(self) EXCEPT !.functions = (n.x.name :> n.c[1].h) @@ @]
    [] n.k = "routine" -> pop_scope(self)
    [] n.k = "manifest" -> AnalyzeManifest(self, n.x, n.c[1])
    [] n.k = "global" -> AnalyzeGlobal(self, n.x, n.c[1])
    [] OTHER -> self

(* type_of and analyze_stmt: visit the children, then the node. *)
Typed(self, n) == [self |-> Leave(self, n), tree |-> [n EXCEPT !.h = compute_type_of(self, n)]]
RECURSIVE Analyze(_, _, _, _)
AnalyzeNext(n, i, done, r) == Analyze(r.self, n, i + 1, Append(done, r.tree))
Analyze(self, n, i, done) ==
  IF i > Len(n.c) THEN Typed(self, [n EXCEPT !.c = done])
  ELSE AnalyzeNext(n, i, done, Analyze(Enter(self, n, i, done), n.c[i], 1, <<>>))

(* A function's result is not known before its body has been analysed. *)
preregister(self, decl) ==
  CASE decl.k = "function" -> [self EXCEPT !.functions = (decl.x.name :> "Unknown") @@ @]
    [] decl.k = "routine" -> [self EXCEPT !.functions = (decl.x.name :> "Word") @@ @]
    [] OTHER -> self

analyze_program(decls) ==
  Analyze(FoldLeft(preregister, NewAnalyzer, decls), Node("program", "program", decls), 1, <<>>)
=============================================================================
