------------------------------- MODULE Parser -------------------------------
(***************************************************************************)
(* The recursive-descent parser, newbcpl-parser/src/parser.rs.             *)
(*                                                                         *)
(* A state of the parser is a record: the tokens (without the final Eof),  *)
(* the place in them, the depth of open lane brackets, and the             *)
(* declarations an AND chain has left for parse_program to pick up.  Each  *)
(* parse_* method is an operator from a state to a result: the state after *)
(* it and the tree it read, or the state at which it gave up.  The methods *)
(* call one another in circles through Rule, by name.                      *)
(***************************************************************************)
EXTENDS Grammar, TLC

Start(tokens) == [tokens |-> tokens, at |-> 1, lane |-> 0, pending |-> <<>>]

Yield(self, tree) == [ok |-> TRUE, self |-> self, tree |-> tree]
Fail(self) == [ok |-> FALSE, self |-> self, tree |-> <<>>]
Then(r, Next(_, _)) == IF r.ok THEN Next(r.self, r.tree) ELSE r

TokenAt(self, n) == IF n <= Len(self.tokens) THEN self.tokens[n] ELSE Eof
Peek(self) == TokenAt(self, self.at)
PeekNext(self) == TokenAt(self, self.at + 1)
Sees(self, lexemes) == Peek(self) \in lexemes
Eat(self) == IF Peek(self) = Eof THEN self ELSE [self EXCEPT !.at = @ + 1]
Expect(self, lexeme) == IF Peek(self) = lexeme THEN Yield(Eat(self), lexeme) ELSE Fail(self)
EatIdentifier(self) == IF Sees(self, Idents) THEN Yield(Eat(self), Peek(self)) ELSE Fail(self)
EatOptional(self, lexemes) == IF Sees(self, lexemes) THEN Eat(self) ELSE self

(* AND, a name, a parenthesis: the tail of a chain of declarations. *)
LooksLikeDeclTail(self) ==
  Peek(self) = "AND" /\ PeekNext(self) \in Idents /\ TokenAt(self, self.at + 2) = "("

LookaheadIsColon(self) == PeekNext(self) = ":"

RECURSIVE Rule(_, _)
Expr(self) == Rule("parse_expr", self)
Unary(self) == Rule("parse_unary", self)
ParseStmt(self) == Rule("parse_stmt", self)
ParseDecl(self) == Rule("parse_decl", self)

(***************************************************************************)
(* Lists.  Separated reads one or more items with commas between; Trailing *)
(* allows the comma before the closing bracket.                            *)
(***************************************************************************)
RECURSIVE MoreExprs(_, _, _), MoreNames(_, _, _)
MoreExprs(self, es, closes) ==            \* closes: brackets that may follow a trailing comma
  IF Peek(self) # "," THEN Yield(self, es)
  ELSE IF Sees(Eat(self), closes) THEN Yield(Eat(self), es)
  ELSE Then(Expr(Eat(self)), LAMBDA st, e : MoreExprs(st, Append(es, e), closes))
Exprs(self) == Then(Expr(self), LAMBDA st, e : MoreExprs(st, <<e>>, {}))
Bracketed(self, close, closes) ==
  Then(IF Peek(self) = close THEN Yield(self, <<>>)
       ELSE Then(Expr(self), LAMBDA st, e : MoreExprs(st, <<e>>, closes)),
       LAMBDA st, es : Then(Expect(st, close), LAMBDA end, c : Yield(end, es)))
Args(self) == Bracketed(self, ")", {})
Trailing(self, close) == Bracketed(self, close, {close})

(***************************************************************************)
(* AS annotations: pointers, then a type, then OF and another.  What does  *)
(* not begin a type is left alone, and the annotation may be empty.        *)
(***************************************************************************)
TypeNames == {"INTEGER", "INT", "FLOAT", "WORD", "STRING", "ANY", "LIST", "VECTOR", "OBJECT",
              "PAIR", "FPAIR", "QUAD", "FQUAD", "OCT", "FOCT", "CHAR", "BYTE"}
RECURSIVE PointersOf(_, _), TypeAnnotation(_, _)
PointersOf(self, out) ==
  IF Peek(self) = "^" THEN PointersOf(Eat(self), Append(out, "^"))
  ELSE IF Peek(self) = "POINTER" THEN PointersOf(EatOptional(Eat(self), {"TO"}), Append(out, "^"))
  ELSE Yield(self, out)
TypeAnnotation(self, out) ==
  LET pointed == PointersOf(self, out)
      st == pointed.self
      base == Append(pointed.tree, Peek(st))
  IN  IF ~Sees(st, Idents \cup TypeNames) THEN pointed
      ELSE IF Peek(Eat(st)) = "OF" THEN TypeAnnotation(Eat(Eat(st)), Append(base, "OF"))
      ELSE Yield(Eat(st), base)
OptionalAs(self) == IF Peek(self) # "AS" THEN Yield(self, <<>>) ELSE TypeAnnotation(Eat(self), <<>>)

TypedName(self) ==
  Then(EatIdentifier(self), LAMBDA st, n :
  Then(OptionalAs(st), LAMBDA end, a : Yield(end, <<n, a>>)))
MoreNames(self, names, count) ==
  IF Peek(self) # "," \/ count = 0 THEN Yield(self, names)
  ELSE Then(TypedName(Eat(self)), LAMBDA st, n : MoreNames(st, Append(names, n), count - 1))
NoLimit == 100
TypedNames(self) == Then(TypedName(self), LAMBDA st, n : MoreNames(st, <<n>>, NoLimit))
Parameters(self) ==                       \* after the opening parenthesis
  Then(IF Peek(self) = ")" THEN Yield(self, <<>>) ELSE TypedNames(self), LAMBDA st, ps :
  Then(Expect(st, ")"), LAMBDA end, c : Yield(end, ps)))

(***************************************************************************)
(* Expressions: the conditional, the ladder of binary operators, prefix    *)
(* operators, postfix operators, atoms.                                    *)
(***************************************************************************)
RECURSIVE BinaryTail(_, _, _), PostfixTail(_, _)
ExprRule(self) ==
  Then(Unary(self), LAMBDA s1, first :
  Then(BinaryTail(s1, first, 0), LAMBDA s2, cond :
    IF Peek(s2) # "->" THEN Yield(s2, cond)
    ELSE Then(Expr(Eat(s2)), LAMBDA s3, yes :
         Then(Expect(s3, ","), LAMBDA s4, comma :
         Then(Expr(s4), LAMBDA s5, no : Yield(s5, <<"Conditional", cond, yes, no>>))))))

Ladder ==
  LET Row(level, ops) == [lexeme \in DOMAIN ops |-> <<ops[lexeme], level>>]
  IN  Row(7, ("*" :> "Mul") @@ ("/" :> "Div") @@ ("REM" :> "Rem") @@ ("*." :> "FMul")
             @@ ("*#" :> "FMul") @@ ("/." :> "FDiv") @@ ("/#" :> "FDiv"))
      @@ Row(6, ("+" :> "Add") @@ ("-" :> "Sub") @@ ("+." :> "FAdd") @@ ("+#" :> "FAdd")
                @@ ("-." :> "FSub") @@ ("-#" :> "FSub"))
      @@ Row(5, ("<<" :> "Shl") @@ (">>" :> "Shr"))
      @@ Row(4, ("=" :> "Eq") @@ ("~=" :> "Ne") @@ ("<" :> "Lt") @@ ("<=" :> "Le") @@ (">" :> "Gt")
                @@ (">=" :> "Ge") @@ ("=." :> "FEq") @@ ("=#" :> "FEq") @@ ("~=." :> "FNe")
                @@ ("~=#" :> "FNe") @@ ("<." :> "FLt") @@ ("<#" :> "FLt") @@ ("<=." :> "FLe")
                @@ ("<=#" :> "FLe") @@ (">." :> "FGt") @@ (">#" :> "FGt") @@ (">=." :> "FGe")
                @@ (">=#" :> "FGe"))
      @@ Row(3, ("&" :> "BitAnd") @@ ("BAND" :> "BitAnd") @@ ("AND" :> "LogAnd"))
      @@ Row(2, ("|" :> "BitOr") @@ ("BOR" :> "BitOr") @@ ("BXOR" :> "BitXor") @@ ("OR" :> "LogOr")
                @@ ("XOR" :> "LogXor") @@ ("EQV" :> "Eqv") @@ ("NEQV" :> "Neqv"))

(* The lexeme is a binary operator here: not the | that closes a lane, nor the AND of a chain. *)
AtBinaryOp(self) ==
  /\ Peek(self) \in DOMAIN Ladder
  /\ Peek(self) = "|" => self.lane = 0
  /\ ~LooksLikeDeclTail(self)

BinaryAtRightFirst(self, min) == Then(Unary(self), LAMBDA st, lhs : BinaryTail(st, lhs, min - 1))
BinaryAt(self, min) == Then(Unary(self), LAMBDA st, lhs : BinaryTail(st, lhs, min))
BinaryTail(self, lhs, min) ==
  IF ~AtBinaryOp(self) \/ Ladder[Peek(self)][2] < min THEN Yield(self, lhs)
  ELSE LET op == Ladder[Peek(self)]
       IN  Then(BinaryAt(Eat(self), op[2] + 1), LAMBDA st, rhs :
             BinaryTail(st, <<"Binary", op[1], lhs, rhs>>, min))

PrefixOps == ("-" :> "Neg") @@ ("~" :> "Not") @@ ("BNOT" :> "Not") @@ ("NOT" :> "LogNot")
            @@ ("HD" :> "Hd") @@ ("TL" :> "Tl") @@ ("REST" :> "Rest") @@ ("LEN" :> "Len")
            @@ ("FREEVEC" :> "FreeVec") @@ ("FREELIST" :> "FreeList")
            @@ ("!" :> "Indirection") @@ ("@" :> "AddressOf") @@ ("%" :> "CharIndirection")
InfixOps == ("!" :> "Subscript") @@ ("%" :> "CharSubscript") @@ (".%" :> "FloatSubscript")

Field(self, op, base) ==
  Then(EatIdentifier(self), LAMBDA st, n : PostfixTail(st, <<"Binary", op, base, <<"Ident", n>> >>))

(* .|e| : while the index is read, | is not an operator, however deep it is nested. *)
Lane(self, base) ==
  Then(Expr([self EXCEPT !.lane = @ + 1]), LAMBDA st, e :
  Then(Expect([st EXCEPT !.lane = @ - 1], "|"), LAMBDA end, c :
    PostfixTail(end, <<"Binary", "LaneAccess", base, e>>)))

(* %%(start, width); the pair is carried as one more Bitfield. *)
Bitfield(self, base) ==
  Then(Expect(self, "("), LAMBDA s1, open :
  Then(Expr(s1), LAMBDA s2, first :
  Then(IF Peek(s2) # "," THEN Yield(s2, first)
       ELSE Then(Expr(Eat(s2)), LAMBDA s3, w : Yield(s3, <<"Binary", "Bitfield", first, w>>)),
       LAMBDA s4, field :
  Then(Expect(s4, ")"), LAMBDA end, c : PostfixTail(end, <<"Binary", "Bitfield", base, field>>)))))

PostfixTail(self, base) ==
  LET next == Eat(self)
  IN  CASE Peek(self) = "(" ->
             Then(Args(next), LAMBDA st, es : PostfixTail(st, <<"Call", base, es>>))
        [] Peek(self) = "%%" -> Bitfield(next, base)
        [] Peek(self) \in DOMAIN InfixOps ->
             Then(Unary(next), LAMBDA st, e :
               PostfixTail(st, <<"Binary", InfixOps[Peek(self)], base, e>>))
        [] Peek(self) = "." /\ Peek(next) = "|" -> Lane(Eat(next), base)
        [] Peek(self) = "." /\ Peek(next) # "|" -> Field(next, "Dot", base)
        [] Peek(self) = "OF" -> Field(next, "Of", base)
        [] OTHER -> Yield(self, base)

(* [receiver selector] or [receiver keyword: argument ...], each with its AS. *)
RECURSIVE Keywords(_, _)
Keywords(self, parts) ==
  Then(Expect(Eat(self), ":"), LAMBDA s1, colon :
  Then(Expr(s1), LAMBDA s2, e :
  Then(OptionalAs(s2), LAMBDA s3, a :
    LET read == Append(parts, <<Peek(self), <<e>>, a>>)
    IN  IF Sees(s3, Idents) /\ LookaheadIsColon(s3) THEN Keywords(s3, read) ELSE Yield(s3, read))))
ObjcMessage(self) ==
  Then(Unary(self), LAMBDA s1, receiver :
  Then(CASE Peek(s1) \notin Idents -> Fail(s1)
         [] LookaheadIsColon(s1) -> Keywords(s1, <<>>)
         [] OTHER -> Yield(Eat(s1), <<<<Peek(s1), <<>>, <<>> >> >>), LAMBDA s2, parts :
  Then(Expect(s2, "]"), LAMBDA s3, close :
  Then(OptionalAs(s3), LAMBDA end, a : Yield(end, <<"ObjcMessage", receiver, parts, a>>)))))

Constructors == {"PAIR", "FPAIR", "QUAD", "FQUAD", "OCT", "FOCT", "TABLE", "FTABLE",
                 "LIST", "MANIFESTLIST"}
Intrinsics == {"FLOAT", "TRUNC", "FIX", "FSQRT", "ENTIER", "TYPE", "TYPEOF", "SELF", "SUPER"}

Construct(self, kind, close) ==
  Then(Trailing(self, close), LAMBDA st, es : Yield(st, <<"TypedConstruct", kind, es>>))
VecConstruct(self, kind) ==
  CASE Peek(self) = "[" -> Construct(Eat(self), kind, "]")
    [] Peek(self) = "(" -> Construct(Eat(self), kind, ")")
    [] OTHER -> Then(Unary(self), LAMBDA st, e : Yield(st, <<"TypedConstruct", kind, <<e>> >>))
NewObject(self) ==
  Then(EatIdentifier(self), LAMBDA st, class :
    IF Peek(st) # "(" THEN Yield(st, <<"New", class, <<>> >>)
    ELSE Then(Trailing(Eat(st), ")"), LAMBDA end, es : Yield(end, <<"New", class, es>>)))

Atom(self) ==
  LET t == Peek(self)
      next == Eat(self)
  IN  CASE t \in Idents \cup Intrinsics -> Yield(next, <<"Ident", t>>)
        [] t \in Ints -> IF t \in TooLarge THEN Fail(next) ELSE Yield(next, <<"IntLit", t>>)
        [] t \in Reals -> Yield(next, <<"FloatLit", t>>)
        [] t \in Strings -> Yield(next, <<"StringLit", t>>)
        [] t \in Characters -> Yield(next, <<"CharLit", t>>)
        [] t \in {"TRUE", "FALSE"} -> Yield(next, <<"BoolLit", t>>)
        [] t = "?" -> Yield(next, <<"Null">>)
        [] t = "(" -> Then(Expr(next), LAMBDA st, e :
                      Then(Expect(st, ")"), LAMBDA end, c : Yield(end, e)))
        [] t = "[" -> ObjcMessage(next)
        [] t \in {"VALOF", "FVALOF"} ->
             Then(OptionalAs(next), LAMBDA s1, a :
             Then(ParseStmt(s1), LAMBDA end, s : Yield(end, <<"Valof", s>>)))
        [] t \in {"VEC", "FVEC"} -> VecConstruct(next, t)
        [] t \in Constructors -> Then(Expect(next, "("), LAMBDA st, open : Construct(st, t, ")"))
        [] t = "NEW" -> NewObject(next)
        [] OTHER -> Fail(self)

(* The operand of every prefix operator is again a unary expression. *)
UnaryRule(self) ==
  IF Peek(self) \in DOMAIN PrefixOps
  THEN Then(Unary(Eat(self)), LAMBDA st, e : Yield(st, <<"Unary", PrefixOps[Peek(self)], e>>))
  ELSE Then(Atom(self), LAMBDA st, e : PostfixTail(st, e))

(***************************************************************************)
(* Statements.  A keyword that only leads on to the body may be left out.  *)
(***************************************************************************)
RECURSIVE Statements(_, _, _)

(* Statements up to one of the stops, semicolons between them or not. *)
Statements(self, stops, stmts) ==
  CASE Peek(self) = Eof -> Fail(self)
    [] Sees(self, stops) -> Yield(self, stmts)
    [] Peek(self) = ";" -> Statements(Eat(self), stops, stmts)
    [] OTHER -> Then(ParseStmt(self), LAMBDA st, s : Statements(st, stops, Append(stmts, s)))

Opens == {"$(", "{"}
CloserOf(open) == IF open = "$(" THEN "$)" ELSE "}"

BlockScopeSwapped(self, pooled) ==
  IF ~Sees(self, Opens) THEN Fail(self)
  ELSE Then(Statements(Eat(self), {CloserOf(Peek(self))}, <<>>), LAMBDA st, stmts :
         Yield(Eat(st), <<"Block", stmts, Peek(self) = "$(", pooled>>))
Block(self, pooled) ==
  IF ~Sees(self, Opens) THEN Fail(self)
  ELSE Then(Statements(Eat(self), {CloserOf(Peek(self))}, <<>>), LAMBDA st, stmts :
         Yield(Eat(st), <<"Block", stmts, Peek(self) = "{", pooled>>))

(* keyword expression [lead] statement *)
Guarded(self, leads, Next(_, _, _)) ==
  Then(Expr(self), LAMBDA s1, e :
  Then(ParseStmt(EatOptional(s1, leads)), LAMBDA s2, s : Next(s2, e, s)))

ParseIf(self) ==
  Guarded(self, {"THEN", "DO"}, LAMBDA st, c, yes :
    IF Peek(st) # "ELSE" THEN Yield(st, <<"If", c, yes, <<>> >>)
    ELSE Then(ParseStmt(Eat(st)), LAMBDA end, no : Yield(end, <<"If", c, yes, <<no>> >>)))
ParseTest(self) ==                        \* the other branch is not optional
  Guarded(self, {"THEN"}, LAMBDA st, c, yes :
    Then(Expect(st, "ELSE"), LAMBDA s2, k :
    Then(ParseStmt(s2), LAMBDA end, no : Yield(end, <<"If", c, yes, <<no>> >>))))
Loop(self, kind, leads) ==
  Guarded(self, leads, LAMBDA st, c, body : Yield(st, <<kind, c, body>>))

ParseFor(self) ==
  Then(EatIdentifier(self), LAMBDA s1, n :
  Then(Expect(s1, "="), LAMBDA s2, eq :
  Then(Expr(s2), LAMBDA s3, a :
  Then(Expect(s3, "TO"), LAMBDA s4, to :
  Then(Expr(s4), LAMBDA s5, b :
  Then(IF Peek(s5) # "BY" THEN Yield(s5, <<>>)
       ELSE Then(Expr(Eat(s5)), LAMBDA st, e : Yield(st, <<e>>)), LAMBDA s6, step :
  Then(ParseStmt(EatOptional(s6, {"DO"})), LAMBDA end, body :
    Yield(end, <<"For", n, a, b, step, body>>))))))))

(* In parentheses any number of names, none included; bare, one or two. *)
RECURSIVE BareNames(_, _, _)
BareNames(self, names, count) ==
  IF Peek(self) # "," \/ count = 0 THEN Yield(self, names)
  ELSE Then(EatIdentifier(Eat(self)), LAMBDA st, n : BareNames(st, Append(names, n), count - 1))
ForEachNames(self) ==
  IF Peek(self) # "("
  THEN Then(EatIdentifier(self), LAMBDA st, n : BareNames(st, <<n>>, 1))
  ELSE Then(IF Peek(Eat(self)) = ")" THEN Yield(Eat(self), <<>>)
            ELSE Then(EatIdentifier(Eat(self)), LAMBDA st, n : BareNames(st, <<n>>, NoLimit)),
            LAMBDA st, names : Then(Expect(st, ")"), LAMBDA end, c : Yield(end, names)))
ParseForEach(self) ==
  Then(ForEachNames(self), LAMBDA s1, names :
  Then(IF Peek(s1) # "AS" THEN Yield(s1, <<>>)
       ELSE Then(EatIdentifier(Eat(s1)), LAMBDA st, n : Yield(st, <<n>>)), LAMBDA s2, a :
  Then(Expect(s2, "IN"), LAMBDA s3, in :
    Guarded(s3, {"DO"}, LAMBDA end, iter, body :
      Yield(end, <<"ForEach", names, a, iter, body>>)))))

(* The arms in order; the default apart, and a later one takes its place. *)
RECURSIVE Arms(_, _, _, _, _)
Arms(self, close, scrutinee, cases, default) ==
  LET stops == {"CASE", "DEFAULT", close}
  IN  CASE Peek(self) = ";" -> Arms(Eat(self), close, scrutinee, cases, default)
        [] Peek(self) = close -> Yield(Eat(self), <<"Switchon", scrutinee, cases, default>>)
        [] Peek(self) = "CASE" ->
             Then(Expr(Eat(self)), LAMBDA s1, v :
             Then(Expect(s1, ":"), LAMBDA s2, colon :
             Then(Statements(s2, stops, <<>>), LAMBDA st, body :
               Arms(st, close, scrutinee, Append(cases, <<v, body>>), default))))
        [] Peek(self) = "DEFAULT" ->
             Then(Expect(Eat(self), ":"), LAMBDA s1, colon :
             Then(Statements(s1, stops, <<>>), LAMBDA st, body :
               Arms(st, close, scrutinee, cases, <<body>>)))
        [] OTHER -> Fail(self)
ParseSwitchon(self) ==
  Then(Expr(self), LAMBDA s1, e :
    LET st == EatOptional(s1, {"INTO"})
    IN  IF Sees(st, Opens) THEN Arms(Eat(st), CloserOf(Peek(st)), e, <<>>, <<>>) ELSE Fail(st))

ParseUsing(self) ==
  Then(EatIdentifier(self), LAMBDA s1, n :
  Then(Expect(s1, "="), LAMBDA s2, eq :
    Guarded(s2, {"DO", "THEN"}, LAMBDA end, e, s : Yield(end, <<"USING", n, e, s>>))))
ParseRetain(self) ==
  Then(EatIdentifier(self), LAMBDA st, n :
    IF Peek(st) # "=" THEN Yield(st, <<"RETAIN", n, <<>> >>)
    ELSE Then(Expr(Eat(st)), LAMBDA end, e : Yield(end, <<"RETAIN", n, <<e>> >>)))

(* A call or another expression on its own, or an assignment of as many values as targets. *)
AssignTo(self, targets, Values(_)) ==
  Then(Values(self), LAMBDA st, values :
    IF Len(values) = Len(targets) THEN Yield(st, <<"Assign", targets, values>>) ELSE Fail(st))
One(self) == Then(Expr(self), LAMBDA st, e : Yield(st, <<e>>))
ExprOrAssign(self) ==
  Then(Exprs(self), LAMBDA st, es :
    IF Peek(st) = ":=" THEN IF Len(es) = 1 THEN AssignTo(Eat(st), es, One)
                                           ELSE AssignTo(Eat(st), es, Exprs)
    ELSE IF Len(es) = 1 THEN Yield(st, <<"Expr", es[1]>>) ELSE Fail(st))

DeclStarts == {"LET", "FLET", "GET", "MANIFEST", "STATIC", "GLOBAL", "GLOBALS"}
OneWord == {"RETURN", "FINISH", "BREAK", "LOOP", "ENDCASE", "BRK"}
BasicStmt(self) ==
  LET t == Peek(self)
      next == Eat(self)
  IN  CASE t \in Idents /\ LookaheadIsColon(self) -> Yield(Eat(next), <<"Label", t>>)
        [] t \in Opens -> Block(self, FALSE)
        [] t \in DeclStarts -> Then(ParseDecl(self), LAMBDA st, d : Yield(st, <<"Decl", d>>))
        [] t = "IF" -> ParseIf(next)
        [] t = "TEST" -> ParseTest(next)
        [] t = "UNLESS" -> Loop(next, t, {"THEN", "DO"})
        [] t \in {"WHILE", "UNTIL"} -> Loop(next, t, {"DO"})
        [] t = "FOR" -> ParseFor(next)
        [] t = "FOREACH" -> ParseForEach(next)
        [] t = "SWITCHON" -> ParseSwitchon(next)
        [] t = "RESULTIS" -> Then(Expr(next), LAMBDA st, e : Yield(st, <<t, e>>))
        [] t \in OneWord -> Yield(next, <<t>>)
        [] t = "GOTO" -> Then(EatIdentifier(next), LAMBDA st, l : Yield(st, <<t, l>>))
        [] t = "RETAIN" -> ParseRetain(next)
        [] t = "POOL" -> Block(next, TRUE)
        [] t = "USING" -> ParseUsing(next)
        [] OTHER -> ExprOrAssign(self)

(* One suffix at most. *)
StmtRule(self) ==
  Then(BasicStmt(self), LAMBDA st, s :
    CASE Peek(st) = "REPEAT" -> Yield(Eat(st), <<"REPEAT", s>>)
      [] Peek(st) \in {"REPEATWHILE", "REPEATUNTIL"} ->
           Then(Expr(Eat(st)), LAMBDA end, e : Yield(end, <<Peek(st), s, e>>))
      [] OTHER -> Yield(st, s))

(***************************************************************************)
(* Declarations.                                                           *)
(***************************************************************************)
RECURSIVE NamedBindings(_, _, _, _, _), AsmBody(_, _, _), AndChain(_)
NamedBindings(self, close, initRequired, allowColon, read) ==
  LET st == EatOptional(self, {"LET", "FLET"})
  IN  CASE Peek(self) = ";" -> NamedBindings(Eat(self), close, initRequired, allowColon, read)
        [] Peek(self) = close -> Yield(Eat(self), read)
        [] OTHER ->
             Then(EatIdentifier(st), LAMBDA s1, n :
               CASE Peek(s1) = "=" \/ (allowColon /\ Peek(s1) = ":") ->
                      Then(Expr(Eat(s1)), LAMBDA s2, e :
                        NamedBindings(s2, close, initRequired, allowColon, Append(read, <<n, <<e>> >>)))
                 [] Peek(s1) \notin {"=", ":"} /\ ~initRequired ->
                      NamedBindings(s1, close, initRequired, allowColon, Append(read, <<n, <<>> >>))
                 [] OTHER -> Fail(s1))
BindingsBlock(self, initRequired, allowColon) ==
  IF Sees(self, Opens)
  THEN NamedBindings(Eat(self), CloserOf(Peek(self)), initRequired, allowColon, <<>>)
  ELSE Fail(self)

ManifestDecl(self) ==
  Then(BindingsBlock(self, TRUE, TRUE), LAMBDA st, bs : Yield(st, <<"MANIFEST", bs>>))
StaticDecl(self) ==
  Then(IF Sees(self, Opens) THEN BindingsBlock(self, FALSE, TRUE)
       ELSE Then(EatIdentifier(self), LAMBDA st, n : Yield(st, <<<<n, <<>> >> >>)),
       LAMBDA st, bs : Yield(st, <<"STATIC", bs>>))
GlobalDecl(self) ==
  Then(IF Sees(self, Opens) THEN BindingsBlock(self, TRUE, FALSE)
       ELSE Then(EatIdentifier(self), LAMBDA s1, n :
            Then(Expect(s1, "="), LAMBDA s2, eq :
            Then(Expr(s2), LAMBDA st, e : Yield(st, <<<<n, <<e>> >> >>)))),
       LAMBDA st, bs : Yield(st, <<"GLOBAL", bs>>))

(* The raw tokens up to the brace that closes the body. *)
AsmBody(self, depth, body) ==
  CASE Peek(self) = Eof -> Fail(self)
    [] Peek(self) = "}" /\ depth = 1 -> Yield(Eat(self), body)
    [] OTHER -> AsmBody(Eat(self), CASE Peek(self) = "{" -> depth + 1
                                     [] Peek(self) = "}" -> depth - 1
                                     [] OTHER -> depth, Append(body, Peek(self)))
Asm(self, name, params, annotation, isFunction) ==
  Then(Expect(Eat(self), "{"), LAMBDA s1, open :
  Then(AsmBody(s1, 1, <<>>), LAMBDA st, body :
    Yield(st, <<"AsmProc", name, params, annotation, isFunction, body>>)))

(* name was read, and the parenthesis: a function, a routine or assembler.  The result's *)
(* AS is kept by an assembler function only.                                             *)
ProcedureTail(self, name) ==
  Then(Parameters(self), LAMBDA s1, ps :
  Then(OptionalAs(s1), LAMBDA s2, a :
    CASE Peek(s2) = "=" /\ PeekNext(s2) = "ASM" -> Asm(Eat(s2), name, ps, a, TRUE)
      [] Peek(s2) = "=" /\ PeekNext(s2) # "ASM" ->
           Then(Expr(Eat(s2)), LAMBDA st, e : Yield(st, <<"Function", name, ps, e>>))
      [] Peek(s2) = "BE" /\ PeekNext(s2) = "ASM" -> Asm(Eat(s2), name, ps, <<>>, FALSE)
      [] Peek(s2) = "BE" /\ PeekNext(s2) # "ASM" ->
           Then(ParseStmt(Eat(s2)), LAMBDA st, s : Yield(st, <<"Routine", name, ps, s>>))
      [] OTHER -> Fail(s2)))

(* AND f(...) after a procedure: the rest of the chain goes to the program's top level. *)
AndChain(self) ==
  IF ~LooksLikeDeclTail(self) THEN Yield(self, <<>>)
  ELSE Then(ProcedureTail(Eat(Eat(Eat(self))), PeekNext(self)), LAMBDA st, d :
         AndChain([st EXCEPT !.pending = Append(@, d)]))

(* As many expressions as names, or one that all the names take apart. *)
Bind(self, kind, first) ==
  Then(OptionalAs(self), LAMBDA s1, a :
  Then(MoreNames(s1, <<<<first, a>> >>, NoLimit), LAMBDA s2, names :
  Then(Expect(s2, "="), LAMBDA s3, eq :
  Then(Exprs(s3), LAMBDA st, es :
    IF Len(es) \in {1, Len(names)} THEN Yield(st, <<kind, names, es>>) ELSE Fail(st)))))
LetDecl(self, kind) ==
  Then(EatIdentifier(self), LAMBDA s1, n :
    IF Peek(s1) # "(" THEN Bind(s1, kind, n)
    ELSE Then(ProcedureTail(Eat(s1), n), LAMBDA s2, d :
         IF d[1] = "AsmProc" THEN Yield(s2, d)
         ELSE Then(AndChain(s2), LAMBDA st, rest : Yield(st, d))))

(***************************************************************************)
(* Classes: EXTENDS and MANAGED in any order, then members, each with the  *)
(* visibility of the last PUBLIC:, PRIVATE: or PROTECTED: before it.       *)
(***************************************************************************)
Fields(self, visibility) ==
  Then(TypedNames(Eat(self)), LAMBDA st, ns : Yield(st, <<"Fields", visibility, ns>>))
FLetMember(self, visibility) ==
  Then(EatIdentifier(Eat(self)), LAMBDA st, n :
    IF Peek(st) # "=" THEN Yield(st, <<"FLet", visibility, n, <<>> >>)
    ELSE Then(Expr(Eat(st)), LAMBDA end, e : Yield(end, <<"FLet", visibility, n, <<e>> >>)))

(* = or BE tells a function from a routine here, whichever the keyword said. *)
Method(self, visibility, virtual, final) ==
  Then(EatIdentifier(Eat(self)), LAMBDA s1, n :
  Then(Expect(s1, "("), LAMBDA s2, open :
  Then(Parameters(s2), LAMBDA s3, ps :
    LET End(body) == <<"Method", visibility, virtual, final, n, ps, body>>
    IN  CASE Peek(s3) = "=" ->
               Then(Expr(Eat(s3)), LAMBDA st, e : Yield(st, End(<<"Function", e>>)))
          [] Peek(s3) = "BE" ->
               Then(ParseStmt(Eat(s3)), LAMBDA st, s : Yield(st, End(<<"Routine", s>>)))
          [] OTHER -> Fail(s3))))

(* LET and names only, to the first that is followed by anything but a comma. *)
LookaheadIsFieldLet(self) ==
  \E n \in 0 .. (Len(self.tokens) - self.at) :
    LET last == self.at + 2 * n + 1
    IN  /\ \A i \in 0 .. n : TokenAt(self, self.at + 2 * i + 1) \in Idents
        /\ \A i \in 1 .. n : TokenAt(self, self.at + 2 * i) = ","
        /\ TokenAt(self, last + 1) \notin {",", "=", "(", "AS"}

(* The members LET may stand for.  An assembler procedure is not among them: the code's *)
(* match calls that unreachable and panics.                                            *)
Panic(self) == [Fail(self) EXCEPT !.tree = <<"panic">>]
LetMember(self, visibility) ==
  Then(LetDecl(Eat(self), "LET"), LAMBDA st, d :
    CASE d[1] = "LET" -> Yield(st, <<"LetMember", visibility, d>>)
      [] d[1] \in {"Function", "Routine"} ->
           Yield(st, <<"Method", visibility, FALSE, FALSE, d[2], d[3], <<d[1], d[4]>> >>)
      [] d[1] = "AsmProc" -> Panic(st))

RECURSIVE ClassMember(_, _, _, _)
ClassMember(self, visibility, virtual, final) ==
  CASE Peek(self) = "VIRTUAL" /\ ~virtual -> ClassMember(Eat(self), visibility, TRUE, final)
    [] Peek(self) = "FINAL" /\ ~final -> ClassMember(Eat(self), visibility, virtual, TRUE)
    [] Sees(self, {"ROUTINE", "FUNCTION"}) -> Method(self, visibility, virtual, final)
    [] ~virtual /\ ~final /\ Peek(self) = "DECL" -> Fields(self, visibility)
    [] ~virtual /\ ~final /\ Peek(self) = "LET" ->
         IF LookaheadIsFieldLet(self) THEN Fields(self, visibility) ELSE LetMember(self, visibility)
    [] ~virtual /\ ~final /\ Peek(self) = "FLET" -> FLetMember(self, visibility)
    [] OTHER -> Fail(self)

Visibilities == {"PUBLIC", "PRIVATE", "PROTECTED"}
RECURSIVE Members(_, _, _, _)
Members(self, close, visibility, read) ==
  CASE Peek(self) = ";" -> Members(Eat(self), close, visibility, read)
    [] Peek(self) = close -> Yield(Eat(self), read)
    [] Sees(self, Visibilities) /\ LookaheadIsColon(self) ->
         Members(Eat(Eat(self)), close, Peek(self), read)
    [] OTHER -> Then(ClassMember(self, visibility, FALSE, FALSE), LAMBDA st, m :
                  Members(st, close, visibility, Append(read, m)))

RECURSIVE ClassHeader(_, _, _)
ClassHeader(self, extends, managed) ==
  CASE Peek(self) = "EXTENDS" /\ extends = <<>> ->
         Then(EatIdentifier(Eat(self)), LAMBDA st, n : ClassHeader(st, <<n>>, managed))
    [] Peek(self) = "MANAGED" /\ ~managed -> ClassHeader(Eat(self), extends, TRUE)
    [] OTHER -> Yield(EatOptional(self, {"BE"}), <<extends, managed>>)
ClassDecl(self) ==
  Then(EatIdentifier(self), LAMBDA s1, n :
  Then(ClassHeader(s1, <<>>, FALSE), LAMBDA s2, header :
    IF ~Sees(s2, Opens) THEN Fail(s2)
    ELSE Then(Members(Eat(s2), CloserOf(Peek(s2)), "PUBLIC", <<>>), LAMBDA st, ms :
           Yield(st, <<"CLASS", n, header[1], header[2], ms>>))))

DeclRule(self) ==
  LET next == Eat(self)
  IN  CASE Sees(self, {"LET", "FLET"}) -> LetDecl(next, Peek(self))
        [] Peek(self) = "GET" /\ Peek(next) \in Strings -> Yield(Eat(next), <<"GET", Peek(next)>>)
        [] Peek(self) = "MANIFEST" -> ManifestDecl(next)
        [] Peek(self) = "STATIC" -> StaticDecl(next)
        [] Peek(self) = "GLOBAL" -> GlobalDecl(next)
        [] Peek(self) = "CLASS" -> ClassDecl(next)
        [] OTHER -> Fail(self)

Rule(name, self) ==
  CASE name = "parse_expr" -> ExprRule(self)
    [] name = "parse_unary" -> UnaryRule(self)
    [] name = "parse_stmt" -> StmtRule(self)
    [] name = "parse_decl" -> DeclRule(self)

(* Each declaration, and after it what its chains have left. *)
RECURSIVE Items(_, _)
Items(self, items) ==
  CASE Peek(self) = Eof -> Yield(self, items)
    [] Peek(self) = ";" -> Items(Eat(self), items)
    [] OTHER -> Then(ParseDecl(self), LAMBDA st, d :
                  Items([st EXCEPT !.pending = <<>>], Append(items, d) \o st.pending))
ParseProgram(tokens) == Items(Start(tokens), <<>>)
=============================================================================
