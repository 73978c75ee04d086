------------------------------ MODULE Grammar ------------------------------
(***************************************************************************)
(* Tokens and syntax trees of NewBCPL, and the spelling of a tree.         *)
(*                                                                         *)
(* A token is its lexeme.  A tree is a tuple that begins with the name of  *)
(* its node; an optional part is a sequence of at most one element.        *)
(* Spell is the reference the parser is held against: it writes a tree     *)
(* with the fewest parentheses that the parser's own ladder calls for, and *)
(* with one keyword for each group of synonyms.  That ladder is not the    *)
(* manual's at its top: a prefix operator takes a whole postfix chain here *)
(* and binds tighter than the chain there (README, divergences).           *)
(***************************************************************************)
EXTENDS Naturals, Sequences, SequencesExt

CONSTANTS
  Idents, Ints, Reals, Strings, Characters,   \* the identifiers and literals of an instance
  TooLarge                                    \* the integers that do not fit a word

Eof == "<eof>"

(* The parser's ladder: each binary operator with its level and a spelling of it. *)
BinaryOps ==
  [ Mul |-> <<7, "*">>, Div |-> <<7, "/">>, Rem |-> <<7, "REM">>, FMul |-> <<7, "*.">>, FDiv |-> <<7, "/.">>,
    Add |-> <<6, "+">>, Sub |-> <<6, "-">>, FAdd |-> <<6, "+.">>, FSub |-> <<6, "-.">>,
    Shl |-> <<5, "<<">>, Shr |-> <<5, ">>">>,
    Eq |-> <<4, "=">>, Ne |-> <<4, "~=">>, Lt |-> <<4, "<">>, Le |-> <<4, "<=">>, Gt |-> <<4, ">">>,
    Ge |-> <<4, ">=">>, FEq |-> <<4, "=.">>, FNe |-> <<4, "~=.">>, FLt |-> <<4, "<.">>,
    FLe |-> <<4, "<=.">>, FGt |-> <<4, ">.">>, FGe |-> <<4, ">=.">>,
    BitAnd |-> <<3, "&">>, LogAnd |-> <<3, "AND">>,
    BitOr |-> <<2, "BOR">>, BitXor |-> <<2, "BXOR">>, LogOr |-> <<2, "OR">>, LogXor |-> <<2, "XOR">>,
    Eqv |-> <<2, "EQV">>, Neqv |-> <<2, "NEQV">> ]

UnaryOps ==
  [ Neg |-> "-", Not |-> "~", LogNot |-> "NOT", Hd |-> "HD", Tl |-> "TL", Rest |-> "REST", Len |-> "LEN",
    FreeVec |-> "FREEVEC", FreeList |-> "FREELIST", Indirection |-> "!", AddressOf |-> "@",
    CharIndirection |-> "%" ]

Subscripts == [ Subscript |-> "!", CharSubscript |-> "%", FloatSubscript |-> ".%" ]

(***************************************************************************)
(* Spelling.  An expression has a level; a place asks for a level at least *)
(* as high, and what is too loose for its place goes in parentheses.  A    *)
(* prefix operator (8) takes an operand with its calls, subscripts and     *)
(* members (9 and 10): -x() negates the result.                            *)
(***************************************************************************)
Level(e) ==
  CASE e[1] = "Conditional" -> 0
    [] e[1] = "Valof" -> IF e[2][1] = "Block" THEN 10 ELSE 0
    [] e[1] = "Unary" -> 8
    [] e[1] = "TypedConstruct" /\ e[2] \in {"VEC", "FVEC"} /\ Len(e[3]) = 1 -> 8
    [] e[1] = "Binary" /\ e[2] \in DOMAIN BinaryOps -> BinaryOps[e[2]][1]
    [] e[1] = "Binary" /\ e[2] \in DOMAIN Subscripts -> 8
    [] OTHER -> 10

Commas(pieces) ==
  FlattenSeq([i \in 1 .. Len(pieces) |-> IF i = 1 THEN pieces[i] ELSE <<",">> \o pieces[i]])
Semicolons(pieces) == FlattenSeq([i \in 1 .. Len(pieces) |-> pieces[i] \o <<";">>])
Paren(s) == <<"(">> \o s \o <<")">>
Typed(annotation) == IF annotation = <<>> THEN <<>> ELSE <<"AS">> \o annotation
Params(ps) == Paren(Commas([i \in 1 .. Len(ps) |-> <<ps[i][1]>> \o Typed(ps[i][2])]))

RECURSIVE Spell(_), Stmt(_), Decl(_)

At(e, level) == IF Level(e) >= level THEN Spell(e) ELSE Paren(Spell(e))
List(es) == Commas([i \in 1 .. Len(es) |-> Spell(es[i])])
Option(lead, es) == IF es = <<>> THEN <<>> ELSE lead \o Spell(es[1])

(* AND before a name and a parenthesis is read as the next declaration. *)
LikeDecl(s) == Len(s) > 1 /\ s[1] \in Idents /\ s[2] = "("
AfterAnd(s) == IF LikeDecl(s) THEN Paren(s) ELSE s

Spell(e) ==
  CASE e[1] \in {"Ident", "IntLit", "FloatLit", "StringLit", "CharLit", "BoolLit"} -> <<e[2]>>
    [] e[1] = "Null" -> <<"?">>
    [] e[1] = "Unary" -> <<UnaryOps[e[2]]>> \o At(e[3], 8)
    [] e[1] = "Conditional" ->
         At(e[2], 2) \o <<"->">> \o Spell(e[3]) \o <<",">> \o Spell(e[4])
    [] e[1] = "Call" -> At(e[2], 9) \o Paren(List(e[3]))
    [] e[1] = "Valof" -> <<"VALOF">> \o Stmt(e[2])
    [] e[1] = "New" -> <<"NEW", e[2]>> \o (IF e[3] = <<>> THEN <<>> ELSE Paren(List(e[3])))
    [] e[1] = "TypedConstruct" ->
         IF e[2] \in {"VEC", "FVEC"} /\ Len(e[3]) = 1 THEN <<e[2]>> \o At(e[3][1], 8)
         ELSE <<e[2]>> \o Paren(List(e[3]))
    [] e[1] = "ObjcMessage" ->
         <<"[">> \o At(e[2], 8)
         \o FlattenSeq([i \in 1 .. Len(e[3]) |->
              IF e[3][i][2] = <<>> THEN <<e[3][i][1]>>
              ELSE <<e[3][i][1], ":">> \o Spell(e[3][i][2][1]) \o Typed(e[3][i][3])])
         \o <<"]">> \o Typed(e[4])
    [] e[1] = "Binary" /\ e[2] \in DOMAIN BinaryOps ->
         LET level == BinaryOps[e[2]][1]
             right == At(e[4], level + 1)
         IN  At(e[3], level) \o <<BinaryOps[e[2]][2]>>
             \o (IF e[2] = "LogAnd" THEN AfterAnd(right) ELSE right)
    [] e[1] = "Binary" /\ e[2] \in DOMAIN Subscripts ->
         At(e[3], 9) \o <<Subscripts[e[2]]>> \o At(e[4], 8)
    [] e[1] = "Binary" /\ e[2] = "LaneAccess" -> At(e[3], 9) \o <<".", "|">> \o Spell(e[4]) \o <<"|">>
    [] e[1] = "Binary" /\ e[2] = "Dot" -> At(e[3], 9) \o <<".">> \o Spell(e[4])
    [] e[1] = "Binary" /\ e[2] = "Of" -> At(e[3], 9) \o <<"OF">> \o Spell(e[4])
    [] e[1] = "Binary" /\ e[2] = "Bitfield" ->
         At(e[3], 9) \o <<"%%">>
         \o Paren(IF e[4][1] = "Binary" /\ e[4][2] = "Bitfield"
                  THEN Spell(e[4][3]) \o <<",">> \o Spell(e[4][4])
                  ELSE Spell(e[4]))

Body(stmts) == Semicolons([i \in 1 .. Len(stmts) |-> Stmt(stmts[i])])
Cases(cs) ==
  FlattenSeq([i \in 1 .. Len(cs) |-> <<"CASE">> \o Spell(cs[i][1]) \o <<":">> \o Body(cs[i][2])])

Stmt(s) ==
  CASE s[1] = "Expr" -> Spell(s[2])
    [] s[1] = "Assign" -> List(s[2]) \o <<":=">> \o List(s[3])
    [] s[1] = "Block" ->
         (IF s[4] THEN <<"POOL">> ELSE <<>>)
         \o (IF s[3] THEN <<"{">> \o Body(s[2]) \o <<"}">> ELSE <<"$(">> \o Body(s[2]) \o <<"$)">>)
    [] s[1] = "If" -> <<"IF">> \o Spell(s[2]) \o <<"THEN">> \o Stmt(s[3])
                      \o (IF s[4] = <<>> THEN <<>> ELSE <<"ELSE">> \o Stmt(s[4][1]))
    [] s[1] \in {"UNLESS", "WHILE", "UNTIL"} -> <<s[1]>> \o Spell(s[2]) \o <<"DO">> \o Stmt(s[3])
    [] s[1] = "For" -> <<"FOR", s[2], "=">> \o Spell(s[3]) \o <<"TO">> \o Spell(s[4])
                       \o Option(<<"BY">>, s[5]) \o <<"DO">> \o Stmt(s[6])
    [] s[1] = "ForEach" ->
         LET names == Commas([i \in 1 .. Len(s[2]) |-> <<s[2][i]>>])
         IN  <<"FOREACH">> \o (IF Len(s[2]) \in {1, 2} THEN names ELSE Paren(names)) \o Typed(s[3])
         \o <<"IN">> \o Spell(s[4]) \o <<"DO">> \o Stmt(s[5])
    [] s[1] = "Switchon" ->
         <<"SWITCHON">> \o Spell(s[2]) \o <<"INTO", "$(">> \o Cases(s[3])
         \o (IF s[4] = <<>> THEN <<>> ELSE <<"DEFAULT", ":">> \o Body(s[4][1])) \o <<"$)">>
    [] s[1] = "RESULTIS" -> <<"RESULTIS">> \o Spell(s[2])
    [] s[1] \in {"REPEATWHILE", "REPEATUNTIL"} -> Stmt(s[2]) \o <<s[1]>> \o Spell(s[3])
    [] s[1] = "REPEAT" -> Stmt(s[2]) \o <<"REPEAT">>
    [] s[1] = "GOTO" -> <<"GOTO", s[2]>>
    [] s[1] = "Label" -> <<s[2], ":">>
    [] s[1] = "RETAIN" -> <<"RETAIN", s[2]>> \o Option(<<"=">>, s[3])
    [] s[1] = "USING" -> <<"USING", s[2], "=">> \o Spell(s[3]) \o <<"DO">> \o Stmt(s[4])
    [] s[1] = "Decl" -> Decl(s[2])
    [] OTHER -> <<s[1]>>

Names(ns) == Commas([i \in 1 .. Len(ns) |-> <<ns[i][1]>> \o Typed(ns[i][2])])
Bindings(bs) == Semicolons([i \in 1 .. Len(bs) |-> <<bs[i][1]>> \o Option(<<"=">>, bs[i][2])])
Member(m) ==
  <<m[2], ":">>
  \o CASE m[1] = "Fields" -> <<"DECL">> \o Names(m[3])
       [] m[1] = "FLet" -> <<"FLET", m[3]>> \o Option(<<"=">>, m[4])
       [] m[1] = "LetMember" -> Decl(m[3])
       [] m[1] = "Method" ->
            (IF m[3] THEN <<"VIRTUAL">> ELSE <<>>) \o (IF m[4] THEN <<"FINAL">> ELSE <<>>)
            \o (IF m[7][1] = "Function" THEN <<"FUNCTION">> ELSE <<"ROUTINE">>)
            \o <<m[5]>> \o Params(m[6])
            \o (IF m[7][1] = "Function" THEN <<"=">> \o Spell(m[7][2])
                                        ELSE <<"BE">> \o Stmt(m[7][2]))

Decl(d) ==
  CASE d[1] = "Function" -> <<"LET", d[2]>> \o Params(d[3]) \o <<"=">> \o Spell(d[4])
    [] d[1] = "Routine" -> <<"LET", d[2]>> \o Params(d[3]) \o <<"BE">> \o Stmt(d[4])
    [] d[1] = "AsmProc" -> <<"LET", d[2]>> \o Params(d[3]) \o Typed(d[4])
                           \o (IF d[5] THEN <<"=">> ELSE <<"BE">>) \o <<"ASM", "{">> \o d[6] \o <<"}">>
    [] d[1] \in {"LET", "FLET"} -> <<d[1]>> \o Names(d[2]) \o <<"=">> \o List(d[3])
    [] d[1] = "GET" -> <<"GET", d[2]>>
    [] d[1] \in {"MANIFEST", "STATIC", "GLOBAL"} -> <<d[1], "$(">> \o Bindings(d[2]) \o <<"$)">>
    [] d[1] = "CLASS" ->
         <<"CLASS", d[2]>> \o (IF d[3] = <<>> THEN <<>> ELSE <<"EXTENDS", d[3][1]>>)
         \o (IF d[4] THEN <<"MANAGED">> ELSE <<>>) \o <<"$(">>
         \o Semicolons([i \in 1 .. Len(d[5]) |-> Member(d[5][i])]) \o <<"$)">>

Program(items) == Semicolons([i \in 1 .. Len(items) |-> Decl(items[i])])
=============================================================================
