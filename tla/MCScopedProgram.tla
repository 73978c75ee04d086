---------------------------- MODULE MCScopedProgram ----------------------------
(* Routines built by nesting the constructs that open a cleanup scope or a  *)
(* frame around one exit, each with its own bindings.                       *)
EXTENDS ScopedProgram

CONSTANTS
  Families,   \* kinds of routines: wrappers, exits and promises
  MaxNesting  \* bound: constructs around the exit

O(d) == <<"o", d>>
P(d) == <<"p", d>>
V(d) == <<"v", d>>
U(d) == <<"u", d>>
Plain(stmts) == Block(FALSE, FALSE, stmts)

Wrap(w, d, hole) ==
  CASE w = "using"  -> Using(U(d), Plain(<<hole>>))
    [] w = "brace"  -> Block(TRUE, FALSE, <<Let(O(d), "new", Nil), Let(V(d), "vec", Nil), hole,
                                            Named("use", V(d))>>)
    [] w = "escape" -> Block(TRUE, FALSE, <<Let(V(d), "vec", Nil), Named("global", V(d)), hole>>)
    [] w = "outer"  -> Block(TRUE, FALSE, <<Let(V(d), "vec", Nil), hole,
                                            Assign(V(0), "copy", V(d))>>)
    [] w = "alias"  -> Block(TRUE, FALSE, <<Let(O(d), "new", Nil), Let(P(d), "new", Nil),
                                            Assign(O(d), "copy", P(d)), hole>>)
    [] w = "reset"  -> Block(TRUE, FALSE, <<Let(O(d), "new", Nil), hole,
                                            Assign(O(d), "new", Nil)>>)
    [] w = "pool"   -> Block(FALSE, TRUE, <<hole>>)
    [] w = "plain"  -> Plain(<<Let(V(d), "vec", Nil), hole, Named("use", V(d))>>)
    [] w = "owned"  -> Plain(<<Let(O(d), "new", Nil), hole>>)
    [] OTHER        -> Body(w, Plain(<<hole>>))

Loops == {"while", "for", "repeat", "repeatwhile"}

(* Each exit stands inside the construct it needs.                          *)
Fits(ws, x) ==
  CASE x \in {"break", "loop"} -> \E i \in DOMAIN ws : ws[i] \in Loops
    [] x = "endcase" -> \E i \in DOMAIN ws : ws[i] = "switch"
    [] OTHER -> TRUE

ExitStmt(x) ==
  CASE x = "goto"  -> Goto(1)
    [] x = "again" -> Goto(2)
    [] OTHER       -> Exit(x)

RECURSIVE Nest(_, _, _)
Nest(ws, d, hole) == IF d > Len(ws) THEN hole ELSE Wrap(ws[d], d, Nest(ws, d + 1, hole))

(* The exit is taken or not, or always; then the routine uses what its own  *)
(* scope holds.                                                             *)
Routine(ws, x, always) ==
  Plain(<<Let(O(0), "new", Nil), Let(V(0), "vec", Nil), Label(2),
          Nest(ws, 1, IF always THEN ExitStmt(x) ELSE Body("if", Plain(<<ExitStmt(x)>>))),
          Label(1), Named("use", V(0)), Exit("useglobal")>>)

Wrappers == UNION {f.wrappers : f \in Families}
Exits    == UNION {f.exits : f \in Families}
Nestings == UNION {[1 .. n -> Wrappers] : n \in 1 .. MaxNesting}

Belongs(ws, x, f) == ToSet(ws) \subseteq f.wrappers /\ x \in f.exits /\ Fits(ws, x)

MCPrograms ==
  {[body |-> Routine(p[1], p[2], p[3]), promises |-> p[4].promises] :
     p \in {q \in Nestings \X Exits \X BOOLEAN \X Families : Belongs(q[1], q[2], q[4])}}

Family(ws, xs, ps) ==
  [wrappers |-> ws, exits |-> xs, promises |-> ps]

(* Every construct around the structured exits. *)
Structured ==
  Family({"using", "brace", "escape", "outer", "alias", "pool", "while", "for", "repeat",
          "repeatwhile", "switch", "if", "valof"},
         {"skip", "return", "finish", "break", "loop", "endcase"}, {"using"})

(* Jumps skip cleanup, so less is promised of them. *)
Jumping ==
  Family({"using", "brace", "escape", "outer", "alias", "pool", "while", "repeat", "if", "valof"},
         {"goto", "again", "resultis"}, {})

(* Nothing escapes and no exit jumps over the end of a reclaim block. *)
Owning ==
  Family({"brace", "reset", "plain", "pool", "while", "for", "repeat", "repeatwhile", "switch",
          "if", "valof"}, {"skip", "return", "finish"}, {"owned"})

AllFamilies == {Structured, Jumping, Owning}
=============================================================================
