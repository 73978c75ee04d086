----------------------------- MODULE ClassTable -----------------------------
(***************************************************************************)
(* What semantic analysis makes of a program's classes: the table of their *)
(* fields and methods, the class it gives an expression, and the accesses  *)
(* it judges.  The table grows while bodies are analysed in the order they *)
(* are written, so what is known of an expression depends on where it is.  *)
(*                                                                         *)
(* A program is a sequence of classes and functions:                       *)
(*   [kind |-> "class", name, extends, members]                            *)
(*   [kind |-> "function", name, code]                                     *)
(* a member is a field ("decl", "let" or "flet") or a method:              *)
(*   [kind, name, vis, as, init]                                           *)
(*   [kind |-> "method", name, vis, as, final, code]                       *)
(* where as is the class a field, or a method's one parameter, is said to  *)
(* have; code is a sequence of <<"do", e>>, <<"let", x, e>>,               *)
(* <<"set", target, e>> and, for a FUNCTION, its one <<"result", e>>; an   *)
(* expression is <<"name", x>>, <<"new", C>>, <<"dot", e, f>>,             *)
(* <<"send", e, m>>, <<"call", f>> or <<"word">>.                          *)
(***************************************************************************)
EXTENDS Naturals, Sequences, SequencesExt, FiniteSets, TLC

CONSTANT NoClass                    \* None, where a class is optional

Param == "p"                        \* the name of a method's one parameter
Synthetic == [final |-> FALSE, vis |-> "public", result |-> NoClass]

(* The first element of s that satisfies Test, or NoClass. *)
FirstOf(s, Test(_)) ==
  IF \E i \in 1 .. Len(s) : Test(s[i]) THEN SelectSeq(s, Test)[1] ELSE NoClass
Named(s, name) == LET IsIt(x) == x.name = name IN FirstOf(s, IsIt)

(***************************************************************************)
(* register_class: the members of one declaration.                         *)
(***************************************************************************)
IsField(m) == m.kind # "method"
Initialised(m) == m.kind = "let" \/ (m.kind = "flet" /\ m.init # NoClass)
FieldInfo(m) ==
  [name |-> m.name, vis |-> m.vis,
   class |-> IF m.kind = "let" /\ m.init[1] = "new" THEN m.init[2] ELSE NoClass]
MethodInfo(m) == [name |-> m.name, vis |-> m.vis, final |-> m.final, result |-> NoClass]
IsMethod(m) == ~IsField(m)
MethodsOf(c) ==
  LET written == SelectSeq(c.members, IsMethod)
      declared == [i \in 1 .. Len(written) |-> MethodInfo(written[i])]
  IN  IF (\E i \in 1 .. Len(c.members) : Initialised(c.members[i])) /\ Named(declared, "CREATE") = NoClass
      THEN Append(declared, [name |-> "CREATE"] @@ Synthetic) ELSE declared
FieldsOf(c) ==
  LET written == SelectSeq(c.members, IsField) IN [i \in 1 .. Len(written) |-> FieldInfo(written[i])]
RegisterClass(classes, c) ==
  (c.name :> [extends |-> c.extends, fields |-> FieldsOf(c), methods |-> MethodsOf(c)]) @@ classes

(***************************************************************************)
(* The chain of a class and its ancestors, as far as they are declared,    *)
(* and what the first of them that has a member says of it.                *)
(***************************************************************************)
RECURSIVE Chain(_, _)
Chain(classes, c) ==
  IF c \notin DOMAIN classes THEN <<>> ELSE <<c>> \o Chain(classes, classes[c].extends)
IsClassOrDescendantOf(classes, c, ancestor) ==
  c = ancestor \/ Contains(Chain(classes, c), ancestor)
      \/ (c \in DOMAIN classes /\ classes[Last(Chain(classes, c))].extends = ancestor)

LookupField(classes, c, f) ==
  LET Has(a) == Named(classes[a].fields, f) # NoClass
      owner == FirstOf(Chain(classes, c), Has)
  IN  IF owner = NoClass THEN NoClass ELSE Named(classes[owner].fields, f) @@ [owner |-> owner]
LookupMethod(classes, c, m) ==
  LET Has(a) == Named(classes[a].methods, m) # NoClass
      owner == FirstOf(Chain(classes, c), Has)
  IN  IF owner = NoClass THEN NoClass ELSE Named(classes[owner].methods, m) @@ [owner |-> owner]

(* A field's class, unless it has one. *)
SetFieldClassIfUnset(classes, c, f, class) ==
  IF c \notin DOMAIN classes \/ class = NoClass \/ Named(classes[c].fields, f) = NoClass THEN classes
  ELSE LET at == CHOOSE i \in 1 .. Len(classes[c].fields) :
                   /\ classes[c].fields[i].name = f
                   /\ \A j \in 1 .. i - 1 : classes[c].fields[j].name # f
       IN  IF classes[c].fields[at].class # NoClass THEN classes
           ELSE [classes EXCEPT ![c].fields[at].class = class]

(* An annotation names a class when one of that name is registered. *)
FromAnnotation(classes, as) == IF as \in DOMAIN classes THEN as ELSE NoClass
RefineClassFieldAnnotations(classes, c) ==
  LET Refine(t, m) == IF IsField(m) /\ m.kind # "flet"
                      THEN SetFieldClassIfUnset(t, c.name, m.name, FromAnnotation(t, m.as)) ELSE t
  IN  FoldLeft(Refine, classes, c.members)

(* A method written in a subclass must not be FINAL where its name is first found above. *)
CheckFinalOverridesParentOnly(classes, c) ==
  { [error |-> "final", owner |-> c.extends, member |-> m.name, here |-> c.name] :
      m \in {x \in {c.members[i] : i \in 1 .. Len(c.members)} :
               /\ x.kind = "method" /\ c.extends \in DOMAIN classes
               /\ Named(classes[c.extends].methods, x.name) # NoClass
               /\ Named(classes[c.extends].methods, x.name).final} }
CheckFinalOverrides(classes, c) ==
  { [error |-> "final", owner |-> LookupMethod(classes, c.extends, m.name).owner, member |-> m.name, here |-> c.name] :
      m \in {x \in {c.members[i] : i \in 1 .. Len(c.members)} :
               /\ x.kind = "method"
               /\ LookupMethod(classes, c.extends, x.name) # NoClass
               /\ LookupMethod(classes, c.extends, x.name).final} }

(***************************************************************************)
(* Expressions: their class, and the accesses type_of judges on the way.   *)
(* s is the analysis so far, env the classes of the names in scope, here   *)
(* the class whose method is analysed.                                     *)
(***************************************************************************)
RECURSIVE ClassOfExpr(_, _, _)
ClassOfExpr(s, env, e) ==
  CASE e[1] = "name" -> IF e[2] \in DOMAIN env THEN env[e[2]] ELSE NoClass
    [] e[1] = "new"  -> e[2]
    [] e[1] = "dot"  -> LET f == LookupField(s.classes, ClassOfExpr(s, env, e[2]), e[3])
                        IN  IF f = NoClass THEN NoClass ELSE f.class
    [] e[1] = "send" -> LET m == LookupMethod(s.classes, ClassOfExpr(s, env, e[2]), e[3])
                        IN  IF m = NoClass THEN NoClass ELSE m.result
    [] e[1] = "call" -> IF e[2] \in DOMAIN s.functions THEN s.functions[e[2]] ELSE NoClass
    [] OTHER         -> NoClass

Allowed(classes, here, member) ==
  \/ member.vis = "public"
  \/ member.vis = "private" /\ here = member.owner
  \/ member.vis = "protected" /\ here # NoClass /\ IsClassOrDescendantOf(classes, here, member.owner)
CheckMemberVisibility(classes, here, member) ==
  [owner |-> member.owner, member |-> member.name, ok |-> Allowed(classes, here, member)]

RECURSIVE Judged(_, _, _, _)
Judged(s, here, env, e) ==
  CASE e[1] = "dot" ->
         LET f == LookupField(s.classes, ClassOfExpr(s, env, e[2]), e[3])
         IN  Judged(s, here, env, e[2]) \cup
             (IF f = NoClass THEN {} ELSE {[e |-> e] @@ CheckMemberVisibility(s.classes, here, f)})
    [] e[1] = "send" ->
         LET m == LookupMethod(s.classes, ClassOfExpr(s, env, e[2]), e[3])
         IN  Judged(s, here, env, <<"dot", e[2], e[3]>>) \cup
             (IF m = NoClass THEN {} ELSE {[e |-> e] @@ CheckMemberVisibility(s.classes, here, m)})
    [] OTHER -> {}

(***************************************************************************)
(* Bodies.  A judgment is kept with the body it was made in, so that it    *)
(* can be held against what the body is lowered to.                        *)
(***************************************************************************)
Operands(stmt) ==                   \* a statement's expressions, the one it computes last
  CASE stmt[1] = "let" -> <<stmt[3]>>
    [] stmt[1] = "set" -> <<stmt[2], stmt[3]>>
    [] OTHER           -> <<stmt[2]>>
(* SELF.f := NEW C tells what f holds, for the bodies still to come. *)
BackFill(classes, env, stmt, class) ==
  IF stmt[1] = "set" /\ stmt[2][1] = "dot" /\ stmt[2][2] = <<"name", "SELF">> /\ "SELF" \in DOMAIN env
  THEN SetFieldClassIfUnset(classes, env["SELF"], stmt[2][3], class) ELSE classes
AfterStmt(s, env, stmt, judged, class) ==
  [s |-> [s EXCEPT !.judged = @ \cup judged, !.classes = BackFill(@, env, stmt, class)],
   env |-> IF stmt[1] = "let" THEN (stmt[2] :> class) @@ env ELSE env, result |-> class]
AnalyzeStmt(s, where, env, stmt) ==
  AfterStmt(s, env, stmt,
            {[where |-> where] @@ j : j \in UNION {Judged(s, where[1], env, e) : e \in ToSet(Operands(stmt))}},
            ClassOfExpr(s, env, Last(Operands(stmt))))
(* The result is the class of the expression a FUNCTION is; a ROUTINE has none. *)
RECURSIVE AnalyzeBody(_, _, _)
AnalyzeBody(state, where, code) ==
  IF code = <<>> THEN state
  ELSE AnalyzeBody(AnalyzeStmt(state.s, where, state.env, code[1]), where, Tail(code))
Body(s, where, env, code) ==
  AnalyzeBody([s |-> s, env |-> env, result |-> NoClass], where, code)
ResultOf(code, state) == IF code # <<>> /\ code[1][1] = "result" THEN state.result ELSE NoClass

MethodScope(s, c, m) ==
  ("SELF" :> c.name) @@ ("SUPER" :> c.extends) @@ (Param :> FromAnnotation(s.classes, m.as))
WithResult(s, c, m, result) ==
  [s EXCEPT !.classes[c].methods = [i \in DOMAIN @ |-> IF @[i].name = m THEN [@[i] EXCEPT !.result = result] ELSE @[i]]]
AfterMethod(c, m, body) == WithResult(body.s, c.name, m.name, ResultOf(m.code, body))
AnalyzeClassMember(s, c, m) ==
  IF IsField(m) THEN s
  ELSE AfterMethod(c, m, Body(s, <<c.name, m.name>>, MethodScope(s, c, m), m.code))
RECURSIVE AnalyzeClassBody(_, _, _)
AnalyzeClassBody(s, c, members) ==
  IF members = <<>> THEN s ELSE AnalyzeClassBody(AnalyzeClassMember(s, c, members[1]), c, Tail(members))
AfterFunction(d, body) == [body.s EXCEPT !.functions = (d.name :> ResultOf(d.code, body)) @@ @]
AnalyzeDecl(s, d) ==
  IF d.kind = "class" THEN AnalyzeClassBody(s, d, d.members)
  ELSE AfterFunction(d, Body(s, <<NoClass, d.name>>, <<>>, d.code))
RECURSIVE AnalyzeDecls(_, _)
AnalyzeDecls(s, decls) == IF decls = <<>> THEN s ELSE AnalyzeDecls(AnalyzeDecl(s, decls[1]), Tail(decls))

(* analyze_program: the classes, their annotations, the overrides, the functions, the bodies. *)
IsClass(d) == d.kind = "class"
RECURSIVE RegisterClasses(_, _), RefineClasses(_, _)
RegisterClasses(classes, decls) ==
  IF decls = <<>> THEN classes ELSE RegisterClasses(RegisterClass(classes, decls[1]), Tail(decls))
RefineClasses(classes, decls) ==
  IF decls = <<>> THEN classes ELSE RefineClasses(RefineClassFieldAnnotations(classes, decls[1]), Tail(decls))
FinalErrors(classes, decls) == UNION {CheckFinalOverrides(classes, decls[i]) : i \in 1 .. Len(decls)}
VisibilityErrors(judged) ==
  {[error |-> "visibility", owner |-> j.owner, member |-> j.member, here |-> j.where[1]] : j \in {x \in judged : ~x.ok}}
Start(classes, program) ==
  [classes |-> classes, judged |-> {}, errors |-> FinalErrors(classes, SelectSeq(program, IsClass)),
   functions |-> [f \in {program[i].name : i \in {j \in 1 .. Len(program) : ~IsClass(program[j])}} |-> NoClass]]
Declared(declared) == RefineClasses(RegisterClasses(<<>>, declared), declared)
Finish(s) == [s EXCEPT !.errors = @ \cup VisibilityErrors(s.judged)]
AnalyzeProgram(program) ==
  Finish(AnalyzeDecls(Start(Declared(SelectSeq(program, IsClass)), program), program))
=============================================================================
