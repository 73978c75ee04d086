---------------------------- MODULE ObjectModel ----------------------------
(***************************************************************************)
(* From the class table to running objects: the layout of every class, the *)
(* code the lowering emits for fields, messages and NEW, the functions of  *)
(* the emitted module, and the classes registered with the Objective-C     *)
(* runtime before START, which then finds methods and instance variables   *)
(* by name in an object's own class.                                       *)
(***************************************************************************)
EXTENDS ClassTable

CONSTANTS ClassNames,               \* the names a program may give its classes, in order
          CocoaClasses,             \* the classes Cocoa itself registered, NSObject among them
          WordBytes                 \* size of a field

NSObject == "NSObject"
ASSUME ObjectModelAssumption ==
  IsInjective(ClassNames) /\ NSObject \in CocoaClasses /\ WordBytes \in Nat \ {0}

(***************************************************************************)
(* compute_one: fields and vtable of the parent come first; an own method  *)
(* takes the slot of the method it overrides.  Slots count from 0.         *)
(***************************************************************************)
RootVtable ==
  << [name |-> "CREATE", definer |-> NoClass, result |-> NoClass],
     [name |-> "RELEASE", definer |-> NoClass, result |-> NoClass] >>
Root == [fields |-> <<>>, vtable |-> RootVtable, size |-> WordBytes]

AddFieldNoReset(c, layout, f) ==
  [layout EXCEPT !.fields = Append(@, [name |-> f.name, class |-> f.class, definer |-> c, offset |-> layout.size,
                                       own |-> layout.size - WordBytes]),
                 !.size = @ + WordBytes]
AddField(c, layout, f) ==
  LET own == {i \in 1 .. Len(layout.fields) : layout.fields[i].definer = c}
  IN  [layout EXCEPT !.fields = Append(@, [name |-> f.name, class |-> f.class, definer |-> c, offset |-> layout.size,
                                           own |-> WordBytes * Cardinality(own)]),
                     !.size = @ + WordBytes]
AddMethodNewSlot(c, layout, m) ==
  [layout EXCEPT !.vtable = Append(@, [name |-> m.name, definer |-> c, result |-> m.result])]
AddMethod(c, layout, m) ==
  LET slots == {i \in 1 .. Len(layout.vtable) : layout.vtable[i].name = m.name}
      Replace(entry) == [entry EXCEPT !.definer = c, !.result = IF m.result # NoClass THEN m.result ELSE @]
  IN  IF slots = {} THEN [layout EXCEPT !.vtable = Append(@, [name |-> m.name, definer |-> c, result |-> m.result])]
      ELSE [layout EXCEPT !.vtable[CHOOSE i \in slots : TRUE] = Replace(@)]

RECURSIVE ComputeOne(_, _)
ComputeOne(classes, c) ==
  LET parent == classes[c].extends
      inherited == IF parent \in DOMAIN classes THEN ComputeOne(classes, parent) ELSE Root
      Field(layout, f) == AddField(c, layout, f)
      Method(layout, m) == AddMethod(c, layout, m)
      start == [fields |-> inherited.fields, vtable |-> inherited.vtable, size |-> inherited.size]
      done == FoldLeft(Method, FoldLeft(Field, start, classes[c].fields), classes[c].methods)
  IN  [extends |-> parent, ownSize |-> WordBytes * Len(classes[c].fields)] @@ done
ComputeLayouts(classes) == [c \in DOMAIN classes |-> ComputeOne(classes, c)]

(***************************************************************************)
(* Lowering.  p is the program's IR so far as it is needed here: layouts   *)
(* and the classes of function results.                                    *)
(***************************************************************************)
LookupFieldLoc(layouts, c, f) ==
  IF c \notin DOMAIN layouts THEN NoClass ELSE Named(layouts[c].fields, f)
ParentClassOf(layouts, c) == IF c \in DOMAIN layouts THEN layouts[c].extends ELSE NoClass
LookupMethodSlot(layouts, c, m) ==
  IF c \notin DOMAIN layouts THEN NoClass ELSE Named(layouts[c].vtable, m)

RECURSIVE ClassNameOfExpr(_, _, _, _)
ClassNameOfExpr(p, here, env, e) ==
  CASE e[1] = "new" -> e[2]
    [] e = <<"name", "SELF">> /\ here # NoClass -> here
    [] e = <<"name", "SUPER">> -> ParentClassOf(p.layouts, here)
    [] e[1] = "name" /\ e # <<"name", "SUPER">> /\ ~(e = <<"name", "SELF">> /\ here # NoClass) ->
         IF e[2] \in DOMAIN env THEN env[e[2]] ELSE NoClass
    [] e[1] = "dot" -> LET f == LookupFieldLoc(p.layouts, ClassNameOfExpr(p, here, env, e[2]), e[3])
                       IN  IF f = NoClass THEN NoClass ELSE f.class
    [] e[1] = "send" -> LET m == LookupMethodSlot(p.layouts, ClassNameOfExpr(p, here, env, e[2]), e[3])
                        IN  IF m = NoClass THEN NoClass ELSE m.result
    [] e[1] = "call" -> IF e[2] \in DOMAIN p.functions THEN p.functions[e[2]] ELSE NoClass
    [] OTHER -> NoClass

MangleMethod(c, m) == c \o "_" \o m

(* The instruction an expression ends in: a field of an object, a direct call, a message. *)
FieldInstr(loc) == <<"field", loc.definer, loc.own>>
LowerAccess(p, here, env, e) ==
  CASE e[1] = "dot" ->
         LET loc == LookupFieldLoc(p.layouts, ClassNameOfExpr(p, here, env, e[2]), e[3])
         IN  IF loc = NoClass THEN <<"null">> ELSE FieldInstr(loc)
    [] e[1] = "send" ->
         IF e[2] = <<"name", "SUPER">> /\ ParentClassOf(p.layouts, here) # NoClass
         THEN <<"call", MangleMethod(ParentClassOf(p.layouts, here), e[3])>>
         ELSE <<"message", e[3]>>
    [] e[1] = "new" -> <<"new", e[2]>>
    [] e[1] = "call" -> <<"call", e[2]>>
    [] e[1] = "name" /\ e[2] \notin DOMAIN env /\ here # NoClass ->       \* lower_ident, a bare field
         LET loc == LookupFieldLoc(p.layouts, here, e[2])
         IN  IF loc = NoClass THEN <<"word">> ELSE FieldInstr(loc)
    [] OTHER -> <<"word">>

RECURSIVE LowerExpr(_, _, _, _)
LowerExpr(p, here, env, e) ==
  {[e |-> e, on |-> IF e[1] \in {"dot", "send"} THEN ClassNameOfExpr(p, here, env, e[2]) ELSE here,
    instr |-> LowerAccess(p, here, env, e)]}
  \cup (IF e[1] \in {"dot", "send"} THEN LowerExpr(p, here, env, e[2]) ELSE {})

LowerBody(p, where, env, code) ==
  LET here == where[1]
      Low(state, e) == state.out \cup {[where |-> where] @@ a : a \in LowerExpr(p, here, state.env, e)}
      Step(state, stmt) ==
        CASE stmt[1] = "let" -> [env |-> (stmt[2] :> ClassNameOfExpr(p, here, state.env, stmt[3])) @@ state.env,
                                 out |-> Low(state, stmt[3])]
          [] stmt[1] = "set" -> [state EXCEPT !.out = Low(state, stmt[2]) \cup Low(state, stmt[3])]
          [] OTHER           -> [state EXCEPT !.out = Low(state, stmt[2])]
  IN  FoldLeft(Step, [env |-> env, out |-> {}], code).out

(***************************************************************************)
(* lower_class: every method, with the initialisers at the head of CREATE, *)
(* or a CREATE of their own.  A function is [symbol, of, runs]: its name,  *)
(* whose it is, and the fields it initialises first.                       *)
(***************************************************************************)
Initialisers(c) ==
  LET m == SelectSeq(c.members, Initialised) IN [i \in 1 .. Len(m) |-> m[i].name]
LowerClass(p, c) ==
  LET methods == SelectSeq(c.members, IsMethod)
      hasCreate == \E i \in 1 .. Len(methods) : methods[i].name = "CREATE"
      Function(name, code, as) ==
        [symbol |-> MangleMethod(c.name, name), of |-> <<c.name, name>>,
         inits |-> IF name # "CREATE" THEN <<>>
                   ELSE [i \in 1 .. Len(Initialisers(c)) |->
                           LET loc == LookupFieldLoc(p.layouts, c.name, Initialisers(c)[i])
                           IN  IF loc = NoClass THEN <<"none">> ELSE FieldInstr(loc)],
         uses |-> LowerBody(p, <<c.name, name>>,
                            ("SELF" :> c.name) @@ ("_cmd" :> NoClass) @@ (Param :> FromAnnotation(p.layouts, as)), code)]
  IN  [i \in 1 .. Len(methods) |-> Function(methods[i].name, methods[i].code, methods[i].as)]
      \o (IF hasCreate \/ Initialisers(c) = <<>> THEN <<>> ELSE <<Function("CREATE", <<>>, NoClass)>>)
LowerDecl(p, d) ==
  IF IsClass(d) THEN LowerClass(p, d)
  ELSE << [symbol |-> d.name, of |-> <<NoClass, d.name>>, inits |-> <<>>,
           uses |-> LowerBody(p, <<NoClass, d.name>>, <<>>, d.code)] >>
Lower(program, sema) ==
  LET p == [layouts |-> ComputeLayouts(sema.classes), functions |-> sema.functions]
  IN  p @@ [code |-> FlattenSeq([i \in 1 .. Len(program) |-> LowerDecl(p, program[i])])]

(* The emitted module declares one function to a name: its entry is the first body it got. *)
FunctionNamed(module, symbol) == LET IsIt(f) == f.symbol = symbol IN FirstOf(module.code, IsIt)
CreateOwner(module, c) ==
  IF c \notin DOMAIN module.layouts THEN NoClass ELSE Named(module.layouts[c].vtable, "CREATE").definer
Callee(module, instr) ==            \* the symbols an instruction calls
  CASE instr[1] = "call" -> {instr[2]}
    [] instr[1] = "new"  -> IF CreateOwner(module, instr[2]) = NoClass THEN {}
                            ELSE {MangleMethod(CreateOwner(module, instr[2]), "CREATE")}
    [] OTHER             -> {}
Uses(module) == UNION {module.code[i].uses : i \in 1 .. Len(module.code)}
MissingBuiltins(module) ==
  {s \in UNION {Callee(module, a.instr) : a \in Uses(module)} : FunctionNamed(module, s) = NoClass}

(***************************************************************************)
(* The class registrar: superclasses first, each class with its own fields *)
(* as one instance variable and the methods that are its own.  A           *)
(* registered class is [super, ivar, methods]; run names keep the classes  *)
(* of one run apart from Cocoa's.                                          *)
(***************************************************************************)
RECURSIVE Depth(_, _)
Depth(layouts, c) == IF layouts[c].extends \in DOMAIN layouts THEN 1 + Depth(layouts, layouts[c].extends) ELSE 0
OrderByName(layouts) == LET Is(c) == c \in DOMAIN layouts IN SelectSeq(ClassNames, Is)
Order(layouts) ==                   \* sorted by name, then by depth, equals kept as they are
  LET OfDepth(n) == LET At(c) == c \in DOMAIN layouts /\ Depth(layouts, c) = n IN SelectSeq(ClassNames, At)
  IN  FlattenSeq([n \in 1 .. Len(ClassNames) |-> OfDepth(n - 1)])

DefaultMethod == <<"__newbcpl_default_method">>
MethodTable(module, c) ==
  LET layout == module.layouts[c]
      own == {layout.vtable[i].name : i \in {j \in 1 .. Len(layout.vtable) : layout.vtable[j].definer = c}}
      emitted == {m \in own : FunctionNamed(module, MangleMethod(c, m)) # NoClass}
      undefined == {m \in {"CREATE", "RELEASE"} : Named(layout.vtable, m).definer = NoClass}
  IN  [m \in emitted |-> FunctionNamed(module, MangleMethod(c, m)).of]
      @@ (IF layout.extends = NoClass THEN [m \in undefined |-> DefaultMethod] ELSE <<>>)

RegisterJit(module, registered, c) ==
  LET base == module.layouts[c].extends
      super == IF base = NoClass THEN NSObject
               ELSE IF base \in DOMAIN registered \cup CocoaClasses THEN base ELSE NSObject
  IN  IF c \in DOMAIN registered THEN registered
      ELSE (c :> [super |-> super, ivar |-> module.layouts[c].ownSize, methods |-> MethodTable(module, c)]) @@ registered
(* The registrar an ahead-of-time executable carries: get_class of an unknown name is nil. *)
RegisterAotBareBase(module, registered, c) ==
  LET base == module.layouts[c].extends
      super == IF base = NoClass THEN NSObject ELSE IF base \in CocoaClasses THEN base ELSE NoClass
  IN  (c :> [super |-> super, ivar |-> module.layouts[c].ownSize, methods |-> MethodTable(module, c)]) @@ registered
RegisterAot(module, registered, c) ==
  LET base == module.layouts[c].extends
      super == IF base = NoClass THEN NSObject
               ELSE IF base \in DOMAIN registered
                       \/ (base \notin DOMAIN module.layouts /\ base \in CocoaClasses) THEN base ELSE NoClass
  IN  (c :> [super |-> super, ivar |-> module.layouts[c].ownSize, methods |-> MethodTable(module, c)]) @@ registered
RegisterAll(module, Register(_, _, _)) ==
  LET Step(registered, c) == Register(module, registered, c)
  IN  FoldLeft(Step, <<>>, Order(module.layouts))

(***************************************************************************)
(* The Objective-C runtime: a message is answered by the first class that  *)
(* has the selector; an instance variable is found by name, and a base it  *)
(* does not find is the object itself.                                     *)
(***************************************************************************)
Unrecognized == <<"unrecognized selector">>
RECURSIVE MsgSend(_, _, _)
MsgSend(registered, c, m) ==
  IF c \notin DOMAIN registered THEN Unrecognized
  ELSE IF m \in DOMAIN registered[c].methods THEN registered[c].methods[m]
       ELSE MsgSend(registered, registered[c].super, m)
RECURSIVE HasIvar(_, _, _)
HasIvar(registered, c, definer) ==
  /\ c \in DOMAIN registered
  /\ (c = definer /\ registered[c].ivar > 0) \/ HasIvar(registered, registered[c].super, definer)
(* The word of an object of class c that a field instruction addresses. *)
AddressOf(registered, c, instr) ==
  IF HasIvar(registered, c, instr[2]) THEN <<instr[2], instr[3]>> ELSE <<"isa", instr[3]>>
(* bcpl_objc_new and the CREATE that follows it: what NEW c(...) runs. *)
Constructs(module, c) ==
  LET owner == CreateOwner(module, c)
  IN  IF owner = NoClass THEN NoClass ELSE FunctionNamed(module, MangleMethod(owner, "CREATE"))
=============================================================================
