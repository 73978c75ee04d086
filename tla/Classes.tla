------------------------------ MODULE Classes ------------------------------
(***************************************************************************)
(* A program of classes is written piece by piece: a class, a member of    *)
(* the class written last, a function.  After each piece the program is    *)
(* analysed, lowered and its classes registered, by the JIT and by an      *)
(* executable's own registrar.                                             *)
(***************************************************************************)
EXTENDS ObjectModel

CONSTANT Scenarios                  \* records [decls, members, room] of programs to write

VARIABLES scenario,
          program,
          built                     \* what the compiler makes of it

vars == <<scenario, program, built>>

Registered(sema, module) ==
  [sema |-> sema, module |-> module, jit |-> RegisterAll(module, RegisterJit), aot |-> RegisterAll(module, RegisterAot)]
Lowered(p, sema) == Registered(sema, Lower(p, sema))
Build(p) == Lowered(p, AnalyzeProgram(p))

Init == scenario \in Scenarios /\ program = <<>> /\ built = Build(<<>>)

Pieces(p) == Len(p) + FoldLeft(LAMBDA n, d : IF IsClass(d) THEN n + Len(d.members) ELSE n, 0, p)
Names(p) == {p[i].name : i \in 1 .. Len(p)}
(* EXTENDS that leads back to itself is not written: the analysis would not end. *)
RECURSIVE LeadsTo(_, _, _)
LeadsTo(p, c, d) ==
  \/ c = d
  \/ \E i \in 1 .. Len(p) : IsClass(p[i]) /\ p[i].name = c /\ LeadsTo(p, p[i].extends, d)

Write(p) == program' = p /\ built' = Build(p) /\ UNCHANGED scenario

WriteDecl(d) ==
  /\ d.name \notin Names(program)
  /\ IsClass(d) => ~LeadsTo(program, d.extends, d.name)
  /\ Write(Append(program, d))

WriteMember(m) ==
  /\ program # <<>> /\ IsClass(Last(program))
  /\ Named(Last(program).members, m.name) = NoClass
  /\ Write([program EXCEPT ![Len(program)].members = Append(@, m)])

Next ==
  /\ Pieces(program) < scenario.room
  /\ \/ \E d \in scenario.decls : WriteDecl(d)
     \/ \E m \in scenario.members : WriteMember(m)

Spec == Init /\ [][Next]_vars

(***************************************************************************)
(* Properties.                                                             *)
(***************************************************************************)
classes == built.sema.classes
module == built.module
Accepted == built.sema.errors = {}
Runs == Accepted /\ MissingBuiltins(module) = {}
Below(c) == {d \in DOMAIN classes : IsClassOrDescendantOf(classes, d, c)}
Above(c) == ToSet(Chain(classes, c)) \ {c}

(* Two declarations of one field along a chain: which of them an access means depends on who is asked. *)
Shadowed(c, f) == \E a, b \in ToSet(Chain(classes, c)) :
                     a # b /\ Named(classes[a].fields, f) # NoClass /\ Named(classes[b].fields, f) # NoClass
(* Two functions of one emitted name: A_B's C and A's B_C. *)
Clash == ~IsInjective([i \in 1 .. Len(module.code) |-> module.code[i].symbol])

(* A field whose visibility the analysis checked is the field the lowered code addresses, in an  *)
(* object of whatever class below the receiver's; and no word of it is another field's.          *)
AccessReachesOwner ==
  Runs =>
    \A j \in built.sema.judged, a \in Uses(module) :
      (/\ j.where = a.where /\ j.e = a.e /\ a.instr[1] = "field"
       /\ ~Shadowed(a.on, j.member))
      => /\ a.instr[2] = j.owner
         /\ \A d \in Below(a.on) :
              AddressOf(built.jit, d, a.instr) =
                LET at == CHOOSE i \in 1 .. Len(classes[j.owner].fields) : classes[j.owner].fields[i].name = j.member
                IN  <<j.owner, WordBytes * (at - 1)>>

(* A subclass's layout extends its base's: every field of the base at its offset, every method   *)
(* in its slot, provided by the class the method is found in by name; and no two fields of an    *)
(* object overlap, by the offsets or by the instance variables they are laid into.               *)
LayoutsExtend ==
  \A c \in DOMAIN classes :
    LET layout == module.layouts[c]
        fields == layout.fields
    IN  /\ \A b \in Above(c) :
             /\ IsPrefix(module.layouts[b].fields, fields)
             /\ \A i \in 1 .. Len(module.layouts[b].vtable) : module.layouts[b].vtable[i].name = layout.vtable[i].name
        /\ \A i \in 1 .. Len(layout.vtable) :
             layout.vtable[i].definer = (IF LookupMethod(classes, c, layout.vtable[i].name) = NoClass THEN NoClass
                                         ELSE LookupMethod(classes, c, layout.vtable[i].name).owner)
        /\ \A i, j \in 1 .. Len(fields) :
             i # j => /\ fields[i].offset # fields[j].offset
                      /\ AddressOf(built.jit, c, FieldInstr(fields[i])) # AddressOf(built.jit, c, FieldInstr(fields[j]))
        /\ \A i \in 1 .. Len(fields) :
             /\ fields[i].offset + WordBytes <= layout.size
             /\ fields[i].own + WordBytes <= built.jit[fields[i].definer].ivar

(* Whatever is called runs the method found nearest: a message in the class of the object and    *)
(* above, SUPER above the class the call is written in, NEW's CREATE in the class made, which     *)
(* begins with the initialisers written beside it, each into its own field.                       *)
Nearest(c, m) == LET found == LookupMethod(classes, c, m) IN IF found = NoClass THEN NoClass ELSE <<found.owner, m>>
SendsRunNearest ==
  Runs /\ ~Clash =>
    /\ \A a \in Uses(module) :
         /\ (a.instr[1] = "message" /\ a.on \in DOMAIN classes /\ Nearest(a.on, a.e[3]) # NoClass)
            => \A d \in Below(a.on) : MsgSend(built.jit, d, a.e[3]) = Nearest(d, a.e[3])
         /\ (a.instr[1] = "call" /\ a.e[1] = "send")
            => FunctionNamed(module, a.instr[2]).of =
                 Nearest(classes[a.where[1]].extends, a.e[3])
    /\ \A c \in DOMAIN classes :
         IF Nearest(c, "CREATE") = NoClass THEN Constructs(module, c) = NoClass
         ELSE LET owner == Nearest(c, "CREATE")[1]
                  decl == CHOOSE i \in 1 .. Len(program) : program[i].name = owner
                  written == Initialisers(program[decl])
              IN  /\ Constructs(module, c).of = <<owner, "CREATE">>
                  /\ Len(Constructs(module, c).inits) = Len(written)
                  /\ \A i \in 1 .. Len(written) :
                       ~Shadowed(owner, written[i]) =>
                         AddressOf(built.jit, c, Constructs(module, c).inits[i]) =
                           AddressOf(built.jit, c, FieldInstr(LookupFieldLoc(module.layouts, owner, written[i])))

(* No method an accepted program declares stands over a FINAL one, however far up it is. *)
Overrides(c, m) == {a \in Above(c) : Named(classes[a].methods, m) # NoClass /\ Named(classes[a].methods, m).final}
SyntheticCreate(c) ==
  \E i \in 1 .. Len(program) : program[i].name = c /\ Named(program[i].members, "CREATE") = NoClass
FinalKept ==
  Accepted => \A c \in DOMAIN classes : \A i \in 1 .. Len(classes[c].methods) :
                \/ Overrides(c, classes[c].methods[i].name) = {}
                \/ /\ classes[c].methods[i].name = "CREATE"
                   /\ \E b \in {c} \cup Above(c) : SyntheticCreate(b)

(* Which method runs, and which may stand in its place. *)
MethodsFound == SendsRunNearest /\ FinalKept

(* An executable registers the classes the JIT does, where every base is a class there is. *)
AheadOfTimeTheSame ==
  (\A c \in DOMAIN classes : classes[c].extends \in DOMAIN classes \cup CocoaClasses \cup {NoClass})
    => built.aot = built.jit

=============================================================================
