------------------------------ MODULE Compiled ------------------------------
(***************************************************************************)
(* Programs analysed, lowered, emitted and run (Machine) against what they *)
(* mean (Meaning).                                                         *)
(***************************************************************************)
EXTENDS Machine

Ref == INSTANCE Meaning
Compile(decls) == Link(lower(analyze_program(decls)))

CONSTANT Programs            \* sequences of declarations
Units == [p \in DOMAIN Programs |-> Compile(Programs[p])] \o <<>>
Meanings == [p \in DOMAIN Programs |-> Ref!MeaningOf(Programs[p])] \o <<>>

Init == \E p \in DOMAIN Programs : Start([of |-> p] @@ Units[p])
Spec == Init /\ [][Run]_vars /\ WF_vars(Run)

TypeOK ==
  /\ unit.of \in DOMAIN Programs
  /\ status \in {"emit", "run", "done", "panic", "stray"}
  /\ \A f \in DOMAIN frames : frames[f].fn \in DOMAIN unit.functions
  /\ gone \subseteq DOMAIN mem

(* What a program writes is what it means, no matter through which blocks, *)
(* slots, lanes and coercions the value went: so far a beginning of it, at *)
(* the end all of it.                                                      *)
RunsAsWritten ==
  /\ IsPrefix(out, Meanings[unit.of])
  /\ status = "done" => out = Meanings[unit.of]

(* The emitter has no way to refuse: an IR value it meets before the value *)
(* is in its map, or of a type it cannot take (emit.rs:2600, 2616, 3003),  *)
(* ends the compiler.                                                      *)
EmitterNeverPanics == status # "panic"

(* A vector escape analysis (lower.rs:3907-4230) left in the activation's  *)
(* arena, or anything else given back, is not reached afterwards; no slot  *)
(* is read before it was written; and every activation has left its arena  *)
(* when the program is over.                                               *)
MemoryHandedBack ==
  /\ status # "stray"
  /\ status = "done" => arenas = <<>>

(* The programs below all end: no exit of a loop comes back into it. *)
ProgramEnds == <>(status = "done")

(* The manual (docs/the_new_bcpl_programming_language.md:421-425): all     *)
(* values of an assignment are computed before any is stored.  The lowerer *)
(* (lower.rs:2065-2110) stores each before it computes the next.           *)
AssignmentIsParallel == status = "done" => out = Meanings[unit.of]
=============================================================================
