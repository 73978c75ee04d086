----------------------------- MODULE ScopeLowering -----------------------------
(****************************************************************************)
(* How the IR lowerer (newbcpl-ir/lower.rs) turns a routine's scopes into   *)
(* cleanup code: USING disposal, arenas and owned objects of reclaim blocks,*)
(* autorelease pools, and the exits RETURN, FINISH, BREAK, LOOP, ENDCASE,   *)
(* RESULTIS and GOTO that cross them.                                       *)
(*                                                                          *)
(* A statement is a record whose field k is its kind.  Expressions are      *)
(* reduced to what cleanup depends on: a fresh object (NEW, at +1), a fresh *)
(* vector (VEC), the value of another local, or a read through a vector.    *)
(* A function's code is one sequence of instructions in which a "block"     *)
(* instruction starts a basic block: the lowerer always continues where it  *)
(* emitted last.                                                            *)
(****************************************************************************)
EXTENDS Integers, Sequences

(* Source statements *)
Let(name, init, from)   == [k |-> "let", name |-> name, init |-> init, from |-> from]
Assign(name, init, from) == [k |-> "assign", name |-> name, init |-> init, from |-> from]
Block(scoped, pooled, stmts) ==
  [k |-> "block", scoped |-> scoped, pooled |-> pooled, stmts |-> stmts]
Using(name, body)       == [k |-> "using", name |-> name, body |-> body]
Body(kind, body)        == [k |-> kind, body |-> body]  \* loops, if, switch, valof
Named(kind, name)       == [k |-> kind, name |-> name]  \* use, global, retain
Goto(l)                 == [k |-> "goto", label |-> l]
Label(l)                == [k |-> "label", label |-> l]
Exit(kind)              == [k |-> kind]                 \* break, return, ...

----------------------------------------------------------------------------
(* Escape analysis: the locals whose bare value flows somewhere *)

alias_stays(init, from) == {}
esc_value(init, from) == IF init = "copy" THEN {from} ELSE {}

RECURSIVE esc_stmt(_)
esc_stmt(s) ==
  CASE s.k = "block" -> UNION {esc_stmt(s.stmts[i]) : i \in DOMAIN s.stmts}
    [] s.k \in {"let", "assign"} -> esc_value(s.init, s.from)
    [] s.k \in {"retain", "global"} -> {s.name}
    [] "body" \in DOMAIN s -> esc_stmt(s.body)
    [] OTHER -> {}

----------------------------------------------------------------------------
(* The function builder *)

NoBlock == 0

NewBuilder(escaping) ==
  [code |-> <<>>, next_block |-> 1, next_value |-> 1, locals |-> <<>>, frames |-> <<>>,
   valofs |-> <<>>, using_cleanups |-> <<>>, owned |-> <<>>, arena_slot |-> 0,
   escaping |-> escaping]

emit(b, instr) == [b EXCEPT !.code = Append(@, instr)]
switch_to(b, id) == emit(b, [op |-> "block", id |-> id])
Branch(b, to) == emit(b, [op |-> "branch", to |-> to])
CondBranch(b, to, or) == emit(b, [op |-> "cond", to |-> to, or |-> or])

Terminators == {"branch", "cond", "return"}
current_open(b) == b.code = <<>> \/ b.code[Len(b.code)].op \notin Terminators
FallTo(b, id) == IF current_open(b) THEN Branch(b, id) ELSE b

AllocBlocks(b, n) == [b EXCEPT !.next_block = @ + n]
Dead(b) == switch_to(AllocBlocks(b, 1), b.next_block)
label_block(l) == 0 - l

(* A new slot is the builder's next value; the alloca itself stores nothing.*)
OnSlot(b, op) ==
  [emit(b, [op |-> op, slot |-> b.next_value]) EXCEPT !.next_value = @ + 1]
OfSlot(b, op, slot) == emit(b, [op |-> op, slot |-> slot])

declare_local(b, name, slot) == [b EXCEPT !.locals = Append(@, <<name, slot>>)]

(* The innermost binding of a name. *)
lookup_local_slot(b, name) ==
  LET found == {i \in DOMAIN b.locals : b.locals[i][1] = name}
  IN b.locals[CHOOSE i \in found : \A j \in found : j <= i][2]

push_frame(b, brk, cont) ==
  [b EXCEPT !.frames = Append(@, [break_block |-> brk, continue_block |-> cont,
                                  cleanups_at_entry |-> Len(b.using_cleanups)])]
pop_frame(b) == [b EXCEPT !.frames = SubSeq(@, 1, Len(@) - 1)]

innermost_break_frame(b) == b.frames[Len(b.frames)]
innermost_continue_frame(b) ==
  LET loops == {i \in DOMAIN b.frames : b.frames[i].continue_block # NoBlock}
  IN b.frames[CHOOSE i \in loops : \A j \in loops : j <= i]

----------------------------------------------------------------------------
(* Cleanup code *)

RECURSIVE EmitAll(_, _, _)
EmitAll(b, op, slots) ==
  IF slots = <<>> THEN b ELSE EmitAll(OfSlot(b, op, Head(slots)), op, Tail(slots))

outermost_first(b, start) == EmitAll(b, "dispose",
  [n \in 1 .. Len(b.using_cleanups) - start |->
     lookup_local_slot(b, b.using_cleanups[start + n])])

(* The binding to dispose is looked up by name when the cleanup is emitted. *)
emit_using_cleanups_from(b, start) ==
  LET Emit[n \in Nat] ==
        IF n = Len(b.using_cleanups) THEN b
        ELSE LET inner == Emit[n + 1] IN
             OfSlot(inner, "dispose", lookup_local_slot(inner, b.using_cleanups[n + 1]))
  IN Emit[start]

emit_owned_object_releases(b) == EmitAll(b, "release", b.owned)

releases_kept(b, watermark) ==
  EmitAll(b, "release", SubSeq(b.owned, watermark + 1, Len(b.owned)))

emit_block_owned_releases(b, watermark) ==
  [EmitAll(b, "release", SubSeq(b.owned, watermark + 1, Len(b.owned)))
     EXCEPT !.owned = SubSeq(@, 1, watermark)]

enter_function_arena(b) == [OnSlot(b, "enter") EXCEPT !.arena_slot = b.next_value]

terminate_return(b) ==
  emit(OfSlot(emit_owned_object_releases(b), "free", b.arena_slot), [op |-> "return"])

leave_function(b) == Dead(terminate_return(emit_using_cleanups_from(b, 0)))

----------------------------------------------------------------------------
(* Statements *)

is_owned_alloc_producer(init) == init = "new"

lower_let_stmt(b, s) ==
  LET slot  == b.next_value
      value == CASE s.init = "new" -> OnSlot(b, "new")
                 [] s.init = "vec" -> OnSlot(b, IF s.name \in b.escaping THEN "heapvec"
                                                                         ELSE "vec")
                 [] s.init = "copy" ->
                      [emit(b, [op |-> "copy", slot |-> slot,
                                from |-> lookup_local_slot(b, s.from)])
                         EXCEPT !.next_value = @ + 1]
      bound == declare_local(value, s.name, slot)
  IN IF is_owned_alloc_producer(s.init) /\ s.name \notin b.escaping
     THEN [bound EXCEPT !.owned = Append(@, slot)] ELSE bound

plain_store(b, s) ==
  LET new == lower_let_stmt(b, [s EXCEPT !.name = <<"tmp", b.next_value>>])
  IN emit([new EXCEPT !.locals = b.locals, !.owned = b.owned],
          [op |-> "copy", slot |-> lookup_local_slot(b, s.name), from |-> b.next_value])

(* A store into an owned slot takes a reference before it drops the old one.*)
lower_assign(b, s) ==
  LET slot == lookup_local_slot(b, s.name)
      owns == \E i \in DOMAIN b.owned : b.owned[i] = slot
      tmp  == b.next_value
      new  == CASE s.init = "new" -> OnSlot(b, "new")
                [] s.init = "vec" -> OnSlot(b, "heapvec")
                [] s.init = "copy" ->
                     [emit(b, [op |-> "copy", slot |-> tmp,
                               from |-> lookup_local_slot(b, s.from)])
                        EXCEPT !.next_value = @ + 1]
      kept == IF owns /\ ~ is_owned_alloc_producer(s.init) THEN OfSlot(new, "retain", tmp)
              ELSE new
      freed == IF owns THEN OfSlot(kept, "release", slot) ELSE kept
  IN emit(freed, [op |-> "copy", slot |-> slot, from |-> tmp])

RECURSIVE lower_stmt(_, _), lower_stmts(_, _)

lower_stmts(b, ss) == IF ss = <<>> THEN b ELSE lower_stmts(lower_stmt(b, Head(ss)), Tail(ss))

pops_arena_slot(b, s) ==
  LET inside == lower_stmts(OnSlot(OnSlot(b, IF s.pooled THEN "push" ELSE "enter"), "enter"),
                            s.stmts)
      swept  == OfSlot(emit_block_owned_releases(inside, Len(b.owned)), "free", b.next_value + 1)
  IN [(IF s.pooled THEN OfSlot(swept, "pop", b.next_value + 1) ELSE swept)
        EXCEPT !.locals = b.locals]

lower_block(b, s) ==
  LET pool   == b.next_value
      pushed == IF s.pooled THEN OnSlot(b, "push") ELSE b
      arena  == pushed.next_value
      inside == lower_stmts(IF s.scoped THEN OnSlot(pushed, "enter") ELSE pushed, s.stmts)
      swept  == IF s.scoped THEN OfSlot(emit_block_owned_releases(inside, Len(b.owned)),
                                        "free", arena)
                ELSE inside
      ended  == IF s.pooled THEN OfSlot(swept, "pop", pool) ELSE swept
  IN [(IF current_open(inside) THEN ended ELSE inside) EXCEPT !.locals = b.locals]

(* The cleanup stays on the stack while the body is lowered, and is off it  *)
(* when the fall-through disposal is emitted.  The binding stays declared.  *)
lower_using(b, s) ==
  LET bound == declare_local(OnSlot(b, "newusing"), s.name, b.next_value)
      body  == lower_stmt([bound EXCEPT !.using_cleanups = Append(@, s.name)], s.body)
      done  == [body EXCEPT !.using_cleanups = b.using_cleanups]
  IN IF current_open(done)
     THEN OfSlot(done, "dispose", lookup_local_slot(done, s.name)) ELSE done

(* WHILE, and FOR whose LOOP goes through the increment block.              *)
lower_while(b, s) ==
  LET header == b.next_block
      cont   == IF s.k = "for" THEN header + 3 ELSE header
      test   == switch_to(Branch(AllocBlocks(b, 4), header), header)
      inside == switch_to(CondBranch(test, header + 1, header + 2), header + 1)
      body   == FallTo(pop_frame(lower_stmt(push_frame(inside, header + 2, cont), s.body)), cont)
      incr   == IF s.k = "for" THEN Branch(switch_to(body, cont), header) ELSE body
  IN switch_to([incr EXCEPT !.locals = IF s.k = "for" THEN b.locals ELSE @], header + 2)

lower_repeat_forever(b, s) ==
  LET again == b.next_block
      start == switch_to(Branch(AllocBlocks(b, 2), again), again)
      body  == pop_frame(lower_stmt(push_frame(start, again + 1, again), s.body))
  IN switch_to(FallTo(body, again), again + 1)

lower_repeat_with_cond(b, s) ==
  LET again == b.next_block
      start == switch_to(Branch(AllocBlocks(b, 3), again), again)
      body  == pop_frame(lower_stmt(push_frame(start, again + 2, again + 1), s.body))
      test  == switch_to(FallTo(body, again + 1), again + 1)
  IN switch_to(CondBranch(test, again + 2, again), again + 2)

lower_if(b, s) ==
  LET then  == b.next_block
      start == switch_to(CondBranch(AllocBlocks(b, 2), then, then + 1), then)
  IN switch_to(FallTo(lower_stmt(start, s.body), then + 1), then + 1)

(* One case and an empty default.                                           *)
lower_switchon(b, s) ==
  LET case  == b.next_block
      start == switch_to(CondBranch(AllocBlocks(b, 3), case, case + 1), case)
      body  == lower_stmt(push_frame(start, case + 2, NoBlock), s.body)
      other == switch_to(FallTo(body, case + 1), case + 1)
  IN switch_to(pop_frame(Branch(other, case + 2)), case + 2)

(* RESULTIS stores the value and branches to the end: no cleanup runs.      *)
lower_valof(b, s) ==
  LET exit  == b.next_block
      body  == lower_stmt([AllocBlocks(b, 1) EXCEPT !.valofs = Append(@, exit)], s.body)
  IN switch_to([FallTo(body, exit) EXCEPT !.valofs = b.valofs], exit)

lower_resultis(b) ==
  IF b.valofs = <<>> THEN leave_function(b) ELSE Dead(Branch(b, b.valofs[Len(b.valofs)]))

bare_break(b) == Dead(Branch(b, innermost_break_frame(b).break_block))

lower_break(b) ==
  LET f == innermost_break_frame(b)
  IN Dead(Branch(emit_using_cleanups_from(b, f.cleanups_at_entry), f.break_block))

lower_loop(b) ==
  LET f == innermost_continue_frame(b)
  IN Dead(Branch(emit_using_cleanups_from(b, f.cleanups_at_entry), f.continue_block))

lower_stmt(b, s) ==
  CASE s.k = "block"  -> lower_block(b, s)
    [] s.k = "let"    -> lower_let_stmt(b, s)
    [] s.k = "assign" -> lower_assign(b, s)
    [] s.k = "using"  -> lower_using(b, s)
    [] s.k \in {"use", "global", "retain"} -> OfSlot(b, s.k, lookup_local_slot(b, s.name))
    [] s.k = "useglobal" -> emit(b, [op |-> "useglobal"])
    [] s.k \in {"while", "for"} -> lower_while(b, s)
    [] s.k = "repeat" -> lower_repeat_forever(b, s)
    [] s.k = "repeatwhile" -> lower_repeat_with_cond(b, s)
    [] s.k = "if"     -> lower_if(b, s)
    [] s.k = "switch" -> lower_switchon(b, s)
    [] s.k = "valof"  -> lower_valof(b, s)
    [] s.k \in {"break", "endcase"} -> lower_break(b)
    [] s.k = "loop"   -> lower_loop(b)
    [] s.k = "resultis" -> lower_resultis(b)
    [] s.k \in {"return", "finish"} -> leave_function(b)
    [] s.k = "goto"   -> Dead(Branch(b, label_block(s.label)))
    [] s.k = "label"  -> switch_to(FallTo(b, label_block(s.label)), label_block(s.label))
    [] s.k = "skip"   -> b

(* A function that puts nothing in an arena has no arena code at all.       *)
strip_unused_arenas(code) ==
  IF \E i \in DOMAIN code : code[i].op = "vec" THEN code
  ELSE SelectSeq(code, LAMBDA i : i.op \notin {"enter", "free"})

lower_routine(body) ==
  LET b == lower_stmt(enter_function_arena(NewBuilder(esc_stmt(body))), body)
  IN strip_unused_arenas((IF current_open(b) THEN terminate_return(b) ELSE b).code)

=============================================================================
