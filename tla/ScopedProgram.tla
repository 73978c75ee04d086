----------------------------- MODULE ScopedProgram -----------------------------
(****************************************************************************)
(* A routine runs: the code that ScopeLowering makes of it, step by step,   *)
(* over the scoped store of the memory runtime (its vectors), the reference *)
(* counts of Objective-C objects and the autorelease pools.  Every          *)
(* condition may go either way.  Objects and vectors are numbered in the    *)
(* order they are made.                                                     *)
(****************************************************************************)
EXTENDS ScopeLowering, FiniteSets, FiniteSetsExt, SequencesExt

CONSTANTS
  Programs,    \* the routines: a body and what is promised of it
  MaxObjects,  \* bound: objects a run may make
  MaxVectors,  \* bound: vectors a run may make
  MaxDepth     \* bound: arenas and pools a run may have open

VARIABLES
  code,      \* the routine's code
  promises,  \* what is promised of its ways out: "using" bindings disposed,
             \* nothing "owned" lost
  pc,        \* position of the next instruction, 0 after the return
  slot,      \* what each alloca slot holds
  objects,   \* per object: its reference count and the binding that made it
  disposed,  \* history: the USING objects in the order of their disposal
  pools,     \* the number of open autorelease pools
  global,    \* the value of a GLOBAL variable
  scopes, heap, dead  \* the scoped store of the vectors

vars == <<code, promises, pc, slot, objects, disposed, pools, global, scopes, heap, dead>>
store == <<scopes, heap, dead>>

Vector == 1 .. MaxVectors
Store == INSTANCE ScopedStore WITH Id <- Vector

Nil   == 0
Undef == -1   \* an alloca that nothing was stored to yet
MadeBy == {"LET", "USING"}

Slots(c) == 1 .. Max({0} \cup {c[i].slot : i \in {j \in DOMAIN c : "slot" \in DOMAIN c[j]}})

Init ==
  /\ \E p \in Programs : code = lower_routine(p.body) /\ promises = p.promises
  /\ pc = 1
  /\ slot = [i \in Slots(code) |-> Undef]
  /\ objects = <<>> /\ disposed = <<>>
  /\ pools = 0 /\ global = Nil
  /\ Store!Init

----------------------------------------------------------------------------
Instr == code[pc]
At(op) == pc # 0 /\ Instr.op = op
Step == pc' = pc + 1 /\ UNCHANGED <<code, promises>>
JumpTo(id) ==
  /\ pc' = CHOOSE i \in DOMAIN code : code[i].op = "block" /\ code[i].id = id
  /\ UNCHANGED <<code, promises>>

SetSlot(v) == slot' = [slot EXCEPT ![Instr.slot] = v]

(* What a load finds.  The lowerer stores nothing to a fresh alloca, so one *)
(* that no LET on this path initialised holds whatever the stack held: no   *)
(* object, or one that the routine made.                                    *)
Loads(s) == IF slot[s] # Undef THEN {slot[s]} ELSE 0 .. Len(objects)

EnterBlock == At("block") /\ Step /\ UNCHANGED <<slot, objects, disposed, pools, global, store>>

TakeBranch ==
  /\ \/ At("branch") /\ JumpTo(Instr.to)
     \/ At("cond") /\ (JumpTo(Instr.to) \/ JumpTo(Instr.or))
  /\ UNCHANGED <<slot, objects, disposed, pools, global, store>>

Return ==
  /\ At("return") /\ pc' = 0
  /\ UNCHANGED <<code, promises, slot, objects, disposed, pools, global, store>>

ArenaEnter ==
  /\ At("enter") /\ Step
  /\ Len(scopes) < MaxDepth
  /\ SetSlot(Len(scopes)) /\ Store!Enter
  /\ UNCHANGED <<objects, disposed, pools, global>>

ArenaFree ==
  /\ At("free") /\ Step
  /\ LET handle == slot[Instr.slot] IN
       IF handle \in 0 .. Len(scopes) - 1 THEN Store!Leave(handle) ELSE UNCHANGED store
  /\ UNCHANGED <<slot, objects, disposed, pools, global>>

NextVector == Cardinality(heap \cup dead \cup UNION {scopes[i] : i \in DOMAIN scopes}) + 1

MakeVector ==
  /\ NextVector <= MaxVectors /\ Step
  /\ \/ At("vec") /\ scopes # <<>> /\ Store!AllocInScope(NextVector)
     \/ At("vec") /\ scopes = <<>> /\ Store!AllocOnHeap(NextVector)
     \/ At("heapvec") /\ Store!AllocOnHeap(NextVector)
  /\ SetSlot(NextVector)
  /\ UNCHANGED <<objects, disposed, pools, global>>

New ==
  /\ At("new") \/ At("newusing")
  /\ Len(objects) < MaxObjects /\ Step
  /\ objects' = Append(objects, [refs |-> 1,
                                 by |-> IF Instr.op = "new" THEN "LET" ELSE "USING"])
  /\ SetSlot(Len(objects) + 1)
  /\ UNCHANGED <<disposed, pools, global, store>>

Copy ==
  /\ At("copy") /\ Step
  /\ \E v \in Loads(Instr.from) : SetSlot(v)
  /\ UNCHANGED <<objects, disposed, pools, global, store>>

(* A message to nil does nothing.                                           *)
AddRef(o, n) ==
  objects' = IF o = Nil THEN objects ELSE [objects EXCEPT ![o].refs = @ + n]

Retain ==
  /\ At("retain") /\ Step
  /\ \E o \in Loads(Instr.slot) : AddRef(o, 1)
  /\ UNCHANGED <<slot, disposed, pools, global, store>>

Release ==
  /\ At("release") /\ Step
  /\ \E o \in Loads(Instr.slot) : AddRef(o, -1)
  /\ UNCHANGED <<slot, disposed, pools, global, store>>

(* The user's RELEASE method, then the object's release.                    *)
Dispose ==
  /\ At("dispose") /\ Step
  /\ \E o \in Loads(Instr.slot) :
       /\ AddRef(o, -1)
       /\ disposed' = IF o = Nil THEN disposed ELSE Append(disposed, o)
  /\ UNCHANGED <<slot, pools, global, store>>

ReadThrough ==
  /\ At("use") \/ At("useglobal")
  /\ Step
  /\ UNCHANGED <<slot, objects, disposed, pools, global, store>>

StoreGlobal ==
  /\ At("global") /\ Step
  /\ global' = slot[Instr.slot]
  /\ UNCHANGED <<slot, objects, disposed, pools, store>>

PoolPush ==
  /\ At("push") /\ Step
  /\ pools < MaxDepth
  /\ SetSlot(pools) /\ pools' = pools + 1
  /\ UNCHANGED <<objects, disposed, global, store>>

(* Popping a token closes every pool opened since.                          *)
PoolPop ==
  /\ At("pop") /\ Step
  /\ pools' = slot[Instr.slot]
  /\ UNCHANGED <<slot, objects, disposed, global, store>>

Next ==
  \/ EnterBlock \/ TakeBranch \/ Return
  \/ ArenaEnter \/ ArenaFree \/ MakeVector
  \/ New \/ Copy \/ Retain \/ Release \/ Dispose
  \/ ReadThrough \/ StoreGlobal
  \/ PoolPush \/ PoolPop

Spec == Init /\ [][Next]_vars

----------------------------------------------------------------------------
(* Properties *)

Returned == pc = 0
UsingObjects == {o \in DOMAIN objects : objects[o].by = "USING"}

TypeOK ==
  /\ pc \in 0 .. Len(code)
  /\ slot \in [Slots(code) -> Undef .. MaxObjects + MaxVectors + MaxDepth]
  /\ objects \in Seq([refs : Int, by : MadeBy])
  /\ disposed \in Seq(1 .. MaxObjects)
  /\ pools \in 0 .. MaxDepth

(* No object is released more often than it is owned (memory_model.md:      *)
(* "over-release is impossible"), and a routine that has returned holds no  *)
(* reference to an object it made.                                          *)
ReferencesCounted ==
  /\ \A o \in DOMAIN objects : objects[o].refs >= 0
  /\ ("owned" \in promises /\ Returned) => \A o \in DOMAIN objects : objects[o].refs <= 0

(* When the routine has returned, every USING binding was disposed, once;   *)
(* and when one is disposed, every younger one has been.                    *)
UsingDisposed ==
  "using" \in promises =>
    /\ Cardinality(ToSet(disposed)) = Len(disposed)
    /\ Returned => UsingObjects \subseteq ToSet(disposed)
    /\ At("dispose") =>
         \A o \in UsingObjects : o > slot[Instr.slot] => o \in ToSet(disposed)

(* No vector is read after the arena it was routed to is gone.              *)
NoDanglingVector ==
  /\ At("use") => slot[Instr.slot] \notin dead
  /\ At("useglobal") => global \notin dead

(* A routine leaves the arena stack as it found it, on every way out.       *)
ArenasBalanced == Returned => scopes = <<>>

(* A pool is popped while it is open.                                       *)
PoolTokenOpen == At("pop") => slot[Instr.slot] \in 0 .. pools - 1

(* Code, slots and scopes fit each other on every path.                      *)
ScopesMatched == TypeOK /\ ArenasBalanced /\ PoolTokenOpen

===========================================================================
