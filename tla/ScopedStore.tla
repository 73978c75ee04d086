------------------------------ MODULE ScopedStore ------------------------------
(****************************************************************************)
(* What the memory runtime promises, with no bytes in it: a stack of scopes *)
(* and a heap, each holding blocks.  A block allocated in a scope lives     *)
(* until that scope or one around it is left (or the scope is rewound); a   *)
(* block on the heap lives until it is freed; a dead block never comes back.*)
(****************************************************************************)
EXTENDS Integers, Sequences

CONSTANT Id   \* the blocks

VARIABLES
  scopes,  \* the blocks of each open scope, outermost first
  heap,    \* the blocks on the heap
  dead     \* the blocks that were given back

vars == <<scopes, heap, dead>>

Fresh == Id \ (heap \cup dead \cup UNION {scopes[i] : i \in DOMAIN scopes})

Init == scopes = <<>> /\ heap = {} /\ dead = {}

Enter == scopes' = Append(scopes, {}) /\ UNCHANGED <<heap, dead>>

AllocOnHeap(b) ==
  /\ b \in Fresh
  /\ heap' = heap \cup {b}
  /\ UNCHANGED <<scopes, dead>>

AllocInScope(b) ==
  /\ b \in Fresh /\ scopes # <<>>
  /\ scopes' = [scopes EXCEPT ![Len(scopes)] = @ \cup {b}]
  /\ UNCHANGED <<heap, dead>>

Free(b) ==
  /\ b \in heap
  /\ heap' = heap \ {b}
  /\ dead' = dead \cup {b}
  /\ UNCHANGED scopes

Leave(n) ==
  /\ scopes' = SubSeq(scopes, 1, n)
  /\ dead' = dead \cup UNION {scopes[i] : i \in n + 1 .. Len(scopes)}
  /\ UNCHANGED heap

Rewind(n) ==
  /\ scopes' = [scopes EXCEPT ![n] = {}]
  /\ dead' = dead \cup scopes[n]
  /\ UNCHANGED heap

Next ==
  \/ Enter
  \/ \E b \in Id : AllocOnHeap(b) \/ AllocInScope(b) \/ Free(b)
  \/ \E n \in 0 .. Len(scopes) - 1 : Leave(n)
  \/ \E n \in 1 .. Len(scopes) : Rewind(n)

Spec == Init /\ [][Next]_vars

=============================================================================
