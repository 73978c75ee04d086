-------------------------------- MODULE MCBoxRun --------------------------------
(* The locks a fault can leave held: none in the program's own code or in a *)
(* SWI it calls; STREAMS in a transfer's SWI; ARENA in the allocator, whose *)
(* chunks the program can damage, alone or called from end_stream, from an  *)
(* arena or from the list pool; the arena stack's or the pool's borrow when *)
(* a wild address that the allocator or the free list gave is used.         *)
EXTENDS BoxRun

AnyLocks == { {}, {"STREAMS"}, {"ARENA"}, {"STREAMS", "ARENA"}, {"ARENA_STACK"},
              {"ARENA_STACK", "ARENA"}, {"CONS_POOL"}, {"CONS_POOL", "ARENA"} }
NoLocks == { {} }
OneByte == {1}

=============================================================================
