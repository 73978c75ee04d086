--------------------------------- MODULE BoxRun ---------------------------------
(****************************************************************************)
(* Runs of BCPL programs in the box: bcpl_box_run, bcpl_box_stop,           *)
(* bcpl_box_recover and bcpl_box_end_run, called by the box's BCPL module   *)
(* in the order bcpl_box.h asks for, and the program between them.          *)
(*                                                                          *)
(* Every run has the dynamic area from its start.  What the runtime keeps   *)
(* in it (the arena stack's chunks, the free list cells, stream buffers) is *)
(* "live" in the run that made it and "stale" once arena_reset has          *)
(* forgotten the allocator.  A box that hangs on a lock or aborts does      *)
(* nothing more, so its other state is left as it was.                      *)
(****************************************************************************)
EXTENDS BoxStreams

CONSTANTS
  FaultsIn,   \* the sets of locks a fault may leave held
  MaxLine,    \* bound: bytes in a line typed at the keyboard
  MaxDepth    \* bound: functions with an arena that are active at once

ASSUME RunAssumptions ==
  /\ FaultsIn \subseteq SUBSET {"STREAMS", "ARENA", "ARENA_STACK", "CONS_POOL"}
  /\ MaxLine \in Nat /\ MaxDepth \in Nat

VARIABLES
  phase,        \* where the module and the run are
  result,       \* what bcpl_box_run returned
  STOP,         \* Escape was seen
  CONSOLE_IN,   \* how many typed bytes wait in the line buffer
  CONSOLE_EOF,
  ENGINE,       \* "none", "context" or "engine"
  ARENA_STACK,  \* for each active arena, whether its chunks are live or stale
  CONS_POOL,    \* the free list: "none", "live" or "stale"
  held,         \* the locks and borrows a faulting frame left held
  asked,        \* history: Escape was asked for in this run
  late          \* history: calls that came back to the program after that

console == <<CONSOLE_IN, CONSOLE_EOF>>
memory  == <<ARENA_STACK, CONS_POOL>>
control == <<phase, result, STOP, asked, late>>
vars == <<svars, console, memory, control, ENGINE, held>>

Init ==
  /\ StreamsInit
  /\ phase = "idle" /\ result = "none" /\ STOP = FALSE /\ asked = FALSE /\ late = {}
  /\ CONSOLE_IN = 0 /\ CONSOLE_EOF = FALSE /\ ENGINE = "none"
  /\ ARENA_STACK = <<>> /\ CONS_POOL = "none" /\ held = {}

----------------------------------------------------------------------------
(* reset_run *)

Dies(how) == phase' = how /\ UNCHANGED <<svars, console, memory, STOP, asked, late>>

(* close_all takes STREAMS and frees each stream's buffer; the pool's       *)
(* borrow_mut panics in a function that may not unwind; arena_reset takes   *)
(* ARENA.                                                                   *)
Hangs  == "STREAMS" \in held \/ ("ARENA" \in held /\ InUse # {})
Aborts == "CONS_POOL" \in held

(* What was not dropped before arena_reset points into the old area. *)
arena_reset(stack, pool) ==
  /\ ARENA_STACK' = [i \in DOMAIN stack |-> "stale"]
  /\ CONS_POOL' = IF pool = "live" THEN "stale" ELSE pool

KeptStack == IF "ARENA_STACK" \in held THEN ARENA_STACK ELSE <<>>  \* heap's part

Resets(then, stack, pool, stop) ==
  IF Hangs THEN Dies("stuck")
  ELSE IF Aborts THEN Dies("aborted")
  ELSE IF "ARENA" \in held THEN Dies("stuck")
  ELSE /\ phase' = then /\ close_all /\ arena_reset(stack, pool)
       /\ CONSOLE_IN' = 0 /\ CONSOLE_EOF' = FALSE
       /\ STOP' = stop /\ asked' = FALSE /\ late' = {}

reset_keeps_pool(then)  == Resets(then, KeptStack, CONS_POOL, FALSE)
reset_keeps_stack(then) == Resets(then, ARENA_STACK, "none", FALSE)
reset_keeps_stop(then)  == Resets(then, KeptStack, "none", STOP)
reset_checks_stop(then) == IF STOP /\ InUse # {} THEN Dies("aborted")
                           ELSE Resets(then, KeptStack, "none", FALSE)

reset_run(then) == Resets(then, KeptStack, "none", FALSE)

----------------------------------------------------------------------------
(* The module's calls *)

bcpl_box_run ==
  /\ phase = "idle" /\ reset_run("compiling")
  /\ result' = "none" /\ UNCHANGED <<ENGINE, held>>

(* Compiling: an error before or in run_box, a program only compiled, or    *)
(* START is called; run_box disposes of the last engine before its own.     *)
CompileOnly ==
  /\ phase = "compiling" /\ phase' = "returned" /\ result' \in {"ok", "nocompile"}
  /\ UNCHANGED <<svars, console, memory, STOP, asked, late, ENGINE, held>>

run_box ==
  /\ phase = "compiling"
  /\ \/ phase' = "running" /\ ENGINE' = "engine" /\ UNCHANGED result
     \/ phase' = "returned" /\ result' = "nocompile" /\ ENGINE' \in {"context", "engine"}
  /\ UNCHANGED <<svars, console, memory, STOP, asked, late, held>>

bcpl_box_stop ==
  /\ STOP' = TRUE /\ asked' = TRUE
  /\ phase \notin {"stuck", "aborted"}
  /\ UNCHANGED <<svars, console, memory, phase, result, late, ENGINE, held>>

(* A fault in the program, in the compiler, or in a runtime call that holds *)
(* a lock, jumps out of bcpl_box_run.                                       *)
Fault ==
  /\ \/ phase = "compiling" /\ ENGINE' \in {"none", "context", "engine"} /\ UNCHANGED held
     \/ /\ phase = "running" /\ UNCHANGED ENGINE
        /\ \E locks \in FaultsIn : held' = held \cup locks
  /\ phase' = "faulted"
  /\ UNCHANGED <<svars, console, memory, result, STOP, asked, late>>

end_run_keeps_engine ==
  /\ phase = "returned" /\ reset_run("idle") /\ UNCHANGED <<ENGINE, result, held>>

bcpl_box_end_run ==
  /\ phase = "returned" /\ reset_run("idle") /\ ENGINE' = "none"
  /\ UNCHANGED <<result, held>>

(* rosbox::recover clears the locks' poison, which a fault does not leave.  *)
bcpl_box_recover ==
  /\ phase = "faulted" /\ reset_run("idle") /\ ENGINE' = "none"
  /\ UNCHANGED <<result, held>>

----------------------------------------------------------------------------
(* The program.  check_stop ends it if Escape was seen; the history notes   *)
(* the kind of a call that comes back.                                      *)

End(how) == phase' = "returned" /\ result' = how /\ UNCHANGED <<STOP, asked, late>>

Back(kind) == /\ late' = IF STOP THEN late \cup {kind} ELSE late
              /\ UNCHANGED <<phase, result, STOP, asked>>

check_stop(kind) ==
  IF STOP THEN /\ STOP' = FALSE /\ phase' = "returned" /\ result' = "escape"
               /\ UNCHANGED <<asked, late>>
  ELSE Back(kind)

write_bytes_unchecked ==
  /\ phase = "running" /\ Back("output")
  /\ IF IsStream(output) THEN WriteFile ELSE UNCHANGED svars
  /\ UNCHANGED <<console, memory, ENGINE, held>>

write_bytes ==
  /\ phase = "running" /\ check_stop("output")
  /\ IF IsStream(output) THEN WriteFile ELSE UNCHANGED svars
  /\ UNCHANGED <<console, memory, ENGINE, held>>

(* The line comes with its newline, and its first byte is the answer.       *)
read_line ==
  /\ check_stop("line") /\ UNCHANGED svars
  /\ IF STOP THEN UNCHANGED console
     ELSE \/ CONSOLE_IN' \in 0 .. MaxLine /\ UNCHANGED CONSOLE_EOF
          \/ CONSOLE_EOF' = TRUE /\ UNCHANGED CONSOLE_IN

rdch ==
  /\ phase = "running"
  /\ \/ read_file /\ Back("byte") /\ UNCHANGED console
     \/ /\ input < FIRST_FILE /\ CONSOLE_IN > 0 /\ CONSOLE_IN' = CONSOLE_IN - 1
        /\ Back("byte") /\ UNCHANGED <<svars, CONSOLE_EOF>>
     \/ /\ input < FIRST_FILE /\ CONSOLE_IN = 0 /\ CONSOLE_EOF
        /\ Back("byte") /\ UNCHANGED <<svars, console>>
     \/ input < FIRST_FILE /\ CONSOLE_IN = 0 /\ ~ CONSOLE_EOF /\ read_line
  /\ UNCHANGED <<memory, ENGINE, held>>

(* SYS ends the program with the SWI's error.                               *)
swi ==
  /\ phase = "running"
  /\ check_stop("swi") \/ (~ STOP /\ End("error"))
  /\ UNCHANGED <<svars, console, memory, ENGINE, held>>

CallStreams ==
  /\ phase = "running" /\ StreamCall
  /\ UNCHANGED <<console, memory, control, ENGINE, held>>

(* A borrow that a fault left makes the panic that ends the program.        *)
bcpl_arena_enter ==
  /\ phase = "running" /\ Len(ARENA_STACK) < MaxDepth
  /\ IF "ARENA_STACK" \in held THEN End("borrowed") /\ UNCHANGED ARENA_STACK
     ELSE ARENA_STACK' = Append(ARENA_STACK, "live") /\ UNCHANGED control
  /\ UNCHANGED <<svars, console, CONS_POOL, ENGINE, held>>

bcpl_arena_free ==
  /\ phase = "running" /\ ARENA_STACK # <<>> /\ "ARENA_STACK" \notin held
  /\ ARENA_STACK' = Front(ARENA_STACK)
  /\ UNCHANGED <<svars, console, CONS_POOL, control, ENGINE, held>>

(* A cell of the list, or the first of a new slab. *)
cons_alloc ==
  /\ phase = "running"
  /\ CONS_POOL' = IF CONS_POOL = "none" THEN "live" ELSE CONS_POOL
  /\ UNCHANGED <<svars, console, ARENA_STACK, control, ENGINE, held>>

(* START comes back with its arenas freed; FINISH, STOP and a runtime error *)
(* unwind from anywhere.                                                    *)
Ends ==
  /\ phase = "running" /\ \E how \in {"ok", "error"} : End(how)
  /\ UNCHANGED <<svars, console, memory, ENGINE, held>>

Next == \/ bcpl_box_run \/ CompileOnly \/ run_box \/ bcpl_box_stop
        \/ Fault \/ bcpl_box_end_run \/ bcpl_box_recover
        \/ write_bytes \/ rdch \/ swi \/ CallStreams
        \/ bcpl_arena_enter \/ bcpl_arena_free \/ cons_alloc \/ Ends

Spec == Init /\ [][Next]_vars

----------------------------------------------------------------------------
(* Properties *)

RunTypeOK ==
  /\ StreamsTypeOK
  /\ phase \in {"idle", "compiling", "running", "returned", "faulted", "stuck", "aborted"}
  /\ result \in {"none", "ok", "nocompile", "error", "escape", "borrowed"}
  /\ STOP \in BOOLEAN /\ asked \in BOOLEAN /\ CONSOLE_EOF \in BOOLEAN
  /\ late \subseteq {"output", "line", "swi", "byte"}
  /\ CONSOLE_IN \in 0 .. MaxLine /\ ENGINE \in {"none", "context", "engine"}
  /\ ARENA_STACK \in Seq({"live", "stale"}) /\ CONS_POOL \in {"none", "live", "stale"}
  /\ held \in SUBSET {"STREAMS", "ARENA", "ARENA_STACK", "CONS_POOL"}

(* Between runs and while the next one compiles nothing of a run is left:   *)
(* no stream, no typed byte, no end of input, no code of the last program.  *)
CleanBetweenRuns ==
  phase \in {"idle", "compiling"} =>
    /\ InUse = {} /\ input = CONSOLE_INPUT /\ output = CONSOLE_OUTPUT
    /\ CONSOLE_IN = 0 /\ ~ CONSOLE_EOF /\ ENGINE = "none"

(* A running program never uses memory of an earlier run's area: its free   *)
(* list cells are its own, and so are the arenas on the stack unless the    *)
(* stack is borrowed for good, when no arena can be used.                   *)
NoStaleMemory ==
  phase = "running" =>
    /\ CONS_POOL # "stale"
    /\ "ARENA_STACK" \notin held => \A i \in DOMAIN ARENA_STACK : ARENA_STACK[i] = "live"

(* A run ends by Escape only if Escape was asked for during that run: one   *)
(* that came too late for a run does not end the next.                      *)
EscapeOfThisRun == (phase = "returned" /\ result = "escape") => asked

(* Neither state nor a pending Escape of one run reaches the next, and all  *)
(* state keeps its type.                                                    *)
RunsLeaveNothing == RunTypeOK /\ CleanBetweenRuns /\ EscapeOfThisRun

(* After Escape no output, no line from the keyboard and no SWI comes back  *)
(* to the program.                                                          *)
EscapeAtHooks == late \subseteq {"byte"}

(* A box hangs or aborts between runs only if a fault left a lock or a      *)
(* borrow held: closing files under a pending Escape does not.              *)
DiesOnlyOfLocks == phase \in {"stuck", "aborted"} => held # {}

=============================================================================
