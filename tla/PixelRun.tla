------------------------------ MODULE PixelRun ------------------------------
(***************************************************************************)
(* What do_run (src/src/rt/worker.c) promises its callers, the frames of   *)
(* rt and the assignments of rtsrv: "Compute a run of pixels, in parallel  *)
(* if the hardware permits it."  Each pixel of the run is computed, once,  *)
(* in an order nobody promises, and do_run returns when all of them are.   *)
(*                                                                         *)
(* RtWorker.tla, the threads and their shared counter, implements this     *)
(* module.                                                                 *)
(***************************************************************************)
EXTENDS Integers

CONSTANT Runs   \* the runs <<a, b>> that do_run may be called for

VARIABLES
    todo,       \* pixels of the run that are not computed yet
    running     \* do_run has been called and has not returned

vars == <<todo, running>>

Init == todo = {} /\ running = FALSE

(* do_run(a, b).                                                           *)
Call(a, b) ==
    /\ ~running
    /\ todo' = a .. b
    /\ running' = TRUE

Compute(p) ==
    /\ p \in todo
    /\ todo' = todo \ {p}
    /\ UNCHANGED running

Return ==
    /\ running
    /\ todo = {}
    /\ running' = FALSE
    /\ UNCHANGED todo

Next ==
    \/ \E r \in Runs : Call(r[1], r[2])
    \/ \E p \in todo : Compute(p)
    \/ Return

Spec == Init /\ [][Next]_vars
=============================================================================
