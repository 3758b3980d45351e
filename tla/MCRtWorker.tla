---------------------------- MODULE MCRtWorker ----------------------------
(* The command lines and images RtWorker is checked for.  Widths up to 2   *)
(* stand for those up to 96, which are not buffered.                       *)
EXTENDS RtWorker

LOCAL S(program, width, height, samples, top_down, chunk, runs) ==
    [program |-> program, width |-> width, height |-> height,
     samples |-> samples, top_down |-> top_down, chunk |-> chunk, runs |-> runs]

(* The chunk is 1, from the ladder or left by an earlier run, or more,     *)
(* from an earlier run, or a whole line, in SCANLINE mode.                 *)
SoundSetups ==
    { S("rt", 2, 2, 1, FALSE, 0, <<<<0, 3>>, <<0, 3>>>>),   \* UNBUF, 2 frames
      S("rt", 2, 3, 1, TRUE, 4, <<<<0, 5>>>>),              \* top down
      S("rt", 3, 3, 1, FALSE, 4, <<<<0, 8>>>>),             \* DYNAMIC
      S("rt", 3, 3, 1, TRUE, 1, <<<<0, 8>>>>),
      S("rt", 3, 3, 1, FALSE, 1, <<<<2, 7>>>>),             \* a window of it
      S("rt", 3, 8, 1, FALSE, 0, <<<<0, 23>>>>),            \* SCANLINE
      S("rt_full_incr", 4, 3, 1, FALSE, 4, <<<<0, 11>>, <<0, 11>>>>),
      S("rtsrv", 3, 3, 1, FALSE, 0, <<<<0, 3>>, <<4, 8>>>>) }

(* A chunk of 4 is worked out, and not by every thread.                    *)
UnsizedSetups == { S("rt", 2, 4, 12, FALSE, 0, <<<<0, 6>>>>) }
=============================================================================
