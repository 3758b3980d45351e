------------------------------ MODULE RtWorker ------------------------------
(***************************************************************************)
(* The threads of the ray tracer rt and of the worker rtsrv:               *)
(*                                                                         *)
(*   do_run and worker    src/src/rt/worker.c   who computes which pixel   *)
(*   view_pixel           src/src/rt/view.c     who writes which scanline  *)
(*   view_2init           src/src/rt/view.c     how the two are set up     *)
(*                                                                         *)
(* A run of pixels is shared out through the counter cur_pixel: a thread   *)
(* takes the next per_processor_chunk pixels under RT_SEM_WORKER and       *)
(* computes them.  A pixel's colour goes straight to the image, or into    *)
(* the buffer of its scanline, which the thread that brings sl_left to 0   *)
(* writes and frees.                                                       *)
(*                                                                         *)
(* A critical section is one action when everything that touches its       *)
(* variables takes the same semaphore; what the code reads or writes       *)
(* without it is an action of its own.  Thread creation and join           *)
(* (bu_parallel) are the first and the last step of a run.                 *)
(***************************************************************************)
EXTENDS Integers, FiniteSets, Sequences, FiniteSetsExt

CONSTANTS
    Threads,        \* the npsw threads of bu_parallel
    Setups,         \* the command lines and images, see SetupType
    UnbufferedWidth \* 96 in view_2init: narrower images are not buffered

(* What a command line fixes: the program (rt, rt with full_incr_mode, or  *)
(* rtsrv), the image, hypersample + 1, the option that makes it top_down,  *)
(* the per_processor_chunk the program starts with and the runs <<a, b>>   *)
(* do_run is called for, one after the other.                              *)
SetupType ==
    [program : {"rt", "rt_full_incr", "rtsrv"}, width : Nat \ {0},
     height : Nat \ {0}, samples : Nat \ {0}, top_down : BOOLEAN,
     chunk : Nat, runs : Seq(Nat \X Nat)]

ASSUME SetupAssumption == Setups \subseteq SetupType
ASSUME ThreadsAssumption == IsFiniteSet(Threads)

VARIABLES
    setup,      \* the command line
    run,        \* number of the run do_run is in, 0 before the first
    buf_mode, cur_pixel, last_pixel, per_processor_chunk,
    pc,         \* pc[t]: where thread t is, "idle" while it does not exist
    chunk_size, \* chunk_size[t]: the chunk t has worked out and not stored
    pixel_start, pixelnum, to,
    sl_left,    \* sl_left[y]: pixels scanline y waits for
    sl_buf,     \* sl_buf[y]: the pixels stored in its buffer, NoBuf when freed
    count,      \* count[t]: the sl_left that thread t has read
    image,      \* pixels of this run that the output shows
    computed    \* computed[p]: how often pixel p was computed in this run

vars == <<setup, run, buf_mode, cur_pixel, last_pixel, per_processor_chunk,
          pc, chunk_size, pixel_start, pixelnum, to, sl_left, sl_buf, count,
          image, computed>>

Width == setup.width
Height == setup.height
npsw == Cardinality(Threads)

Pixels == 0 .. Width * Height - 1
Lines == 0 .. Height - 1
Line(p) == p \div Width
PixelsOf(y) == {p \in Pixels : Line(p) = y}

NoBuf == {-1}

First == setup.runs[run][1]
Run == First .. last_pixel

(* The pixels do_run(a, b) is to compute.                                  *)
PixelsIn(r) == setup.runs[r][1] .. setup.runs[r][2]

(* Lines of which the run has every pixel: the others never see sl_left    *)
(* reach 0, and are not written.                                           *)
WholeLines == {y \in Lines : PixelsOf(y) \subseteq Run}

States == {"idle", "test", "size", "store", "loop", "span", "pixel", "view",
           "alloc", "paint", "read_left", "write_left", "eol", "free", "done"}

TypeOK ==
    /\ setup \in Setups
    /\ run \in 0 .. Len(setup.runs)
    /\ buf_mode \in {"UNBUF", "DYNAMIC", "SCANLINE", "ACC", "RTSRV"}
    /\ cur_pixel \in Nat /\ last_pixel \in Nat /\ per_processor_chunk \in Nat
    /\ pc \in [Threads -> States]
    /\ chunk_size \in [Threads -> Nat]
    /\ pixel_start \in [Threads -> Nat]
    /\ pixelnum \in [Threads -> Int]
    /\ to \in [Threads -> Int]
    /\ sl_left \in [Lines -> 0 .. Width]
    /\ sl_buf \in [Lines -> (SUBSET Pixels) \cup {NoBuf}]
    /\ count \in [Threads -> Nat]
    /\ image \in SUBSET Pixels
    /\ computed \in [Pixels -> Nat]

Init ==
    /\ setup \in Setups
    /\ run = 0
    /\ buf_mode = "UNBUF"
    /\ cur_pixel = 0 /\ last_pixel = 0
    /\ per_processor_chunk = setup.chunk
    /\ pc = [t \in Threads |-> "idle"]
    /\ chunk_size = [t \in Threads |-> 0]
    /\ pixel_start = [t \in Threads |-> 0]
    /\ pixelnum = [t \in Threads |-> 0]
    /\ to = [t \in Threads |-> 0]
    /\ sl_left = [y \in Lines |-> 0]
    /\ sl_buf = [y \in Lines |-> NoBuf]
    /\ count = [t \in Threads |-> 0]
    /\ image = {}
    /\ computed = [p \in Pixels |-> 0]

At(t, from, next) == pc[t] = from /\ pc' = [pc EXCEPT ![t] = next]

sharing == <<cur_pixel, last_pixel, per_processor_chunk>>
claims == <<chunk_size, pixel_start, pixelnum, to>>
lines == <<sl_left, sl_buf, count>>
fixed == <<setup, run, buf_mode>>

Returned == \A t \in Threads : pc[t] \in {"idle", "done"}

-----------------------------------------------------------------------------

(* view_2init: how the pixels reach the output.                            *)
BufMode ==
    CASE setup.program = "rtsrv" -> "RTSRV"
      [] setup.program = "rt_full_incr" -> "ACC"
      [] setup.program = "rt" /\ Width <= UnbufferedWidth -> "UNBUF"
      [] OTHER -> IF npsw <= Height \div 4 THEN "SCANLINE" ELSE "DYNAMIC"

(* A frame, a sample of full_incr_mode or an assignment of rtsrv starts:   *)
(* view_2init allocates the scanlines, a whole line to each thread in      *)
(* SCANLINE mode, and do_run sets the counter and creates the threads.     *)
do_run ==
    /\ Returned
    /\ run < Len(setup.runs)
    /\ run' = run + 1
    /\ buf_mode' = BufMode
    /\ per_processor_chunk' =
         IF BufMode = "SCANLINE" THEN Width ELSE per_processor_chunk
    /\ cur_pixel' = setup.runs[run + 1][1]
    /\ last_pixel' = setup.runs[run + 1][2]
    /\ pc' = [t \in Threads |-> "test"]
    /\ sl_left' = [y \in Lines |-> Width]
    /\ sl_buf' = [y \in Lines |-> NoBuf]
    /\ image' = {}
    /\ computed' = [p \in Pixels |-> 0]
    /\ UNCHANGED <<setup, claims, count>>

-----------------------------------------------------------------------------

(* worker(): "Figure out a reasonable chunk size", unless there is one.    *)
TestChunk(t) ==
    /\ At(t, "test", IF per_processor_chunk <= 0 THEN "size" ELSE "loop")
    /\ UNCHANGED <<fixed, sharing, claims, lines, image, computed>>

Ladder == {4, 16, 64, 256, 1024, 4096, 16384, 65536, 262144}

(* The difference is negative when the other threads have passed the end   *)
(* already; C rounds its eighth towards 0 and size_t makes it enormous.    *)
ChunkFor(pixels) ==
    LET product == pixels * setup.samples
        rungs == IF product <= -8
                 THEN Ladder
                 ELSE {c \in Ladder : product \div 8 > npsw * c}
    IN  IF rungs = {} THEN 1 ELSE Max(rungs)

SizeChunk(t) ==
    /\ At(t, "size", "store")
    /\ chunk_size' = [chunk_size EXCEPT ![t] = ChunkFor(last_pixel - cur_pixel)]
    /\ UNCHANGED <<fixed, sharing, pixel_start, pixelnum, to, lines, image,
                   computed>>

StoreChunk(t) ==
    /\ At(t, "store", "loop")
    /\ per_processor_chunk' = chunk_size[t]
    /\ UNCHANGED <<fixed, cur_pixel, last_pixel, claims, lines, image, computed>>

(* What plausible bugs would do; not part of the specification.            *)

BugTakeOne(t) ==        \* the counter moved by one pixel only
    /\ At(t, "loop", "span")
    /\ pixel_start' = [pixel_start EXCEPT ![t] = cur_pixel]
    /\ cur_pixel' = cur_pixel + 1
    /\ UNCHANGED <<fixed, last_pixel, per_processor_chunk, chunk_size, pixelnum,
                   to, lines, image, computed>>

BugTakeSkips(t) ==      \* one pixel more than the chunk
    /\ At(t, "loop", "span")
    /\ pixel_start' = [pixel_start EXCEPT ![t] = cur_pixel]
    /\ cur_pixel' = cur_pixel + per_processor_chunk + 1
    /\ UNCHANGED <<fixed, last_pixel, per_processor_chunk, chunk_size, pixelnum,
                   to, lines, image, computed>>

(* The loop of worker(): the next chunk, taken under RT_SEM_WORKER.        *)
(* Nothing in the program ever sets stop_worker.                           *)
TakeChunk(t) ==
    /\ At(t, "loop", "span")
    /\ pixel_start' = [pixel_start EXCEPT ![t] = cur_pixel]
    /\ cur_pixel' = cur_pixel + per_processor_chunk
    /\ UNCHANGED <<fixed, last_pixel, per_processor_chunk, chunk_size, pixelnum,
                   to, lines, image, computed>>

Step == IF setup.top_down THEN -1 ELSE 1

(* Where the chunk begins and ends, per_processor_chunk read once more,    *)
(* without the semaphore.                                                  *)
Span(t) ==
    /\ At(t, "span", "pixel")
    /\ LET from == IF setup.top_down THEN last_pixel - pixel_start[t]
                                     ELSE pixel_start[t]
       IN  /\ pixelnum' = [pixelnum EXCEPT ![t] = from]
           /\ to' = [to EXCEPT ![t] = from + Step * per_processor_chunk]
    /\ UNCHANGED <<fixed, sharing, chunk_size, pixel_start, lines, image,
                   computed>>

ChunkDone(t) ==
    /\ pixelnum[t] = to[t]
    /\ At(t, "pixel", "loop")
    /\ UNCHANGED <<fixed, sharing, claims, lines, image, computed>>

BugLastPixel(p) == p >= last_pixel \/ p < 0

Outside(p) == p > last_pixel \/ p < 0

BugReturnsAtTheTop(t) ==    \* the test for pixelnum < 0 forgotten
    /\ pixelnum[t] # to[t]
    /\ pixelnum[t] > last_pixel
    /\ At(t, "pixel", "done")
    /\ UNCHANGED <<fixed, sharing, claims, lines, image, computed>>

WorkerReturns(t) ==
    /\ pixelnum[t] # to[t]
    /\ Outside(pixelnum[t])
    /\ At(t, "pixel", "done")
    /\ UNCHANGED <<fixed, sharing, claims, lines, image, computed>>

(* do_pixel up to its call of view_pixel: the ray is shot.                 *)
do_pixel(t) ==
    /\ pixelnum[t] # to[t]
    /\ ~Outside(pixelnum[t])
    /\ At(t, "pixel", "view")
    /\ computed' = [computed EXCEPT ![pixelnum[t]] = @ + 1]
    /\ UNCHANGED <<fixed, sharing, claims, lines, image>>

-----------------------------------------------------------------------------

(* view_pixel returns, and the loop of worker() goes on.                   *)
Advance(t) == pixelnum' = [pixelnum EXCEPT ![t] = @ + Step]

Stay == UNCHANGED pixelnum

rest == <<fixed, sharing, chunk_size, pixel_start, to, computed>>

(* UNBUF and RTSRV: one pixel to the output, or into the buffer of the     *)
(* assignment, in a critical section of its own.                           *)
Direct(t) ==
    /\ buf_mode \in {"UNBUF", "RTSRV"}
    /\ At(t, "view", "pixel")
    /\ image' = image \cup {pixelnum[t]}
    /\ Advance(t)
    /\ UNCHANGED <<rest, lines>>

Y(t) == Line(pixelnum[t])

BugStoredAnew(t) == {pixelnum[t]}   \* a buffer for every pixel

Stored(t) == (sl_buf[Y(t)] \ NoBuf) \cup {pixelnum[t]}

(* DYNAMIC: the pixel is stored and counted under RT_SEM_RESULTS.          *)
Dynamic(t) ==
    /\ buf_mode = "DYNAMIC" /\ pc[t] = "view"
    /\ sl_buf' = [sl_buf EXCEPT ![Y(t)] = Stored(t)]
    /\ sl_left' = [sl_left EXCEPT ![Y(t)] = @ - 1]
    /\ IF sl_left[Y(t)] - 1 <= 0
       THEN At(t, "view", "eol") /\ Stay
       ELSE At(t, "view", "pixel") /\ Advance(t)
    /\ UNCHANGED <<rest, count, image>>

(* ACC: the pixel is stored under RT_SEM_RESULTS, and counted after it.    *)
Accumulate(t) ==
    /\ buf_mode = "ACC"
    /\ At(t, "view", "read_left")
    /\ sl_buf' = [sl_buf EXCEPT ![Y(t)] = Stored(t)]
    /\ Stay
    /\ UNCHANGED <<rest, sl_left, count, image>>

(* SCANLINE: "Only one CPU is working on this scanline, no parallel        *)
(* interlock required!"                                                    *)
LookForBuffer(t) ==
    /\ buf_mode = "SCANLINE"
    /\ At(t, "view", IF sl_buf[Y(t)] = NoBuf THEN "alloc" ELSE "paint")
    /\ Stay
    /\ UNCHANGED <<rest, lines, image>>

Allocate(t) ==
    /\ At(t, "alloc", "paint")
    /\ sl_buf' = [sl_buf EXCEPT ![Y(t)] = {}]
    /\ Stay
    /\ UNCHANGED <<rest, sl_left, count, image>>

Paint(t) ==
    /\ At(t, "paint", "read_left")
    /\ sl_buf' = [sl_buf EXCEPT ![Y(t)] = Stored(t)]
    /\ Stay
    /\ UNCHANGED <<rest, sl_left, count, image>>

(* --(slp->sl_left) without a semaphore: a read and a write.               *)
ReadLeft(t) ==
    /\ At(t, "read_left", "write_left")
    /\ count' = [count EXCEPT ![t] = sl_left[Y(t)]]
    /\ Stay
    /\ UNCHANGED <<rest, sl_left, sl_buf, image>>

WriteLeft(t) ==
    /\ pc[t] = "write_left"
    /\ sl_left' = [sl_left EXCEPT ![Y(t)] = count[t] - 1]
    /\ IF count[t] - 1 <= 0
       THEN At(t, "write_left", "eol") /\ Stay
       ELSE At(t, "write_left", "pixel") /\ Advance(t)
    /\ UNCHANGED <<rest, sl_buf, count, image>>

(* The line is written, over whatever the output had there.                *)
WriteLine(t) ==
    /\ At(t, "eol", "free")
    /\ image' = (image \ PixelsOf(Y(t))) \cup (sl_buf[Y(t)] \ NoBuf)
    /\ Stay
    /\ UNCHANGED <<rest, lines>>

FreeLine(t) ==
    /\ At(t, "free", "pixel")
    /\ sl_buf' = [sl_buf EXCEPT ![Y(t)] = NoBuf]
    /\ Advance(t)
    /\ UNCHANGED <<rest, sl_left, count, image>>

view_pixel(t) ==
    \/ Direct(t) \/ Dynamic(t) \/ Accumulate(t)
    \/ LookForBuffer(t) \/ Allocate(t) \/ Paint(t)
    \/ ReadLeft(t) \/ WriteLeft(t) \/ WriteLine(t) \/ FreeLine(t)

worker(t) ==
    \/ TestChunk(t) \/ SizeChunk(t) \/ StoreChunk(t)
    \/ TakeChunk(t) \/ Span(t) \/ ChunkDone(t) \/ WorkerReturns(t)
    \/ do_pixel(t)
    \/ view_pixel(t)

Next == do_run \/ \E t \in Threads : worker(t)

Spec == Init /\ [][Next]_vars

(* The threads are scheduled by the operating system, and the main program *)
(* goes on to its next run.                                                *)
FairSpec == Spec /\ WF_vars(do_run) /\ \A t \in Threads : WF_vars(worker(t))

-----------------------------------------------------------------------------

(* No pixel is computed by two threads, or twice by one: chunks never      *)
(* overlap, whoever takes them and whenever (worker.c:554-556).            *)
NothingTwice == \A p \in Pixels : computed[p] <= 1

(* When the threads have been joined and do_run returns, every pixel it    *)
(* was called for has been computed (worker.c:722), and no other.          *)
EveryPixelComputed ==
    (run > 0 /\ Returned) =>
        \A p \in Pixels : computed[p] = IF p \in PixelsIn(run) THEN 1 ELSE 0

Buffered == buf_mode \in {"DYNAMIC", "SCANLINE", "ACC"}

(* When do_run returns, the output shows every pixel of the run, or of the *)
(* scanlines the run has completed: no line is missing for a count that    *)
(* was lost, none is overwritten by a second, emptier buffer.              *)
OutputWhole ==
    (run > 0 /\ Returned) =>
        image = IF Buffered THEN UNION {PixelsOf(y) : y \in WholeLines} ELSE Run

Viewing == {"view", "alloc", "paint", "read_left", "write_left", "eol", "free"}

(* "Only one CPU is working on this scanline" (view.c:361) where the code  *)
(* counts on it: in SCANLINE mode always, in ACC mode while it counts, in  *)
(* all of them while a line is written and its buffer freed.               *)
OneCPUPerScanline ==
    \A t, u \in Threads :
        LET unlocked == CASE buf_mode = "SCANLINE" -> Viewing
                          [] buf_mode = "ACC" -> Viewing \ {"view"}
                          [] OTHER -> {"eol", "free"}
        IN  (t # u /\ pc[t] \in unlocked /\ pc[u] \in unlocked) => Y(t) # Y(u)

(* Every run ends, with all its pixels computed and its threads joined.    *)
RunsEnd == <>[](run = Len(setup.runs) /\ Returned)

AllRuns == UNION {{s.runs[i] : i \in DOMAIN s.runs} : s \in Setups}

Abstract == INSTANCE PixelRun WITH
    Runs <- AllRuns,
    todo <- IF run = 0 THEN {} ELSE {p \in PixelsIn(run) : computed[p] = 0},
    running <- ~Returned

(* The threads implement the run of pixels their callers see: every step   *)
(* computes one pixel that is still to do, or none, and the last thread    *)
(* returns when nothing is to do.                                          *)
RunSpec == Abstract!Spec
=============================================================================
