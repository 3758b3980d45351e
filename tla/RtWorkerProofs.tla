--------------------------- MODULE RtWorkerProofs ---------------------------
(***************************************************************************)
(* Proofs about RtWorker: whatever the number of threads and however large *)
(* the image, as long as per_processor_chunk is set before the threads     *)
(* start, do_run computes every pixel of its run exactly once, and so      *)
(* implements PixelRun; and the output then shows them, without a line     *)
(* missing or written from a half-filled buffer.                           *)
(*                                                                         *)
(* The first part counts positions instead of pixels: the k-th position of *)
(* a top_down run is pixel last_pixel - k.  Positions below cur_pixel have *)
(* been taken, by one thread each; a taken position is computed or still   *)
(* pending with the thread that took it, never both and never neither.     *)
(*                                                                         *)
(* The second part follows a computed pixel to its scanline: sl_left says  *)
(* how many pixels have not been counted, the buffer holds those that have *)
(* been stored, and the image has the lines that are full and written.     *)
(***************************************************************************)
EXTENDS RtWorker, FiniteSetTheorems, TLAPS

(* view_2init gives each thread a whole line of this command line.         *)
InScanlines(s) ==
    s.program = "rt" /\ ~(s.width <= UnbufferedWidth) /\ npsw <= s.height \div 4

(* What the program guarantees of its setups when the chunk does not have  *)
(* to be worked out: a chunk, the program's or a scanline; runs that lie   *)
(* inside the image, and that start at pixel 0 when the option top_down is *)
(* given.                                                                  *)
Sized ==
    /\ Threads # {}
    /\ \A s \in Setups :
         /\ s.chunk > 0 \/ InScanlines(s)
         /\ \A i \in 1 .. Len(s.runs) :
              /\ s.runs[i][1] <= s.runs[i][2]
              /\ s.runs[i][2] < s.width * s.height
              /\ s.top_down => s.runs[i][1] = 0

Position(p) == IF setup.top_down THEN last_pixel - p ELSE p

Holding == {"span", "pixel"} \cup Viewing

End(t) == pixel_start[t] + per_processor_chunk

(* Position k is left for thread t to compute.                             *)
Pending(t, k) ==
    /\ k < End(t)
    /\ \/ pc[t] = "span" /\ pixel_start[t] <= k
       \/ pc[t] = "pixel" /\ Position(pixelnum[t]) <= k
       \/ pc[t] \in Viewing /\ Position(pixelnum[t]) < k

Types ==
    /\ setup \in Setups
    /\ run \in 0 .. Len(setup.runs)
    /\ cur_pixel \in Nat /\ last_pixel \in Nat
    /\ per_processor_chunk \in Nat
    /\ pc \in [Threads -> States \ {"size", "store"}]
    /\ pixel_start \in [Threads -> Nat]
    /\ pixelnum \in [Threads -> Int]
    /\ to \in [Threads -> Int]
    /\ computed \in [Pixels -> Nat]

(* Before the first run no thread exists; then last_pixel is the run's.    *)
Running ==
    IF run = 0 THEN /\ \A t \in Threads : pc[t] = "idle"
                    /\ per_processor_chunk = setup.chunk
    ELSE /\ \A t \in Threads : pc[t] # "idle"
         /\ last_pixel = setup.runs[run][2]
         /\ First <= cur_pixel
         /\ per_processor_chunk > 0

(* Where a thread is in the chunk it holds.                                *)
InChunk(t) ==
    pc[t] \in Holding =>
        /\ First <= pixel_start[t]
        /\ End(t) <= cur_pixel
        /\ pc[t] # "span" =>
             /\ Position(to[t]) = End(t)
             /\ pixel_start[t] <= Position(pixelnum[t])
             /\ Position(pixelnum[t]) <= End(t)
        /\ pc[t] \in Viewing => Position(pixelnum[t]) < End(t)

Apart ==
    \A t, u \in Threads :
        (t # u /\ pc[t] \in Holding /\ pc[u] \in Holding) =>
            End(t) <= pixel_start[u] \/ End(u) <= pixel_start[t]

(* A pixel that was computed was taken, is in the run and is not pending.  *)
Sound ==
    \A p \in Pixels : computed[p] # 0 =>
        /\ computed[p] = 1
        /\ run > 0 /\ First <= Position(p) /\ Position(p) < cur_pixel
        /\ p <= last_pixel
        /\ \A t \in Threads : ~Pending(t, Position(p))

(* A pixel of the run that was taken is computed or pending.               *)
Complete ==
    \A p \in Pixels :
        (run > 0 /\ p <= last_pixel /\ First <= Position(p)
             /\ Position(p) < cur_pixel /\ computed[p] = 0) =>
            \E t \in Threads : Pending(t, Position(p))

(* A thread returns only once the counter has passed the end of the run.   *)
Passed == \A t \in Threads : pc[t] = "done" => cur_pixel > last_pixel

IInv ==
    /\ Types
    /\ Running
    /\ \A t \in Threads : InChunk(t)
    /\ Apart
    /\ Sound
    /\ Complete
    /\ Passed

-----------------------------------------------------------------------------

LEMMA SetupFacts ==
    ASSUME NEW s \in Setups
    PROVE  /\ s.program \in {"rt", "rt_full_incr", "rtsrv"}
           /\ s.width \in Nat \ {0} /\ s.height \in Nat \ {0}
           /\ s.top_down \in BOOLEAN
           /\ s.chunk \in Nat
           /\ s.runs \in Seq(Nat \X Nat)
           /\ \A i \in 1 .. Len(s.runs) :
                s.runs[i][1] \in Nat /\ s.runs[i][2] \in Nat
BY SetupAssumption DEF SetupType

(* What view_pixel does to the shared counter and the chunks: the pixel is *)
(* still being viewed, or the loop of its thread goes on to the next one.  *)
LEMMA ViewPixel ==
    ASSUME IInv, NEW t \in Threads, view_pixel(t)
    PROVE  /\ pc[t] \in Viewing
           /\ UNCHANGED <<setup, run, cur_pixel, last_pixel,
                          per_processor_chunk, pixel_start, to, computed>>
           /\ \E next \in States \ {"size", "store"} :
                /\ pc' = [pc EXCEPT ![t] = next]
                /\ \/ next \in Viewing /\ pixelnum' = pixelnum
                   \/ next = "pixel" /\ Advance(t)
<1> USE DEF At, rest, fixed, sharing, States, Viewing, Stay
<1>1. CASE Direct(t)
  BY <1>1 DEF Direct
<1>2. CASE Dynamic(t)
  BY <1>2 DEF Dynamic
<1>3. CASE Accumulate(t)
  BY <1>3 DEF Accumulate
<1>4. CASE LookForBuffer(t)
  BY <1>4 DEF LookForBuffer
<1>5. CASE Allocate(t) \/ Paint(t) \/ ReadLeft(t)
  BY <1>5 DEF Allocate, Paint, ReadLeft
<1>6. CASE WriteLeft(t)
  BY <1>6 DEF WriteLeft
<1>7. CASE WriteLine(t) \/ FreeLine(t)
  BY <1>7 DEF WriteLine, FreeLine
<1> QED
  BY <1>1, <1>2, <1>3, <1>4, <1>5, <1>6, <1>7 DEF view_pixel

LEMMA TypesFacts ==
    ASSUME Types
    PROVE  /\ setup.top_down \in BOOLEAN
           /\ Width \in Nat /\ Height \in Nat
           /\ run > 0 => First \in Nat
           /\ \A p \in Pixels : p \in Nat /\ Position(p) \in Int
           /\ \A t \in Threads : Position(pixelnum[t]) \in Int
                                /\ Position(to[t]) \in Int /\ End(t) \in Nat
<1>1. setup \in Setups /\ run \in 0 .. Len(setup.runs) /\ last_pixel \in Nat
  BY DEF Types
<1>2. setup.top_down \in BOOLEAN /\ Width \in Nat /\ Height \in Nat
  BY <1>1, SetupFacts DEF Width, Height
<1>3. run > 0 => First \in Nat
  <2>1. setup.runs \in Seq(Nat \X Nat)
    BY <1>1, SetupFacts
  <2>2. run > 0 => run \in 1 .. Len(setup.runs)
    BY <1>1, <2>1
  <2> QED
    BY <1>1, <2>2, SetupFacts DEF First
<1>4. \A p \in Pixels : p \in Nat
  BY DEF Pixels
<1>5. \A k \in Int : Position(k) \in Int
  BY <1>1, <1>2 DEF Position
<1>6. \A t \in Threads : pixelnum[t] \in Int /\ to[t] \in Int /\ End(t) \in Nat
  BY DEF Types, End
<1>7. \A p \in Pixels : Position(p) \in Int
  BY <1>4, <1>5
<1> QED
  BY <1>2, <1>3, <1>4, <1>5, <1>6, <1>7

LEMMA Initially == ASSUME Sized, Init PROVE IInv
<1>1. setup \in Setups /\ setup.chunk \in Nat
  BY SetupFacts DEF Init
<1>2. Types
  BY <1>1, SetupFacts DEF Init, Types, States
<1> QED
  BY <1>2 DEF Init, IInv, Types, Running, InChunk, Apart, Sound, Complete, Passed,
              Holding, Viewing

(* The first step of a run: no position is taken yet.                      *)
LEMMA RunBegins == ASSUME Sized, IInv, do_run PROVE IInv'
<1>1. Types /\ setup' = setup /\ run' = run + 1 /\ run' \in 1 .. Len(setup.runs)
  BY SetupFacts DEF IInv, do_run, Types
<1>2. setup.runs[run'] \in Nat \X Nat
  BY <1>1, SetupFacts DEF Types
<1>3. per_processor_chunk' \in Nat \ {0}
  <2>1. setup \in Setups /\ setup.chunk \in Nat /\ Width \in Nat \ {0}
    BY <1>1, SetupFacts DEF Types, Width
  <2>2. setup.chunk > 0 \/ BufMode = "SCANLINE"
    BY <2>1 DEF Sized, InScanlines, BufMode, Width, Height
  <2>3. per_processor_chunk > 0 \/ BufMode = "SCANLINE"
    BY <2>1, <2>2 DEF IInv, Running
  <2> QED
    BY <1>1, <2>1, <2>3 DEF do_run, Types
<1>4. /\ cur_pixel' = setup.runs[run'][1] /\ last_pixel' = setup.runs[run'][2]
      /\ pc' = [t \in Threads |-> "test"] /\ computed' = [p \in Pixels |-> 0]
  BY <1>1 DEF do_run
<1>5. Types'
  BY <1>1, <1>2, <1>3, <1>4 DEF do_run, Types, States, claims, Pixels, Width, Height
<1>6. Pixels' = Pixels
  BY <1>1 DEF Pixels, Width, Height
<1>7. Running'
  <2>1. run' # 0 /\ First' <= cur_pixel'
    BY <1>1, <1>2, <1>4 DEF First, Types
  <2> QED
    BY <1>1, <1>3, <1>4, <2>1 DEF Running
<1>8. \A t \in Threads : pc'[t] = "test"
  BY <1>4
<1>9. cur_pixel' = First'
  BY <1>1, <1>4 DEF First
<1>10. (\A t \in Threads : InChunk(t))' /\ Apart' /\ Passed'
  BY <1>8 DEF InChunk, Apart, Passed, Holding, Viewing
<1>11. Sound'
  BY <1>4, <1>6 DEF Sound
<1>12. Complete'
  <2> SUFFICES ASSUME NEW p \in Pixels',
                      First' <= Position(p)', Position(p)' < cur_pixel'
               PROVE  FALSE
    BY DEF Complete
  <2>1. First' \in Int /\ Position(p)' \in Int
    BY <1>5, <1>6, <1>9 DEF Types, Position, Pixels, Width, Height
  <2> QED
    BY <1>9, <2>1
<1> QED
  BY <1>5, <1>7, <1>10, <1>11, <1>12 DEF IInv

(* A thread that leaves its chunk, or does not hold one.                   *)
LEMMA Leaves ==
    ASSUME IInv, NEW t \in Threads, NEW next \in {"loop", "done"},
           UNCHANGED <<setup, run, cur_pixel, last_pixel, per_processor_chunk,
                       pixel_start, pixelnum, to, computed>>,
           pc' = [pc EXCEPT ![t] = next], pc[t] # "idle",
           next = "done" => cur_pixel > last_pixel,
           \A p \in Pixels : p <= last_pixel => ~Pending(t, Position(p))
    PROVE  IInv'
<1>1. Pixels' = Pixels
  BY DEF Pixels, Width, Height
<1>2. Types'
  BY <1>1 DEF IInv, Types, States
<1>3. \A u \in Threads : pc'[u] = IF u = t THEN next ELSE pc[u]
  BY DEF IInv, Types
<1>4. Running'
  BY <1>3 DEF IInv, Running, First
<1>5. \A u \in Threads : pc'[u] \in Holding => u # t /\ pc[u] \in Holding /\ pc'[u] = pc[u]
  BY <1>3 DEF Holding, Viewing
<1>6. (\A u \in Threads : InChunk(u))'
  BY <1>5 DEF IInv, InChunk, First, End, Position, Holding
<1>7. Apart'
  BY <1>5 DEF IInv, Apart, End
<1>8. \A u \in Threads : \A k : Pending(u, k)' <=> u # t /\ Pending(u, k)
  BY <1>3, <1>5 DEF Pending, Holding, Viewing, End, Position
<1>9. \A p : Position(p)' = Position(p)
  BY DEF Position
<1>10. Sound'
  BY <1>1, <1>8, <1>9 DEF IInv, Sound, First
<1>11. Complete'
  BY <1>1, <1>8, <1>9 DEF IInv, Complete, First
<1>12. Passed'
  BY <1>3 DEF IInv, Passed
<1> QED
  BY <1>2, <1>4, <1>6, <1>7, <1>10, <1>11, <1>12 DEF IInv

LEMMA Taking == ASSUME Sized, IInv, NEW t \in Threads, TakeChunk(t) PROVE IInv'
<1>1. /\ pc[t] = "loop" /\ pc' = [pc EXCEPT ![t] = "span"]
      /\ pixel_start' = [pixel_start EXCEPT ![t] = cur_pixel]
      /\ cur_pixel' = cur_pixel + per_processor_chunk
      /\ UNCHANGED <<setup, run, last_pixel, per_processor_chunk, pixelnum, to,
                     computed>>
  BY DEF TakeChunk, At, fixed
<1>2. Pixels' = Pixels /\ First' = First
  BY <1>1 DEF Pixels, Width, Height, First
<1>3. Types'
  BY <1>1, <1>2 DEF IInv, Types, States
<1>4. \A u \in Threads :
        /\ pc'[u] = IF u = t THEN "span" ELSE pc[u]
        /\ pixel_start'[u] = IF u = t THEN cur_pixel ELSE pixel_start[u]
        /\ End(u)' = IF u = t THEN cur_pixel' ELSE End(u)
  BY <1>1 DEF IInv, Types, End
<1>5. run > 0 /\ First \in Int /\ First <= cur_pixel /\ Running'
  <2>1. run # 0 /\ First <= cur_pixel
    BY <1>1 DEF IInv, Running, Types
  <2>2. run > 0 /\ First \in Int
    BY <2>1, TypesFacts DEF IInv, Types
  <2>3. Running'
    BY <1>1, <1>2, <1>4, <2>1, <2>2 DEF IInv, Running, Types
  <2> QED
    BY <2>1, <2>2, <2>3
<1>6. \A p : Position(p)' = Position(p)
  BY <1>1 DEF Position
<1>7. \A u \in Threads : \A k \in Int :
        Pending(u, k)' <=> IF u = t THEN cur_pixel <= k /\ k < cur_pixel'
                           ELSE Pending(u, k)
  BY <1>1, <1>4, <1>6 DEF Pending, Viewing
<1>8. \A k : ~Pending(t, k)
  BY <1>1 DEF Pending, Viewing
<1>9. \A u \in Threads : u # t /\ pc[u] \in Holding => End(u) <= cur_pixel
  BY DEF IInv, InChunk
<1>10. (\A u \in Threads : InChunk(u))'
  <2> SUFFICES ASSUME NEW u \in Threads PROVE InChunk(u)'
    OBVIOUS
  <2>1. CASE u = t
    BY <2>1, <1>2, <1>3, <1>4, <1>5 DEF InChunk, Viewing, Types, IInv
  <2>2. CASE u # t
    <3>1. End(u) \in Int /\ cur_pixel <= cur_pixel'
      BY <1>1, TypesFacts DEF IInv, Types
    <3> QED
      BY <2>2, <3>1, <1>1, <1>2, <1>4, <1>6 DEF InChunk, IInv, Types
  <2> QED
    BY <2>1, <2>2
<1>11. Apart'
  BY <1>4, <1>9 DEF IInv, Apart, Holding
<1>12. Sound'
  BY <1>1, <1>2, <1>3, <1>5, <1>6, <1>7, TypesFacts DEF IInv, Sound, Types
<1>13. Complete'
  <2> SUFFICES ASSUME NEW q \in Pixels, q <= last_pixel, First <= Position(q),
                      Position(q) < cur_pixel', computed[q] = 0
               PROVE  \E u \in Threads : Pending(u, Position(q))'
    BY <1>1, <1>2, <1>6 DEF Complete
  <2>1. Position(q) \in Int /\ cur_pixel \in Int
    BY TypesFacts DEF IInv, Types
  <2>2. CASE cur_pixel <= Position(q)
    BY <2>1, <2>2, <1>6, <1>7
  <2>3. CASE Position(q) < cur_pixel
    <3>1. PICK u \in Threads : Pending(u, Position(q))
      BY <2>3, <1>5 DEF IInv, Complete
    <3>2. u # t
      BY <3>1, <1>8
    <3> QED
      BY <3>1, <3>2, <2>1, <1>6, <1>7
  <2> QED
    BY <2>1, <2>2, <2>3
<1>14. Passed'
  BY <1>1, <1>4 DEF IInv, Passed, Types
<1> QED
  BY <1>3, <1>5, <1>10, <1>11, <1>12, <1>13, <1>14 DEF IInv

(* A step of a thread inside its chunk that computes nothing.              *)
LEMMA Moves ==
    ASSUME IInv, NEW t \in Threads, NEW next \in Holding \ {"span"},
           pc[t] \in Holding,
           UNCHANGED <<setup, run, cur_pixel, last_pixel, per_processor_chunk,
                       pixel_start, computed>>,
           pc' = [pc EXCEPT ![t] = next],
           pixelnum' \in [Threads -> Int], to' \in [Threads -> Int],
           \A u \in Threads \ {t} : pixelnum'[u] = pixelnum[u] /\ to'[u] = to[u],
           InChunk(t)', \A k \in Int : Pending(t, k)' <=> Pending(t, k)
    PROVE  IInv'
<1>1. Pixels' = Pixels /\ First' = First
  BY DEF Pixels, Width, Height, First
<1>2. Types'
  BY <1>1 DEF IInv, Types, States, Holding, Viewing
<1>3. \A u \in Threads : pc'[u] = IF u = t THEN next ELSE pc[u]
  BY DEF IInv, Types
<1>4. next # "idle" /\ next # "done" /\ pc[t] # "idle"
  BY DEF Holding, Viewing
<1>5. Running' /\ Passed'
  BY <1>1, <1>3, <1>4 DEF IInv, Running, Passed
<1>6. \A p : Position(p)' = Position(p)
  BY DEF Position
<1>7. \A u \in Threads : End(u)' = End(u)
  BY DEF End
<1>8. \A u \in Threads : InChunk(u)'
  <2> SUFFICES ASSUME NEW u \in Threads, u # t PROVE InChunk(u)'
    OBVIOUS
  <2> QED
    BY <1>1, <1>3, <1>6, <1>7 DEF IInv, InChunk
<1>9. \A u \in Threads : pc'[u] \in Holding <=> pc[u] \in Holding
  BY <1>3
<1>10. Apart'
  BY <1>7, <1>9 DEF IInv, Apart
<1>11. \A u \in Threads : \A k \in Int : Pending(u, k)' <=> Pending(u, k)
  <2> SUFFICES ASSUME NEW u \in Threads, u # t, NEW k \in Int
               PROVE  Pending(u, k)' <=> Pending(u, k)
    OBVIOUS
  <2> QED
    BY <1>3, <1>6, <1>7 DEF Pending
<1>12. \A q \in Pixels : Position(q) \in Int
  BY TypesFacts DEF IInv
<1>13. Sound'
  BY <1>1, <1>6, <1>11, <1>12 DEF IInv, Sound
<1>14. Complete'
  BY <1>1, <1>6, <1>11, <1>12 DEF IInv, Complete
<1> QED
  BY <1>2, <1>5, <1>8, <1>10, <1>13, <1>14 DEF IInv

LEMMA Spanning == ASSUME IInv, NEW t \in Threads, Span(t) PROVE IInv'
<1> DEFINE from == IF setup.top_down THEN last_pixel - pixel_start[t]
                                     ELSE pixel_start[t]
<1>1. /\ pc[t] = "span" /\ pc' = [pc EXCEPT ![t] = "pixel"]
      /\ pixelnum' = [pixelnum EXCEPT ![t] = from]
      /\ to' = [to EXCEPT ![t] = from + Step * per_processor_chunk]
      /\ UNCHANGED <<setup, run, cur_pixel, last_pixel, per_processor_chunk,
                     pixel_start, computed>>
  BY DEF Span, At, fixed, sharing
<1>2. /\ setup.top_down \in BOOLEAN /\ last_pixel \in Nat
      /\ pixel_start[t] \in Nat /\ per_processor_chunk \in Nat
  BY TypesFacts DEF IInv, Types
<1>3. from \in Int /\ from + Step * per_processor_chunk \in Int
  BY <1>2 DEF Step
<1>4. /\ pc'[t] = "pixel" /\ pixelnum'[t] = from
      /\ to'[t] = from + Step * per_processor_chunk
  BY <1>1 DEF IInv, Types
<1>5. /\ Position(pixelnum[t])' = pixel_start[t]
      /\ Position(to[t])' = End(t) /\ End(t)' = End(t)
  BY <1>1, <1>2, <1>4 DEF Position, Step, End
<1>6. InChunk(t)'
  BY <1>1, <1>2, <1>4, <1>5 DEF IInv, InChunk, First, Holding, Viewing, End
<1>7. \A k \in Int : Pending(t, k)' <=> Pending(t, k)
  BY <1>1, <1>4, <1>5 DEF Pending, Viewing
<1>8. pixelnum' \in [Threads -> Int] /\ to' \in [Threads -> Int]
  BY <1>1, <1>3 DEF IInv, Types
<1>9. \A u \in Threads \ {t} : pixelnum'[u] = pixelnum[u] /\ to'[u] = to[u]
  BY <1>1 DEF IInv, Types
<1>10. "pixel" \in Holding \ {"span"} /\ pc[t] \in Holding
  BY <1>1 DEF Holding
<1> HIDE DEF from
<1> QED
  BY <1>1, <1>6, <1>7, <1>8, <1>9, <1>10, Moves

LEMMA Viewed == ASSUME IInv, NEW t \in Threads, view_pixel(t) PROVE IInv'
<1>1. PICK next \in States \ {"size", "store"} :
        /\ pc' = [pc EXCEPT ![t] = next]
        /\ \/ next \in Viewing /\ pixelnum' = pixelnum
           \/ next = "pixel" /\ Advance(t)
  BY ViewPixel
<1>2. /\ pc[t] \in Viewing
      /\ UNCHANGED <<setup, run, cur_pixel, last_pixel, per_processor_chunk,
                     pixel_start, to, computed>>
  BY ViewPixel
<1>3. pc'[t] = next /\ pc[t] \in Holding /\ pc[t] # "span" /\ pc[t] # "pixel"
  BY <1>1, <1>2 DEF IInv, Types, Holding, Viewing
<1>4. /\ setup.top_down \in BOOLEAN /\ last_pixel \in Nat /\ pixelnum[t] \in Int
      /\ pixel_start[t] \in Nat /\ per_processor_chunk \in Nat
      /\ Position(pixelnum[t]) \in Int
  BY TypesFacts DEF IInv, Types
<1>5. next \in Holding \ {"span"}
  BY <1>1 DEF Holding, Viewing
<1>6. CASE next \in Viewing /\ pixelnum' = pixelnum
  <2>1. next # "span" /\ next # "pixel"
    BY <1>6 DEF Viewing
  <2>2. InChunk(t)'
    BY <1>2, <1>3, <1>6, <2>1 DEF IInv, InChunk, First, Position, End
  <2>3. \A k \in Int : Pending(t, k)' <=> Pending(t, k)
    BY <1>2, <1>3, <1>6, <2>1 DEF Pending, Position, End
  <2> QED
    BY <1>1, <1>2, <1>3, <1>5, <1>6, <2>2, <2>3, Moves DEF IInv, Types
<1>7. CASE next = "pixel" /\ Advance(t)
  <2>1. /\ pixelnum' \in [Threads -> Int]
        /\ \A u \in Threads \ {t} : pixelnum'[u] = pixelnum[u]
        /\ pixelnum'[t] = pixelnum[t] + Step
    BY <1>4, <1>7 DEF Advance, Step, IInv, Types
  <2>2. Position(pixelnum[t])' = Position(pixelnum[t]) + 1
    BY <1>2, <1>4, <2>1 DEF Position, Step
  <2>3. InChunk(t)'
    BY <1>2, <1>3, <1>4, <1>7, <2>2 DEF IInv, InChunk, First, Position, End, Viewing
  <2>4. \A k \in Int : Pending(t, k)' <=> Pending(t, k)
    BY <1>2, <1>3, <1>4, <1>7, <2>2 DEF Pending, Position, End, Viewing
  <2> QED
    BY <1>1, <1>2, <1>3, <1>5, <2>1, <2>3, <2>4, Moves DEF IInv, Types
<1> QED
  BY <1>1, <1>6, <1>7

(* The pixel a thread is about to compute is in the run and not computed.  *)
LEMMA NextPixel ==
    ASSUME IInv, NEW t \in Threads, do_pixel(t)
    PROVE  /\ pc[t] = "pixel" /\ run > 0
           /\ pixelnum[t] \in Int /\ 0 <= pixelnum[t] /\ pixelnum[t] <= last_pixel
           /\ First <= Position(pixelnum[t]) /\ Position(pixelnum[t]) < cur_pixel
           /\ Position(pixelnum[t]) < End(t)
           /\ Pending(t, Position(pixelnum[t]))
           /\ pixelnum[t] \in Pixels => computed[pixelnum[t]] = 0
<1>1. pc[t] = "pixel" /\ pixelnum[t] # to[t] /\ ~Outside(pixelnum[t])
  BY DEF do_pixel, At
<1>2. /\ setup.top_down \in BOOLEAN /\ last_pixel \in Nat /\ pixelnum[t] \in Int
      /\ to[t] \in Int /\ pixel_start[t] \in Nat /\ per_processor_chunk \in Nat
      /\ cur_pixel \in Nat /\ Position(pixelnum[t]) \in Int /\ End(t) \in Nat
  BY TypesFacts DEF IInv, Types
<1>3. 0 <= pixelnum[t] /\ pixelnum[t] <= last_pixel
  BY <1>1, <1>2 DEF Outside
<1>4. run > 0 /\ First \in Int
  BY <1>1, TypesFacts DEF IInv, Running, Types
<1>5. Position(pixelnum[t]) # Position(to[t])
  BY <1>1, <1>2 DEF Position
<1>6. /\ First <= pixel_start[t] /\ End(t) <= cur_pixel
      /\ pixel_start[t] <= Position(pixelnum[t])
      /\ Position(pixelnum[t]) < End(t)
  BY <1>1, <1>2, <1>5 DEF IInv, InChunk, Holding
<1>7. Pending(t, Position(pixelnum[t]))
  BY <1>1, <1>2, <1>6 DEF Pending
<1>8. pixelnum[t] \in Pixels => computed[pixelnum[t]] = 0
  BY <1>7 DEF IInv, Sound
<1> QED
  BY <1>1, <1>2, <1>3, <1>4, <1>6, <1>7, <1>8

LEMMA Computing == ASSUME Sized, IInv, NEW t \in Threads, do_pixel(t) PROVE IInv'
<1> DEFINE q == pixelnum[t]
<1>1. /\ pc[t] = "pixel" /\ pc' = [pc EXCEPT ![t] = "view"]
      /\ computed' = [computed EXCEPT ![q] = @ + 1]
      /\ UNCHANGED <<setup, run, cur_pixel, last_pixel, per_processor_chunk,
                     pixel_start, pixelnum, to>>
  BY DEF do_pixel, At, fixed, sharing, claims
<1>2. /\ q \in Int /\ 0 <= q /\ q <= last_pixel /\ run > 0
      /\ First <= Position(q) /\ Position(q) < cur_pixel /\ Position(q) < End(t)
      /\ Pending(t, Position(q))
      /\ q \in Pixels => computed[q] = 0
  BY NextPixel
<1>3. Pixels' = Pixels /\ First' = First
  BY <1>1 DEF Pixels, Width, Height, First
<1>4. \A r \in Pixels :
        computed'[r] = IF r = q THEN 1 ELSE computed[r]
  BY <1>1, <1>2 DEF IInv, Types
<1>5. Types'
  <2>1. computed' \in [Pixels -> Nat]
    <3>1. \A r \in Pixels : computed'[r] \in Nat
      BY <1>4 DEF IInv, Types
    <3>2. computed' = [r \in Pixels |-> computed'[r]]
      BY <1>1 DEF IInv, Types
    <3> QED
      BY <3>1, <3>2
  <2>2. pc' \in [Threads -> States \ {"size", "store"}]
    BY <1>1 DEF IInv, Types, States
  <2> QED
    BY <1>1, <1>3, <2>1, <2>2 DEF IInv, Types
<1>6. \A u \in Threads : pc'[u] = IF u = t THEN "view" ELSE pc[u]
  BY <1>1 DEF IInv, Types
<1>7. Running' /\ Passed'
  BY <1>1, <1>3, <1>6 DEF IInv, Running, Passed
<1>8. \A p : Position(p)' = Position(p)
  BY <1>1 DEF Position
<1>9. \A u \in Threads : End(u)' = End(u)
  BY <1>1 DEF End
<1>10. \A u \in Threads : InChunk(u)'
  <2> SUFFICES ASSUME NEW u \in Threads PROVE InChunk(u)'
    OBVIOUS
  <2>1. CASE u = t
    BY <2>1, <1>1, <1>2, <1>3, <1>6, <1>8, <1>9 DEF IInv, InChunk, Holding, Viewing
  <2>2. CASE u # t
    BY <2>2, <1>1, <1>3, <1>6, <1>8, <1>9 DEF IInv, InChunk
  <2> QED
    BY <2>1, <2>2
<1>11. \A u \in Threads : pc'[u] \in Holding <=> pc[u] \in Holding
  BY <1>1, <1>6 DEF Holding, Viewing
<1>12. Apart'
  BY <1>1, <1>9, <1>11 DEF IInv, Apart
<1>13. Position(q) \in Int /\ \A r \in Pixels : Position(r) \in Int
  BY TypesFacts DEF IInv
<1>14. \A k \in Int : Pending(t, k)' <=> Pending(t, k) /\ k # Position(q)
  BY <1>1, <1>6, <1>8, <1>9, <1>13 DEF Pending, Viewing
<1>15. \A u \in Threads : u # t => \A k : Pending(u, k)' <=> Pending(u, k)
  BY <1>1, <1>6, <1>8, <1>9 DEF Pending
<1>16. \A u \in Threads : u # t => ~Pending(u, Position(q))
  <2> SUFFICES ASSUME NEW u \in Threads, u # t, Pending(u, Position(q))
               PROVE  FALSE
    OBVIOUS
  <2>1. pc[u] \in Holding /\ pc[t] \in Holding
    BY <1>1 DEF Pending, Holding
  <2>2. End(t) <= pixel_start[u] \/ End(u) <= pixel_start[t]
    BY <2>1 DEF IInv, Apart
  <2>3. pixel_start[u] <= Position(q) /\ Position(q) < End(u)
    BY <2>1, <1>13, TypesFacts DEF Pending, IInv, InChunk, Types, Viewing, Holding
  <2>4. pixel_start[t] <= Position(q)
    BY <1>1 DEF IInv, InChunk, Holding
  <2>5. /\ pixel_start[t] \in Nat /\ pixel_start[u] \in Nat
        /\ End(t) \in Nat /\ End(u) \in Nat
    BY TypesFacts DEF IInv, Types
  <2>6. Position(q) < End(t)
    BY <1>2
  <2> HIDE DEF q
  <2> QED
    BY <2>2, <2>3, <2>4, <2>5, <2>6, <1>13
<1>17. \A r \in Pixels : r # q => Position(r) # Position(q)
  BY <1>2, TypesFacts DEF Position, IInv, Types
<1>18. Sound'
  <2> SUFFICES ASSUME NEW r \in Pixels, computed'[r] # 0
               PROVE  /\ computed'[r] = 1
                      /\ First <= Position(r) /\ Position(r) < cur_pixel
                      /\ r <= last_pixel
                      /\ \A u \in Threads : ~Pending(u, Position(r))'
    BY <1>1, <1>2, <1>3, <1>8 DEF Sound
  <2>1. CASE r = q
    BY <2>1, <1>2, <1>4, <1>8, <1>13, <1>14, <1>15, <1>16
  <2>2. CASE r # q
    BY <2>2, <1>4, <1>8, <1>13, <1>14, <1>15 DEF IInv, Sound
  <2> QED
    BY <2>1, <2>2
<1>19. Complete'
  <2> SUFFICES ASSUME NEW r \in Pixels, r <= last_pixel, First <= Position(r),
                      Position(r) < cur_pixel, computed'[r] = 0
               PROVE  \E u \in Threads : Pending(u, Position(r))'
    BY <1>1, <1>3, <1>8 DEF Complete
  <2>1. r # q /\ computed[r] = 0
    BY <1>4
  <2>2. PICK u \in Threads : Pending(u, Position(r))
    BY <2>1, <1>2 DEF IInv, Complete
  <2>3. Position(r) \in Int /\ Position(r) # Position(q)
    BY <2>1, <1>13, <1>17
  <2> QED
    BY <2>2, <2>3, <1>8, <1>14, <1>15
<1> QED
  BY <1>5, <1>7, <1>10, <1>12, <1>18, <1>19 DEF IInv

LEMMA WorkerStep == ASSUME Sized, IInv, NEW t \in Threads, worker(t) PROVE IInv'
<1>0. pc[t] \notin {"idle", "done"}
  BY DEF worker, TestChunk, SizeChunk, StoreChunk, TakeChunk, Span, ChunkDone,
         WorkerReturns, do_pixel, view_pixel, Direct, Dynamic, Accumulate,
         LookForBuffer, Allocate, Paint, ReadLeft, WriteLeft, WriteLine, FreeLine,
         At
<1>1. /\ pc[t] # "size" /\ pc[t] # "store" /\ per_processor_chunk > 0
      /\ Position(pixelnum[t]) \in Int /\ Position(to[t]) \in Int
      /\ last_pixel \in Nat /\ pixelnum[t] \in Int /\ setup.top_down \in BOOLEAN
  <2>1. per_processor_chunk > 0
    BY <1>0 DEF IInv, Running
  <2> QED
    BY <2>1, TypesFacts DEF IInv, Types
<1>2. CASE TestChunk(t)
  <2>1. pc[t] = "test" /\ pc' = [pc EXCEPT ![t] = "loop"]
    <3>1. ~(per_processor_chunk <= 0)
      BY <1>1 DEF IInv, Types
    <3> QED
      BY <3>1, <1>2 DEF TestChunk, At
  <2>2. \A k : ~Pending(t, k)
    BY <2>1 DEF Pending, Viewing
  <2> QED
    BY <1>2, <2>1, <2>2, Leaves DEF TestChunk, fixed, sharing, claims
<1>3. CASE TakeChunk(t)
  BY <1>3, Taking
<1>4. CASE Span(t)
  BY <1>4, Spanning
<1>5. CASE ChunkDone(t)
  <2>1. pc[t] = "pixel" /\ pc' = [pc EXCEPT ![t] = "loop"] /\ pixelnum[t] = to[t]
    BY <1>5 DEF ChunkDone, At
  <2>2. Position(pixelnum[t]) = End(t)
    BY <2>1 DEF IInv, InChunk, Holding
  <2>3. \A r \in Pixels : ~Pending(t, Position(r))
    BY <1>1, <2>1, <2>2, TypesFacts DEF Pending, Viewing, IInv
  <2> QED
    BY <1>5, <2>1, <2>3, Leaves DEF ChunkDone, fixed, sharing, claims
<1>6. CASE WorkerReturns(t)
  <2>1. /\ pc[t] = "pixel" /\ pc' = [pc EXCEPT ![t] = "done"]
        /\ pixelnum[t] > last_pixel \/ pixelnum[t] < 0
    BY <1>6 DEF WorkerReturns, At, Outside
  <2>2. /\ pixel_start[t] \in Nat /\ cur_pixel \in Nat /\ End(t) \in Nat
        /\ pixel_start[t] <= Position(pixelnum[t])
        /\ Position(pixelnum[t]) <= End(t) /\ End(t) <= cur_pixel
        /\ Position(to[t]) = End(t)
    BY <2>1, TypesFacts DEF IInv, InChunk, Holding, Types
  <2>3. pixelnum[t] # to[t] /\ to[t] \in Int
    BY <1>6 DEF WorkerReturns, IInv, Types
  <2>4. cur_pixel > last_pixel
    BY <1>1, <2>1, <2>2, <2>3 DEF Position
  <2>5. \A r \in Pixels : r <= last_pixel => ~Pending(t, Position(r))
    BY <1>1, <2>1, <2>2, TypesFacts DEF Pending, Viewing, Position, IInv
  <2> QED
    BY <1>6, <2>1, <2>4, <2>5, Leaves DEF WorkerReturns, fixed, sharing, claims
<1>7. CASE do_pixel(t)
  BY <1>7, Computing
<1>8. CASE view_pixel(t)
  BY <1>8, Viewed
<1>9. ~SizeChunk(t) /\ ~StoreChunk(t)
  BY <1>1 DEF SizeChunk, StoreChunk, At
<1> QED
  BY <1>2, <1>3, <1>4, <1>5, <1>6, <1>7, <1>8, <1>9 DEF worker

LEMMA EachStep == ASSUME Sized, IInv, [Next]_vars PROVE IInv'
<1>1. CASE do_run
  BY <1>1, RunBegins
<1>2. CASE \E t \in Threads : worker(t)
  BY <1>2, WorkerStep
<1>3. CASE UNCHANGED vars
  BY <1>3 DEF vars, IInv, Types, Running, InChunk, Apart, Sound, Complete, Passed,
              Pending, End, Position, First, Pixels, Width, Height
<1> QED
  BY <1>1, <1>2, <1>3 DEF Next

LEMMA Inductive == Sized => (Spec => []IInv)
<1> SUFFICES ASSUME Sized PROVE Spec => []IInv
  OBVIOUS
<1>1. Init => IInv
  BY Initially
<1>2. IInv /\ [Next]_vars => IInv'
  BY EachStep
<1> QED
  BY <1>1, <1>2, PTL DEF Spec

-----------------------------------------------------------------------------

(* No pixel is computed twice, by any number of threads: the chunks that   *)
(* worker() takes under RT_SEM_WORKER do not overlap (worker.c:554-556).   *)
THEOREM ComputedOnce == Sized => (Spec => []NothingTwice)
<1>1. IInv => NothingTwice
  BY DEF IInv, Sound, Types, NothingTwice
<1> QED
  BY <1>1, Inductive, PTL

(* In a state where every thread has returned.                             *)
LEMMA AllReturned ==
    ASSUME Sized, IInv, run > 0, Returned, NEW r \in Pixels
    PROVE  computed[r] = IF r \in PixelsIn(run) THEN 1 ELSE 0
<1>1. PICK t \in Threads : TRUE
  BY DEF Sized
<1>2. \A u \in Threads : pc[u] = "done"
  BY DEF IInv, Running, Returned, Types
<1>3. cur_pixel > last_pixel
  BY <1>1, <1>2 DEF IInv, Passed
<1>4. \A u \in Threads : ~Pending(u, Position(r))
  BY <1>2 DEF Pending, Viewing
<1>5. /\ last_pixel = setup.runs[run][2]
      /\ setup.top_down => First = 0
      /\ First \in Nat /\ last_pixel \in Nat /\ cur_pixel \in Nat
      /\ setup.top_down \in BOOLEAN
  <2>1. run \in 1 .. Len(setup.runs) /\ setup \in Setups
    BY SetupFacts DEF IInv, Types
  <2>2. setup.top_down => First = 0
    BY <2>1 DEF Sized, First
  <2> QED
    BY <2>2, TypesFacts DEF IInv, Running, Types
<1>6. PixelsIn(run) = First .. last_pixel
  BY <1>5 DEF PixelsIn, First
<1>7. r \in PixelsIn(run) <=> r <= last_pixel /\ First <= Position(r)
  BY <1>5, <1>6, TypesFacts DEF Position, IInv
<1>8. Position(r) < cur_pixel \/ r \notin PixelsIn(run)
  BY <1>3, <1>5, <1>6, TypesFacts DEF Position, IInv
<1> QED
  BY <1>4, <1>7, <1>8 DEF IInv, Sound, Complete

(* When do_run returns, the pixels of its run, and no others, have been    *)
(* computed (worker.c:722).                                                *)
THEOREM ComputedAll == Sized => (Spec => []EveryPixelComputed)
<1> SUFFICES ASSUME Sized PROVE Spec => []EveryPixelComputed
  OBVIOUS
<1>1. IInv => EveryPixelComputed
  BY AllReturned DEF EveryPixelComputed
<1> QED
  BY <1>1, Inductive, PTL

-----------------------------------------------------------------------------

Todo == IF run = 0 THEN {} ELSE {p \in PixelsIn(run) : computed[p] = 0}

(* The pixels of a run are pixels of the image.                            *)
LEMMA RunInImage ==
    ASSUME Sized, NEW s \in Setups, NEW i \in 1 .. Len(s.runs)
    PROVE  /\ s.runs[i][1] .. s.runs[i][2] \subseteq 0 .. s.width * s.height - 1
           /\ s.runs[i] \in AllRuns
<1>1. s.runs \in Seq(Nat \X Nat) /\ s.width * s.height \in Nat
  BY SetupFacts
<1>2. s.runs[i] \in Nat \X Nat /\ i \in DOMAIN s.runs
  BY <1>1
<1>3. s.runs[i][2] < s.width * s.height
  BY DEF Sized
<1> QED
  BY <1>1, <1>2, <1>3 DEF AllRuns

(* A step inside a run, of a thread that does not compute and return.      *)
LEMMA Quietly ==
    ASSUME Sized, IInv, NEW t \in Threads, worker(t),
           computed' = computed, pc'[t] # "done"
    PROVE  Todo' = Todo /\ ~Returned /\ ~Returned'
<1>1. setup' = setup /\ run' = run
  BY DEF worker, TestChunk, SizeChunk, StoreChunk, TakeChunk, Span, ChunkDone,
         WorkerReturns, do_pixel, view_pixel, Direct, Dynamic, Accumulate,
         LookForBuffer, Allocate, Paint, ReadLeft, WriteLeft, WriteLine, FreeLine,
         fixed, rest
<1>2. pc[t] \notin {"idle", "done"}
  BY DEF worker, TestChunk, SizeChunk, StoreChunk, TakeChunk, Span, ChunkDone,
         WorkerReturns, do_pixel, view_pixel, Direct, Dynamic, Accumulate,
         LookForBuffer, Allocate, Paint, ReadLeft, WriteLeft, WriteLine, FreeLine,
         At
<1>3. pc'[t] # "idle"
  <2>1. run # 0
    BY <1>2 DEF IInv, Running
  <2> QED
    BY <2>1, <1>1, WorkerStep DEF IInv, Running
<1> QED
  BY <1>1, <1>2, <1>3 DEF Todo, PixelsIn, Returned

(* The step of PixelRun that a step of do_run or of a thread is.           *)
LEMMA RunStarts == ASSUME Sized, IInv, do_run PROVE Abstract!Next
<1> DEFINE r == setup.runs[run + 1]
<1>1. /\ setup' = setup /\ run' = run + 1 /\ run' \in 1 .. Len(setup.runs)
      /\ setup \in Setups /\ Returned
  BY SetupFacts DEF IInv, do_run, Types
<1>2. r \in AllRuns /\ r[1] .. r[2] \subseteq Pixels
  BY <1>1, RunInImage DEF Pixels, Width, Height
<1>3. computed' = [q \in Pixels |-> 0] /\ pc' = [t \in Threads |-> "test"]
  BY DEF do_run
<1>4. Todo' = r[1] .. r[2]
  <2>1. run' # 0 /\ PixelsIn(run)' = r[1] .. r[2]
    BY <1>1 DEF PixelsIn
  <2>2. Todo' = {q \in r[1] .. r[2] : computed'[q] = 0}
    BY <2>1 DEF Todo
  <2>3. \A q \in r[1] .. r[2] : computed'[q] = 0
    BY <1>2, <1>3
  <2> QED
    BY <2>2, <2>3
<1>5. ~Returned'
  BY <1>3 DEF Returned, Sized
<1> HIDE DEF r
<1> QED
  BY <1>1, <1>2, <1>4, <1>5 DEF Abstract!Next, Abstract!Call, Todo

LEMMA RunComputes ==
    ASSUME Sized, IInv, NEW t \in Threads, do_pixel(t) PROVE Abstract!Next
<1> DEFINE q == pixelnum[t]
<1>1. /\ pc[t] = "pixel" /\ pc' = [pc EXCEPT ![t] = "view"]
      /\ computed' = [computed EXCEPT ![q] = @ + 1]
      /\ UNCHANGED <<setup, run, last_pixel>>
  BY DEF do_pixel, At, fixed, sharing
<1>2. /\ q \in Int /\ 0 <= q /\ q <= last_pixel /\ run > 0
      /\ First <= Position(q)
      /\ q \in Pixels => computed[q] = 0
  BY NextPixel
<1>3. /\ run \in 1 .. Len(setup.runs) /\ setup \in Setups
      /\ last_pixel = setup.runs[run][2]
      /\ First \in Nat /\ last_pixel \in Nat /\ setup.top_down \in BOOLEAN
  <2>1. setup \in Setups /\ Types /\ run \in 0 .. Len(setup.runs)
    BY DEF IInv, Types
  <2>2. last_pixel = setup.runs[run][2] /\ last_pixel \in Nat
    BY <1>2, <2>1 DEF IInv, Running, Types
  <2>3. setup.runs \in Seq(Nat \X Nat)
    BY <2>1, SetupFacts
  <2>4. run \in 1 .. Len(setup.runs)
    BY <1>2, <2>1, <2>3
  <2> QED
    BY <1>2, <2>1, <2>2, <2>4, TypesFacts
<1>4. setup.top_down => First = 0
  BY <1>3 DEF Sized, First
<1>5. q \in PixelsIn(run)
  BY <1>2, <1>3, <1>4 DEF PixelsIn, First, Position
<1>6. PixelsIn(run) \subseteq Pixels
  BY <1>3, RunInImage DEF PixelsIn, Pixels, Width, Height
<1>7. \A r \in Pixels : computed'[r] = IF r = q THEN 1 ELSE computed[r]
  BY <1>1, <1>2 DEF IInv, Types
<1>8. q \in Todo /\ Todo' = Todo \ {q}
  BY <1>1, <1>2, <1>5, <1>6, <1>7 DEF Todo, PixelsIn
<1>9. ~Returned /\ ~Returned'
  BY <1>1 DEF Returned, IInv, Types
<1> HIDE DEF q
<1> QED
  BY <1>8, <1>9 DEF Abstract!Next, Abstract!Compute, Todo

LEMMA ReturnedIsComplete == Sized /\ IInv => (Returned => Todo = {})
<1>1. ASSUME Sized, IInv, Returned, run # 0 PROVE Todo = {}
  <2>1. run \in 1 .. Len(setup.runs) /\ setup \in Setups /\ run > 0
    BY <1>1, SetupFacts DEF IInv, Types
  <2>2. PixelsIn(run) \subseteq Pixels
    BY <1>1, <2>1, RunInImage DEF PixelsIn, Pixels, Width, Height
  <2> QED
    BY <1>1, <2>1, <2>2, AllReturned DEF Todo
<1> QED
  BY <1>1 DEF Todo

LEMMA RunReturns ==
    ASSUME Sized, IInv, NEW t \in Threads, WorkerReturns(t),
           Returned' => Todo' = {}
    PROVE  [Abstract!Next]_(Abstract!vars)
<1>1. /\ pc[t] = "pixel" /\ UNCHANGED <<setup, run, computed>>
  BY DEF WorkerReturns, At, fixed
<1>2. Todo' = Todo /\ ~Returned
  BY <1>1 DEF Todo, PixelsIn, Returned
<1>3. CASE Returned'
  BY <1>2, <1>3 DEF Abstract!Next, Abstract!Return, Todo
<1>4. CASE ~Returned'
  BY <1>2, <1>4 DEF Abstract!vars, Todo
<1> QED
  BY <1>3, <1>4

(* Whatever the threads do, do_run computes each pixel of its run once and *)
(* returns when all of them are computed.                                  *)
THEOREM ImplementsPixelRun == Sized => (Spec => RunSpec)
<1> SUFFICES ASSUME Sized PROVE Spec => RunSpec
  OBVIOUS
<1>1. Init => Abstract!Init
  BY DEF Init, Abstract!Init, Returned
<1>2. IInv => (Returned => Todo = {})
  BY ReturnedIsComplete
<1>3. IInv /\ (Returned => Todo = {})' /\ [Next]_vars => [Abstract!Next]_(Abstract!vars)
  <2> SUFFICES ASSUME IInv, (Returned => Todo = {})', [Next]_vars
               PROVE  [Abstract!Next]_(Abstract!vars)
    OBVIOUS
  <2>1. CASE do_run
    BY <2>1, RunStarts
  <2>2. ASSUME NEW t \in Threads, worker(t) PROVE [Abstract!Next]_(Abstract!vars)
    <3>1. CASE do_pixel(t)
      BY <3>1, RunComputes
    <3>2. CASE WorkerReturns(t)
      BY <3>2, RunReturns
    <3>3. CASE ~do_pixel(t) /\ ~WorkerReturns(t)
      <4>1. computed' = computed /\ pc'[t] # "done"
        <5>1. CASE view_pixel(t)
          BY <5>1, ViewPixel DEF IInv, Types, Viewing
        <5>2. CASE ~view_pixel(t)
          BY <2>2, <3>3, <5>2
             DEF worker, TestChunk, SizeChunk, StoreChunk, TakeChunk, Span,
                 ChunkDone,
                 At, IInv, Types
        <5> QED
          BY <5>1, <5>2
      <4>2. Todo' = Todo /\ ~Returned /\ ~Returned'
        BY <2>2, <4>1, Quietly
      <4> QED
        BY <4>2 DEF Abstract!vars, Todo
    <3> QED
      BY <3>1, <3>2, <3>3
  <2>3. CASE UNCHANGED vars
    BY <2>3 DEF vars, Abstract!vars, Returned, PixelsIn
  <2> QED
    BY <2>1, <2>2, <2>3 DEF Next
<1> QED
  BY <1>1, <1>2, <1>3, Inductive, PTL DEF Spec, Abstract!Spec, RunSpec

-----------------------------------------------------------------------------
(* The scanlines.  A pixel of a line is computed, then stored in the       *)
(* line's buffer, then counted in sl_left, and the thread that counts the  *)
(* last one writes the line.  Past(stages) are the pixels that were        *)
(* computed and have left these stages of view_pixel.                      *)

Unstored == {"view", "alloc", "paint"}
Uncounted == Unstored \cup {"read_left", "write_left"}

Past(stages) ==
    {p \in Pixels : /\ computed[p] # 0
                    /\ \A t \in Threads : pc[t] \in stages => pixelnum[t] # p}

StoredOf(y) == PixelsOf(y) \cap Past(Unstored)
CountedOf(y) == PixelsOf(y) \cap Past(Uncounted)

LineTypes ==
    /\ buf_mode = IF run = 0 THEN "UNBUF" ELSE BufMode
    /\ sl_left \in [Lines -> Int]
    /\ sl_buf \in [Lines -> (SUBSET Pixels) \cup {NoBuf}]
    /\ count \in [Threads -> Int]
    /\ image \in SUBSET Pixels

(* The stages of view_pixel a thread passes, and the pixel it is at.       *)
Stages(t) ==
    /\ pc[t] \in Viewing => pixelnum[t] \in Pixels /\ computed[pixelnum[t]] # 0
    /\ pc[t] \in Viewing \ {"view"} => Buffered
    /\ pc[t] \in {"alloc", "paint"} => buf_mode = "SCANLINE"
    /\ pc[t] \in {"read_left", "write_left"} => buf_mode \in {"SCANLINE", "ACC"}

Counts == Buffered =>
    \A y \in Lines : sl_left[y] = Width - Cardinality(CountedOf(y))

(* A count that was read is still the count when it is written.            *)
Fresh(t) ==
    /\ pc[t] = "write_left" => count[t] = sl_left[Y(t)]
    /\ pc[t] = "alloc" => sl_buf[Y(t)] = NoBuf

(* A line is written once it is full, by one thread.                       *)
Ends ==
    \A t \in Threads : pc[t] \in {"eol", "free"} =>
        /\ sl_left[Y(t)] = 0
        /\ \A u \in Threads \ {t} : pc[u] \in {"eol", "free"} => Y(u) # Y(t)

Unwritten(y) == sl_left[y] # 0 \/ \E t \in Threads : pc[t] = "eol" /\ Y(t) = y

Buffers == Buffered =>
    \A y \in Lines : Unwritten(y) => sl_buf[y] \ NoBuf = StoredOf(y)

Images ==
    image = IF Buffered THEN UNION {PixelsOf(y) : y \in {z \in Lines : ~Unwritten(z)}}
            ELSE Past({"view"})

(* Where the code relies on a chunk being whole lines, it is: the counter, *)
(* and with it the chunks, stand at boundaries of lines.                   *)
Multiple(k) == \E m \in Int : k = m * Width

ByLines == buf_mode \in {"SCANLINE", "ACC"}

Aligned == ByLines =>
    /\ per_processor_chunk > 0 /\ Multiple(per_processor_chunk)
    /\ Multiple(cur_pixel)
    /\ setup.top_down => Multiple(last_pixel + 1)
    /\ \A t \in Threads : pc[t] \in Holding => Multiple(pixel_start[t])

LInv ==
    /\ LineTypes
    /\ \A t \in Threads : Stages(t) /\ Fresh(t)
    /\ Counts
    /\ Ends
    /\ Buffers
    /\ Images
    /\ Aligned

-----------------------------------------------------------------------------

LEMMA Quotient ==
    ASSUME NEW p \in Int, NEW m \in Int, NEW w \in Nat \ {0}
    PROVE  p \div w \in Int /\ (p \div w < m <=> p < m * w)
OBVIOUS

LEMMA Times ==
    ASSUME NEW w \in Nat \ {0}, NEW m \in Int, NEW n \in Int
    PROVE  /\ m * w \in Int /\ m <= n => m * w <= n * w
           /\ (m + n) * w = m * w + n * w /\ (m - n) * w = m * w - n * w
           /\ (m + 1) * w = m * w + w
OBVIOUS

(* A line has Width pixels, and every pixel is on a line.                  *)
LEMMA LineFacts ==
    ASSUME Types
    PROVE  /\ Width \in Nat \ {0} /\ Height \in Nat \ {0}
           /\ \A p \in Pixels : Line(p) \in Lines
           /\ \A y \in Lines : /\ IsFiniteSet(PixelsOf(y))
                               /\ Cardinality(PixelsOf(y)) = Width
<1>1. Width \in Nat \ {0} /\ Height \in Nat \ {0}
  BY SetupFacts DEF Types, Width, Height
<1>2. ASSUME NEW p \in Pixels PROVE Line(p) \in Lines
  <2>1. p \in Int /\ Width * Height \in Int /\ 0 <= p /\ p < Width * Height
    BY <1>1 DEF Pixels
  <2>2. Width * Height = Height * Width /\ 0 * Width = 0
    BY <1>1
  <2>3. Line(p) \in Int /\ Line(p) < Height /\ ~(Line(p) < 0)
    BY <1>1, <2>1, <2>2, Quotient DEF Line
  <2> QED
    BY <1>1, <2>3 DEF Lines
<1>3. ASSUME NEW y \in Lines
      PROVE  IsFiniteSet(PixelsOf(y)) /\ Cardinality(PixelsOf(y)) = Width
  <2> DEFINE a == y * Width
  <2>1. /\ y \in Int /\ 0 <= y /\ y + 1 <= Height /\ y + 1 \in Int
    BY <1>1 DEF Lines
  <2>2. /\ a \in Int /\ (y + 1) * Width = a + Width /\ 0 * Width <= a
        /\ (y + 1) * Width <= Height * Width
    BY <1>1, <2>1, Times
  <2>3. 0 * Width = 0 /\ Height * Width = Width * Height /\ Width * Height \in Int
    BY <1>1
  <2>4. \A p \in Int : Line(p) = y <=> a <= p /\ p < a + Width
    <3> SUFFICES ASSUME NEW p \in Int PROVE Line(p) = y <=> a <= p /\ p < a + Width
      OBVIOUS
    <3>1. Line(p) \in Int /\ (Line(p) < y <=> p < a)
      BY <1>1, <2>1, Quotient DEF Line
    <3>2. Line(p) < y + 1 <=> p < a + Width
      BY <1>1, <2>1, <2>2, Quotient DEF Line
    <3> HIDE DEF a
    <3> QED
      BY <1>1, <2>1, <2>2, <3>1, <3>2
  <2> HIDE DEF a
  <2>5. PixelsOf(y) = a .. a + Width - 1
    <3>1. \A p \in Pixels : p \in Int
      BY <1>1 DEF Pixels
    <3>2. \A p \in a .. a + Width - 1 : p \in Pixels
      BY <1>1, <2>2, <2>3 DEF Pixels
    <3>3. \A p \in Int : p \in a .. a + Width - 1 <=> a <= p /\ p < a + Width
      BY <1>1, <2>2
    <3> QED
      BY <2>4, <3>1, <3>2, <3>3 DEF PixelsOf
  <2> QED
    BY <1>1, <2>2, <2>5, FS_Interval
<1> QED
  BY <1>1, <1>2, <1>3

(* Pixels on two sides of a boundary are on different lines.               *)
LEMMA Boundary ==
    ASSUME Types, NEW p \in Int, NEW q \in Int, NEW b \in Int, Multiple(b),
           p < b, b <= q
    PROVE  Line(p) # Line(q)
<1>1. PICK m \in Int : b = m * Width
  BY DEF Multiple
<1>2. Line(p) < m /\ ~(Line(q) < m)
  BY <1>1, LineFacts, Quotient DEF Line
<1> QED
  BY <1>2

LEMMA Multiples ==
    ASSUME Types, NEW k \in Int, Multiple(k), NEW l \in Int, Multiple(l)
    PROVE  Multiple(k + l) /\ Multiple(k - l)
<1>1. PICK m \in Int : k = m * Width
  BY DEF Multiple
<1>2. PICK n \in Int : l = n * Width
  BY DEF Multiple
<1>3. Width \in Nat \ {0}
  BY LineFacts
<1>4. k + l = (m + n) * Width /\ k - l = (m - n) * Width
  BY <1>1, <1>2, <1>3, Times
<1> QED
  BY <1>4 DEF Multiple

(* Two threads are never at the same pixel, and not on the same line where *)
(* chunks are lines.                                                       *)
LEMMA NeverTogether ==
    ASSUME IInv, NEW t \in Threads, NEW u \in Threads, t # u,
           pc[t] \in Viewing, pc[u] \in Viewing
    PROVE  /\ pixelnum[t] # pixelnum[u]
           /\ Aligned /\ ByLines => Y(t) # Y(u)
<1>1. /\ Types /\ pc[t] \in Holding /\ pc[u] \in Holding
      /\ pixelnum[t] \in Int /\ pixelnum[u] \in Int /\ last_pixel \in Int
      /\ setup.top_down \in BOOLEAN
      /\ \A v \in {t, u} :
           /\ pixel_start[v] \in Int /\ End(v) \in Int
           /\ pixel_start[v] <= Position(pixelnum[v])
           /\ Position(pixelnum[v]) < End(v)
  <2>1. /\ Types /\ pc[t] \in Holding /\ pc[u] \in Holding
        /\ pc[t] # "span" /\ pc[u] # "span"
    BY DEF IInv, Holding, Viewing
  <2>2. \A v \in {t, u} : InChunk(v)
    BY DEF IInv
  <2>3. \A v \in {t, u} : /\ pixel_start[v] <= Position(pixelnum[v])
                          /\ Position(pixelnum[v]) < End(v)
    BY <2>1, <2>2 DEF InChunk
  <2>4. Types /\ t \in Threads /\ u \in Threads
    BY DEF IInv
  <2>5. /\ pixelnum[t] \in Int /\ pixelnum[u] \in Int /\ last_pixel \in Int
        /\ \A v \in {t, u} : pixel_start[v] \in Int
    BY <2>4 DEF Types
  <2>6. setup.top_down \in BOOLEAN /\ \A v \in {t, u} : End(v) \in Int
    BY <2>4, TypesFacts
  <2> QED
    BY <2>1, <2>3, <2>5, <2>6
<1>2. ASSUME NEW v \in Threads, NEW w \in Threads, {v, w} = {t, u},
             End(v) <= pixel_start[w]
      PROVE  /\ pixelnum[v] # pixelnum[w]
             /\ Aligned /\ ByLines => Y(v) # Y(w)
  <2>1. Position(pixelnum[v]) < pixel_start[w]
        /\ pixel_start[w] <= Position(pixelnum[w])
    BY <1>1, <1>2 DEF Position
  <2>2. pixelnum[v] # pixelnum[w]
    BY <1>1, <1>2, <2>1 DEF Position
  <2>3. ASSUME Aligned, ByLines PROVE Y(v) # Y(w)
    <3>1. Multiple(pixel_start[w])
      BY <1>1, <1>2, <2>3 DEF Aligned
    <3>2. CASE setup.top_down
      <4>1. Multiple((last_pixel + 1) - pixel_start[w])
        <5>1. Multiple(last_pixel + 1)
          BY <2>3, <3>2 DEF Aligned
        <5> DEFINE k == last_pixel + 1
                   l == pixel_start[w]
        <5>2. w \in {t, u}
          BY <1>2
        <5>3. k \in Int /\ l \in Int
          BY <1>1, <5>2
        <5>4. Multiple(k) /\ Multiple(l)
          BY <3>1, <5>1
        <5> HIDE DEF k, l
        <5>5. Multiple(k - l)
          BY <1>1, <5>3, <5>4, Multiples
        <5> QED
          BY <5>5 DEF k, l
      <4>2. /\ v \in {t, u} /\ w \in {t, u}
            /\ pixelnum[v] \in Int /\ pixelnum[w] \in Int /\ last_pixel \in Int
            /\ pixel_start[w] \in Int
        BY <1>1, <1>2
      <4>3. /\ last_pixel - pixelnum[v] < pixel_start[w]
            /\ pixel_start[w] <= last_pixel - pixelnum[w]
        BY <2>1, <3>2 DEF Position
      <4>4. /\ pixelnum[w] < (last_pixel + 1) - pixel_start[w]
            /\ (last_pixel + 1) - pixel_start[w] <= pixelnum[v]
        BY <4>2, <4>3
      <4> QED
        BY <1>1, <4>1, <4>2, <4>4, Boundary DEF Y
    <3>3. CASE ~setup.top_down
      BY <1>1, <1>2, <2>1, <3>1, <3>3, Boundary DEF Y, Position
    <3> QED
      BY <3>2, <3>3
  <2> QED
    BY <2>2, <2>3
<1>3. End(t) <= pixel_start[u] \/ End(u) <= pixel_start[t]
  BY <1>1 DEF IInv, Apart
<1>4. CASE End(t) <= pixel_start[u]
  BY <1>2, <1>4
<1>5. CASE End(u) <= pixel_start[t]
  BY <1>2, <1>5
<1> QED
  BY <1>3, <1>4, <1>5

(* How the pixels that have left some stages change when a thread moves.   *)
LEMMA PastStep ==
    ASSUME IInv, \A u \in Threads : Stages(u),
           NEW S \in SUBSET Viewing, NEW t \in Threads, NEW next,
           pc' = [pc EXCEPT ![t] = next], setup' = setup, computed' = computed,
           \A u \in Threads \ {t} : pixelnum'[u] = pixelnum[u],
           next \in S => pc[t] \in S /\ pixelnum'[t] = pixelnum[t]
    PROVE  Past(S)' = IF pc[t] \in S /\ next \notin S
                      THEN Past(S) \cup {pixelnum[t]} ELSE Past(S)
<1>1. Pixels' = Pixels
  BY DEF Pixels, Width, Height
<1>2. \A u \in Threads : pc'[u] = IF u = t THEN next ELSE pc[u]
  BY DEF IInv, Types
<1>3. \A p \in Pixels :
        p \in Past(S) <=> /\ computed[p] # 0
                          /\ \A u \in Threads : pc[u] \in S => pixelnum[u] # p
  BY DEF Past
<1>4. \A p \in Pixels :
        p \in Past(S)' <=> /\ computed[p] # 0
                           /\ \A u \in Threads : pc'[u] \in S => pixelnum'[u] # p
  BY <1>1 DEF Past
<1>5. Past(S) \subseteq Pixels /\ Past(S)' \subseteq Pixels
  BY <1>1 DEF Past
<1>6. CASE pc[t] \in S /\ next \notin S
  <2>1. pixelnum[t] \in Pixels /\ computed[pixelnum[t]] # 0
    BY <1>6 DEF Stages
  <2>2. \A u \in Threads \ {t} : pc[u] \in S => pixelnum[u] # pixelnum[t]
    BY <1>6, NeverTogether
  <2>3. \A p \in Pixels : p \in Past(S)' <=> p \in Past(S) \/ p = pixelnum[t]
    <3> SUFFICES ASSUME NEW p \in Pixels
                 PROVE  p \in Past(S)' <=> p \in Past(S) \/ p = pixelnum[t]
      OBVIOUS
    <3>1. p \in Past(S)' <=> /\ computed[p] # 0
                             /\ \A u \in Threads \ {t} : pc[u] \in S => pixelnum[u] # p
      BY <1>2, <1>4, <1>6
    <3>2. p \in Past(S) <=> /\ computed[p] # 0 /\ pixelnum[t] # p
                            /\ \A u \in Threads \ {t} : pc[u] \in S => pixelnum[u] # p
      BY <1>3, <1>6
    <3> QED
      BY <2>1, <2>2, <3>1, <3>2
  <2> QED
    BY <1>5, <1>6, <2>1, <2>3
<1>7. CASE pc[t] \in S <=> next \in S
  <2>1. \A u \in Threads : pc'[u] \in S <=> pc[u] \in S
    BY <1>2, <1>7
  <2>2. \A u \in Threads : pc[u] \in S => pixelnum'[u] = pixelnum[u]
    BY <1>7
  <2>3. \A p \in Pixels : p \in Past(S)' <=> p \in Past(S)
    <3> SUFFICES ASSUME NEW p \in Pixels PROVE p \in Past(S)' <=> p \in Past(S)
      OBVIOUS
    <3>1. \A u \in Threads : (pc'[u] \in S => pixelnum'[u] # p)
                             <=> (pc[u] \in S => pixelnum[u] # p)
      BY <2>1, <2>2
    <3> QED
      BY <1>3, <1>4, <3>1
  <2> QED
    BY <1>5, <1>7, <2>3
<1> QED
  BY <1>6, <1>7

(* A pixel that is being computed has left no stage yet.                   *)
LEMMA PastComputing ==
    ASSUME IInv, NEW S, "view" \in S, NEW t \in Threads, do_pixel(t)
    PROVE  Past(S)' = Past(S)
<1>1. /\ pc[t] = "pixel" /\ pc' = [pc EXCEPT ![t] = "view"]
      /\ computed' = [computed EXCEPT ![pixelnum[t]] = @ + 1]
      /\ UNCHANGED <<setup, pixelnum>>
  BY DEF do_pixel, At, fixed, claims
<1>2. Pixels' = Pixels
  BY <1>1 DEF Pixels, Width, Height
<1>3. \A u \in Threads : pc'[u] = IF u = t THEN "view" ELSE pc[u]
  BY <1>1 DEF IInv, Types
<1>4. \A p \in Pixels : p # pixelnum[t] => computed'[p] = computed[p]
  BY <1>1 DEF IInv, Types
<1>5. pixelnum[t] \notin Past(S) /\ pixelnum[t] \notin Past(S)'
  BY <1>1, <1>3, NextPixel DEF Past
<1>6. \A p \in Pixels : p # pixelnum[t] => (p \in Past(S)' <=> p \in Past(S))
  <2> SUFFICES ASSUME NEW p \in Pixels, p # pixelnum[t]
               PROVE  p \in Past(S)' <=> p \in Past(S)
    OBVIOUS
  <2>1. \A u \in Threads : (pc'[u] \in S => pixelnum[u] # p)
                             <=> (u # t /\ pc[u] \in S => pixelnum[u] # p)
    BY <1>3
  <2>2. \A u \in Threads : (pc[u] \in S => pixelnum[u] # p)
                             <=> (u # t /\ pc[u] \in S => pixelnum[u] # p)
    OBVIOUS
  <2> QED
    BY <1>1, <1>2, <1>4, <2>1, <2>2 DEF Past
<1> QED
  BY <1>2, <1>5, <1>6 DEF Past

(* What the stages of a thread that is viewing a pixel say of its line.    *)
LEMMA AtLine ==
    ASSUME IInv, LInv, NEW t \in Threads, pc[t] \in Viewing
    PROVE  /\ pixelnum[t] \in Pixels /\ Y(t) \in Lines
           /\ pixelnum[t] \in PixelsOf(Y(t))
           /\ \A y \in Lines : y # Y(t) => pixelnum[t] \notin PixelsOf(y)
           /\ pc[t] \in Uncounted => pixelnum[t] \notin CountedOf(Y(t))
<1>1. pixelnum[t] \in Pixels
  BY DEF LInv, Stages
<1> QED
  BY <1>1, LineFacts DEF IInv, Y, PixelsOf, CountedOf, Past

(* sl_left is 0 if all pixels of the line have been counted.               *)
LEMMA LeftFacts ==
    ASSUME IInv, LInv, Buffered, NEW y \in Lines
    PROVE  /\ sl_left[y] \in Nat
           /\ sl_left[y] = 0 <=> CountedOf(y) = PixelsOf(y)
           /\ \A p \in PixelsOf(y) \ CountedOf(y) :
                /\ sl_left[y] - 1 \in Nat
                /\ sl_left[y] - 1 = Width - Cardinality(CountedOf(y) \cup {p})
<1>1. /\ IsFiniteSet(PixelsOf(y)) /\ Cardinality(PixelsOf(y)) = Width
      /\ Width \in Nat
  BY LineFacts DEF IInv
<1>2. CountedOf(y) \in SUBSET PixelsOf(y)
  BY DEF CountedOf
<1>3. /\ IsFiniteSet(CountedOf(y)) /\ Cardinality(CountedOf(y)) <= Width
      /\ Cardinality(CountedOf(y)) = Width => PixelsOf(y) = CountedOf(y)
  BY <1>1, <1>2, FS_Subset
<1>4. Cardinality(CountedOf(y)) \in Nat
  BY <1>3, FS_CardinalityType
<1>5. sl_left[y] = Width - Cardinality(CountedOf(y))
  BY DEF LInv, Counts
<1>6. sl_left[y] = 0 <=> CountedOf(y) = PixelsOf(y)
  BY <1>1, <1>3, <1>4, <1>5
<1>7. ASSUME NEW p \in PixelsOf(y) \ CountedOf(y)
      PROVE  Cardinality(CountedOf(y) \cup {p}) = Cardinality(CountedOf(y)) + 1
  BY <1>3, <1>7, FS_AddElement
<1>8. ASSUME NEW p \in PixelsOf(y) \ CountedOf(y) PROVE sl_left[y] # 0
  BY <1>6, <1>8
<1> QED
  BY <1>1, <1>3, <1>4, <1>5, <1>6, <1>7, <1>8

(* A step of view_pixel in thread t, which is at the stage next after it.  *)
ViewStep(t, next) ==
    /\ pc[t] \in Viewing /\ next \in Viewing \cup {"pixel"}
    /\ pc' = [pc EXCEPT ![t] = next]
    /\ UNCHANGED <<setup, run, buf_mode, computed, cur_pixel, last_pixel,
                   per_processor_chunk, pixel_start>>
    /\ \A u \in Threads \ {t} : pixelnum'[u] = pixelnum[u]
    /\ next \in Viewing => pixelnum' = pixelnum

LEMMA Framed ==
    ASSUME setup' = setup, run' = run, buf_mode' = buf_mode
    PROVE  /\ Width' = Width /\ Pixels' = Pixels /\ Lines' = Lines
           /\ \A y : PixelsOf(y)' = PixelsOf(y)
           /\ \A k : Multiple(k)' <=> Multiple(k)
           /\ BufMode' = BufMode /\ (Buffered' <=> Buffered)
           /\ (ByLines' <=> ByLines)
BY DEF Width, Height, Pixels, Lines, PixelsOf, Line, Multiple, BufMode, Buffered,
       ByLines

LEMMA ViewFacts ==
    ASSUME IInv, LInv, NEW t \in Threads, NEW next, ViewStep(t, next)
    PROVE  /\ pc'[t] = next /\ Aligned'
           /\ \A u \in Threads \ {t} : pc'[u] = pc[u] /\ Y(u)' = Y(u)
           /\ next \in Viewing => Y(t)' = Y(t)
           /\ \A u \in Threads \ {t} : Stages(u)'
           /\ Y(t) \in Lines /\ pixelnum[t] \in PixelsOf(Y(t))
           /\ Y(t)' = Line(pixelnum'[t])
<1>1. /\ Width' = Width /\ Pixels' = Pixels
      /\ (Buffered' <=> Buffered) /\ (ByLines' <=> ByLines)
      /\ \A k : Multiple(k)' <=> Multiple(k)
  BY Framed DEF ViewStep
<1>2. \A u \in Threads : pc'[u] = IF u = t THEN next ELSE pc[u]
  BY DEF ViewStep, IInv, Types
<1>3. \A u \in Threads : Y(u)' = Line(pixelnum'[u])
  BY <1>1 DEF Y, Line
<1>4. \A u \in Threads \ {t} : Stages(u)'
  BY <1>1, <1>2 DEF Stages, ViewStep, LInv
<1>5. Aligned'
  <2>1. \A u \in Threads : pc'[u] \in Holding => pc[u] \in Holding
    BY <1>2 DEF ViewStep, Holding
  <2> QED
    BY <1>1, <2>1 DEF ViewStep, Aligned, LInv
<1>6. \A u \in Threads \ {t} : Y(u)' = Y(u)
  BY <1>3 DEF ViewStep, Y
<1>7. next \in Viewing => Y(t)' = Y(t)
  BY <1>3 DEF ViewStep, Y
<1> QED
  BY <1>2, <1>3, <1>4, <1>5, <1>6, <1>7, AtLine DEF ViewStep

(* A step of view_pixel that counts nothing and writes nothing.            *)
LEMMA NotCounting ==
    ASSUME IInv, LInv, NEW t \in Threads, NEW next, ViewStep(t, next),
           pc[t] \in Uncounted, next \in Uncounted, sl_left' = sl_left
    PROVE  Counts' /\ Ends' /\ \A y \in Lines : Unwritten(y)' <=> Unwritten(y)
<1>1. /\ \A u \in Threads : pc'[u] = IF u = t THEN next ELSE pc[u]
      /\ \A u \in Threads \ {t} : Y(u)' = Y(u)
  BY ViewFacts
<1>2. pc[t] \notin {"eol", "free"} /\ next \notin {"eol", "free"}
  BY DEF Uncounted, Unstored
<1>3. Uncounted \in SUBSET Viewing
  BY DEF Uncounted, Unstored, Viewing
<1>4. Past(Uncounted)' = Past(Uncounted)
  BY <1>3, PastStep DEF ViewStep, LInv
<1>5. Counts'
  BY <1>4, Framed DEF Counts, LInv, CountedOf, ViewStep
<1>6. Ends'
  BY <1>1, <1>2 DEF Ends, LInv
<1>7. \A y \in Lines : Unwritten(y)' <=> Unwritten(y)
  BY <1>1, <1>2 DEF Unwritten
<1> QED
  BY <1>5, <1>6, <1>7

(* A step that counts a pixel: the thread that counts the last pixel of a  *)
(* line, and no other, is going to write it.                               *)
LEMMA Counting ==
    ASSUME IInv, LInv, Buffered, NEW t \in Threads, NEW next, ViewStep(t, next),
           pc[t] \in Uncounted,
           sl_left' = [sl_left EXCEPT ![Y(t)] = @ - 1],
           next = IF sl_left[Y(t)] - 1 <= 0 THEN "eol" ELSE "pixel"
    PROVE  Counts' /\ Ends' /\ \A y \in Lines : Unwritten(y)' <=> Unwritten(y)
<1> DEFINE q == pixelnum[t]
<1>1. /\ \A u \in Threads : pc'[u] = IF u = t THEN next ELSE pc[u]
      /\ \A u \in Threads \ {t} : Y(u)' = Y(u)
      /\ next \in Viewing => Y(t)' = Y(t)
  BY ViewFacts
<1>2. Uncounted \in SUBSET Viewing /\ next \notin Uncounted
  BY DEF Uncounted, Unstored, Viewing
<1>3. Past(Uncounted)' = Past(Uncounted) \cup {q}
  BY <1>2, PastStep DEF ViewStep, LInv
<1>4. /\ Y(t) \in Lines /\ q \in PixelsOf(Y(t)) /\ q \notin CountedOf(Y(t))
      /\ \A y \in Lines : y # Y(t) => q \notin PixelsOf(y)
  BY AtLine DEF ViewStep
<1>5. \A y \in Lines : CountedOf(y)' = IF y = Y(t) THEN CountedOf(y) \cup {q}
                                                   ELSE CountedOf(y)
  <2> SUFFICES ASSUME NEW y \in Lines
               PROVE  CountedOf(y)' = IF y = Y(t) THEN CountedOf(y) \cup {q}
                                                  ELSE CountedOf(y)
    OBVIOUS
  <2>1. PixelsOf(y)' = PixelsOf(y)
    BY Framed DEF ViewStep
  <2>2. CountedOf(y)' = PixelsOf(y) \cap (Past(Uncounted) \cup {q})
    BY <1>3, <2>1 DEF CountedOf
  <2> HIDE DEF q
  <2>3. CASE y = Y(t)
    BY <1>4, <2>2, <2>3 DEF CountedOf
  <2>4. CASE y # Y(t)
    BY <1>4, <2>2, <2>4 DEF CountedOf
  <2> QED
    BY <2>3, <2>4
<1>6. /\ sl_left[Y(t)] - 1 \in Nat /\ sl_left[Y(t)] \in Nat
      /\ sl_left[Y(t)] - 1 = Width - Cardinality(CountedOf(Y(t)) \cup {q})
  BY <1>4, LeftFacts
<1>7. \A y \in Lines : sl_left'[y] = IF y = Y(t) THEN sl_left[Y(t)] - 1 ELSE sl_left[y]
  BY DEF LInv, LineTypes
<1>8. Width' = Width /\ Lines' = Lines
  BY Framed DEF ViewStep
<1> HIDE DEF q
<1>9. Counts'
  <2> SUFFICES ASSUME NEW y \in Lines
               PROVE  sl_left'[y] = Width - Cardinality(CountedOf(y)')
    BY <1>8 DEF Counts
  <2>1. CASE y = Y(t)
    BY <1>5, <1>6, <1>7, <2>1
  <2>2. CASE y # Y(t)
    BY <1>5, <1>7, <2>2 DEF LInv, Counts
  <2> QED
    BY <2>1, <2>2
<1>10. \A u \in Threads \ {t} : pc[u] \in {"eol", "free"} =>
         /\ Y(u) # Y(t) /\ sl_left[Y(u)] = 0 /\ Y(u) \in Lines
  BY <1>6, AtLine DEF LInv, Ends, Viewing
<1>11. next = "eol" => sl_left'[Y(t)] = 0 /\ Y(t)' = Y(t)
  BY <1>1, <1>4, <1>6, <1>7 DEF Viewing
<1>12. next # "free"
  OBVIOUS
<1>13. Ends'
  <2> SUFFICES ASSUME NEW u \in Threads, pc'[u] \in {"eol", "free"}
               PROVE  /\ sl_left'[Y(u)'] = 0
                      /\ \A v \in Threads \ {u} :
                           pc'[v] \in {"eol", "free"} => Y(v)' # Y(u)'
    BY DEF Ends
  <2>1. CASE u = t
    BY <1>1, <1>10, <1>11, <1>12, <2>1
  <2>2. CASE u # t
    <3>1. pc[u] \in {"eol", "free"} /\ Y(u)' = Y(u)
      BY <1>1, <2>2
    <3>2. sl_left'[Y(u)'] = 0
      BY <1>7, <1>10, <2>2, <3>1
    <3>3. ASSUME NEW v \in Threads \ {u}, pc'[v] \in {"eol", "free"}
          PROVE  Y(v)' # Y(u)'
      <4>1. CASE v = t
        BY <1>1, <1>10, <1>11, <1>12, <2>2, <3>1, <3>3, <4>1
      <4>2. CASE v # t
        BY <1>1, <3>1, <3>3, <4>2 DEF LInv, Ends
      <4> QED
        BY <4>1, <4>2
    <3> QED
      BY <3>2, <3>3
  <2> QED
    BY <2>1, <2>2
<1>14. \A y \in Lines : Unwritten(y)' <=> Unwritten(y)
  <2> SUFFICES ASSUME NEW y \in Lines PROVE Unwritten(y)' <=> Unwritten(y)
    OBVIOUS
  <2>1. pc[t] # "eol"
    BY DEF Uncounted, Unstored
  <2>2. CASE y = Y(t)
    <3>1. Unwritten(y)
      BY <1>6, <2>2 DEF Unwritten
    <3>2. Unwritten(y)'
      BY <1>1, <1>6, <1>7, <1>11, <2>2 DEF Unwritten
    <3> QED
      BY <3>1, <3>2
  <2>3. CASE y # Y(t)
    <3>1. sl_left'[y] = sl_left[y]
      BY <1>7, <2>3
    <3>2. \A u \in Threads : pc'[u] = "eol" /\ Y(u)' = y <=> pc[u] = "eol" /\ Y(u) = y
      BY <1>1, <1>11, <2>1, <2>3
    <3> QED
      BY <3>1, <3>2 DEF Unwritten
  <2> QED
    BY <2>2, <2>3
<1> QED
  BY <1>9, <1>13, <1>14

LEMMA OthersFresh ==
    ASSUME IInv, LInv, NEW t \in Threads, NEW next, ViewStep(t, next),
           \A y \in Lines : y # Y(t) =>
               sl_left'[y] = sl_left[y] /\ sl_buf'[y] = sl_buf[y],
           \A u \in Threads \ {t} : count'[u] = count[u]
    PROVE  \A u \in Threads \ {t} : Fresh(u)'
<1> SUFFICES ASSUME NEW u \in Threads \ {t} PROVE Fresh(u)'
  OBVIOUS
<1>1. pc'[u] = pc[u] /\ Y(u)' = Y(u)
  BY ViewFacts
<1>2. CASE pc[u] \in {"write_left", "alloc"}
  <2>1. ByLines /\ pc[u] \in Viewing /\ Aligned
    BY <1>2 DEF LInv, Stages, ByLines, Viewing
  <2>2. Y(u) # Y(t) /\ Y(u) \in Lines
    BY <2>1, NeverTogether, AtLine DEF ViewStep
  <2> QED
    BY <1>1, <2>2 DEF Fresh, LInv
<1>3. CASE pc[u] \notin {"write_left", "alloc"}
  BY <1>1, <1>3 DEF Fresh
<1> QED
  BY <1>2, <1>3

(* A step that stores a pixel in the buffer of its line.                   *)
LEMMA Storing ==
    ASSUME IInv, LInv, Buffered, NEW t \in Threads, NEW next, ViewStep(t, next),
           pc[t] \in Unstored, next \notin Unstored,
           sl_buf' = [sl_buf EXCEPT ![Y(t)] = Stored(t)],
           \A y \in Lines : Unwritten(y)' <=> Unwritten(y)
    PROVE  Buffers' /\ sl_buf' \in [Lines -> (SUBSET Pixels) \cup {NoBuf}]
<1> DEFINE q == pixelnum[t]
<1>1. /\ Y(t) \in Lines /\ q \in PixelsOf(Y(t)) /\ q \in Pixels /\ q \in Nat
      /\ \A y \in Lines : y # Y(t) => q \notin PixelsOf(y)
  BY AtLine, TypesFacts DEF ViewStep, IInv
<1>2. Past(Unstored)' = Past(Unstored) \cup {q}
  <2>1. Unstored \in SUBSET Viewing
    BY DEF Unstored, Viewing
  <2> QED
    BY <2>1, PastStep DEF ViewStep, LInv
<1>3. Lines' = Lines /\ \A y : PixelsOf(y)' = PixelsOf(y)
  BY Framed DEF ViewStep
<1>4. \A y \in Lines : sl_buf'[y] = IF y = Y(t) THEN (sl_buf[y] \ NoBuf) \cup {q}
                                   ELSE sl_buf[y]
  BY DEF LInv, LineTypes, Stored
<1>5. q \notin NoBuf
  BY <1>1 DEF NoBuf
<1>6. Unwritten(Y(t))
  <2>1. sl_left[Y(t)] # 0
    BY <1>1, AtLine, LeftFacts DEF ViewStep, Uncounted
  <2> QED
    BY <2>1 DEF Unwritten
<1> HIDE DEF q
<1>7. Buffers'
  <2> SUFFICES ASSUME NEW y \in Lines, Unwritten(y)
               PROVE  sl_buf'[y] \ NoBuf = PixelsOf(y) \cap (Past(Unstored) \cup {q})
    BY <1>2, <1>3 DEF Buffers, StoredOf, NoBuf
  <2>1. sl_buf[y] \ NoBuf = PixelsOf(y) \cap Past(Unstored)
    BY DEF LInv, Buffers, StoredOf
  <2>2. CASE y = Y(t)
    <3>1. sl_buf'[y] = (PixelsOf(y) \cap Past(Unstored)) \cup {q}
      BY <1>4, <2>1, <2>2
    <3>2. q \in PixelsOf(y)
      BY <1>1, <2>2
    <3>4. \A x \in NoBuf : x \notin sl_buf'[y]
      <4>1. sl_buf'[y] = (sl_buf[y] \ NoBuf) \cup {q}
        BY <1>4, <2>2
      <4> QED
        BY <1>5, <4>1
    <3>3. sl_buf'[y] \ NoBuf = sl_buf'[y]
      BY <3>4
    <3> QED
      BY <3>1, <3>2, <3>3
  <2>3. CASE y # Y(t)
    BY <1>1, <1>4, <2>1, <2>3
  <2> QED
    BY <2>2, <2>3
<1>8. (sl_buf[Y(t)] \ NoBuf) \cup {q} \in SUBSET Pixels
  <2>1. sl_buf[Y(t)] \in (SUBSET Pixels) \cup {NoBuf}
    BY <1>1 DEF LInv, LineTypes
  <2>2. sl_buf[Y(t)] \ NoBuf \subseteq Pixels
    BY <2>1
  <2> QED
    BY <1>1, <2>2
<1>9. sl_buf' \in [Lines -> (SUBSET Pixels) \cup {NoBuf}]
  BY <1>1, <1>8 DEF LInv, LineTypes, Stored, q
<1> QED
  BY <1>7, <1>9

LEMMA NotStoring ==
    ASSUME IInv, LInv, NEW t \in Threads, NEW next, ViewStep(t, next),
           pc[t] \in Unstored <=> next \in Unstored,
           \A y \in Lines : Unwritten(y)' =>
               Unwritten(y) /\ sl_buf'[y] \ NoBuf = sl_buf[y] \ NoBuf
    PROVE  Buffers'
<1>1. Unstored \in SUBSET Viewing
  BY DEF Unstored, Viewing
<1>2. Past(Unstored)' = Past(Unstored)
  BY <1>1, PastStep DEF ViewStep, LInv
<1>3. Lines' = Lines /\ (Buffered' <=> Buffered) /\ \A y : PixelsOf(y)' = PixelsOf(y)
  BY Framed DEF ViewStep
<1> QED
  BY <1>2, <1>3 DEF Buffers, LInv, StoredOf, NoBuf

(* The image does not change while no line is written.                     *)
LEMMA SameImage ==
    ASSUME LInv, Buffered, NEW t \in Threads, NEW next, ViewStep(t, next),
           image' = image, \A y \in Lines : Unwritten(y)' <=> Unwritten(y)
    PROVE  Images'
<1>1. /\ Lines' = Lines /\ (Buffered' <=> Buffered)
      /\ \A y : PixelsOf(y)' = PixelsOf(y)
  BY Framed DEF ViewStep
<1>2. {z \in Lines : ~Unwritten(z)}' = {z \in Lines : ~Unwritten(z)}
  BY <1>1
<1> QED
  BY <1>1, <1>2 DEF Images, LInv

-----------------------------------------------------------------------------
(* The steps of view_pixel.                                                *)

LEMMA DirectStep == ASSUME IInv, LInv, NEW t \in Threads, Direct(t) PROVE LInv'
<1>1. /\ ViewStep(t, "pixel") /\ pc[t] = "view" /\ ~Buffered
      /\ image' = image \cup {pixelnum[t]} /\ UNCHANGED lines
  BY DEF Direct, ViewStep, At, Advance, Viewing, Buffered, rest, fixed, sharing,
         IInv, Types
<1>2. /\ pc'[t] = "pixel" /\ Aligned'
      /\ \A u \in Threads \ {t} : pc'[u] = pc[u] /\ Stages(u)'
  BY <1>1, ViewFacts
<1>3. /\ Lines' = Lines /\ Pixels' = Pixels /\ BufMode' = BufMode
      /\ (Buffered' <=> Buffered)
  BY <1>1, Framed DEF ViewStep
<1>4. /\ \A u \in Threads : Stages(u)'
      /\ \A u \in Threads : pc'[u] \in Viewing => pc'[u] = "view"
  BY <1>1, <1>2, <1>3 DEF Stages, Viewing
<1>5. LineTypes'
  <2>1. pixelnum[t] \in Pixels
    BY <1>1, AtLine DEF ViewStep
  <2> QED
    BY <1>1, <1>3, <2>1 DEF LInv, LineTypes, lines, ViewStep
<1>6. (\A u \in Threads : Fresh(u))' /\ Ends'
  BY <1>4 DEF Fresh, Ends, Viewing
<1>7. Counts' /\ Buffers'
  BY <1>1, <1>3 DEF Counts, Buffers
<1>8. Images'
  <2> DEFINE S == {"view"}
  <2>1. S \in SUBSET Viewing /\ pc[t] \in S /\ "pixel" \notin S
    BY <1>1 DEF Viewing
  <2> HIDE DEF S
  <2>2. Past(S)' = Past(S) \cup {pixelnum[t]}
    BY <1>1, <2>1, PastStep DEF ViewStep, LInv
  <2> QED
    BY <1>1, <1>3, <2>2 DEF LInv, Images, S
<1> QED
  BY <1>2, <1>4, <1>5, <1>6, <1>7, <1>8 DEF LInv

LEMMA DynamicStep == ASSUME IInv, LInv, NEW t \in Threads, Dynamic(t) PROVE LInv'
<1> DEFINE next == IF sl_left[Y(t)] - 1 <= 0 THEN "eol" ELSE "pixel"
<1>1. /\ ViewStep(t, next) /\ pc[t] = "view" /\ buf_mode = "DYNAMIC"
      /\ sl_buf' = [sl_buf EXCEPT ![Y(t)] = Stored(t)]
      /\ sl_left' = [sl_left EXCEPT ![Y(t)] = @ - 1]
      /\ count' = count /\ image' = image
  BY DEF Dynamic, ViewStep, At, Advance, Stay, Viewing, rest, fixed, sharing, IInv,
         Types
<1>2. next \notin Uncounted /\ pc[t] \in Unstored /\ pc[t] \in Uncounted
      /\ Buffered
  BY <1>1 DEF Uncounted, Unstored, Buffered
<1>3. Counts' /\ Ends' /\ \A y \in Lines : Unwritten(y)' <=> Unwritten(y)
  BY <1>1, <1>2, Counting
<1>4. Buffers' /\ sl_buf' \in [Lines -> (SUBSET Pixels) \cup {NoBuf}]
  BY <1>1, <1>2, <1>3, Storing DEF Uncounted
<1>5. Images'
  BY <1>1, <1>2, <1>3, SameImage
<1>6. /\ Lines' = Lines /\ Pixels' = Pixels /\ BufMode' = BufMode
      /\ (Buffered' <=> Buffered)
  BY <1>1, Framed DEF ViewStep
<1>7. LineTypes'
  BY <1>1, <1>4, <1>6 DEF LInv, LineTypes, ViewStep
<1>8. \A u \in Threads \ {t} : Fresh(u)' /\ Stages(u)'
  BY <1>1, OthersFresh, ViewFacts DEF LInv, LineTypes
<1>9. Fresh(t)' /\ Stages(t)' /\ Aligned'
  <2>1. pc'[t] = next /\ Aligned'
    BY <1>1, ViewFacts
  <2> QED
    BY <1>1, <1>2, <1>6, <2>1 DEF Fresh, Stages, LInv, ViewStep, Viewing
<1> QED
  BY <1>3, <1>4, <1>5, <1>7, <1>8, <1>9 DEF LInv

(* The steps that store a pixel and leave the count to a later one.        *)
LEMMA StoreStep ==
    ASSUME IInv, LInv, NEW t \in Threads, Accumulate(t) \/ Paint(t) PROVE LInv'
<1>1. /\ ViewStep(t, "read_left") /\ pc[t] \in {"view", "paint"}
      /\ buf_mode \in {"SCANLINE", "ACC"}
      /\ sl_buf' = [sl_buf EXCEPT ![Y(t)] = Stored(t)]
      /\ sl_left' = sl_left /\ count' = count /\ image' = image
  BY DEF Accumulate, Paint, ViewStep, At, Stay, Viewing, rest, fixed, sharing, LInv,
         Stages
<1>2. /\ "read_left" \in Uncounted /\ "read_left" \notin Unstored
      /\ pc[t] \in Unstored /\ pc[t] \in Uncounted /\ Buffered
  BY <1>1 DEF Uncounted, Unstored, Buffered
<1>3. Counts' /\ Ends' /\ \A y \in Lines : Unwritten(y)' <=> Unwritten(y)
  BY <1>1, <1>2, NotCounting
<1>4. Buffers' /\ sl_buf' \in [Lines -> (SUBSET Pixels) \cup {NoBuf}]
  BY <1>1, <1>2, <1>3, Storing
<1>5. Images'
  BY <1>1, <1>2, <1>3, SameImage
<1>6. /\ Lines' = Lines /\ Pixels' = Pixels /\ BufMode' = BufMode
      /\ (Buffered' <=> Buffered)
  BY <1>1, Framed DEF ViewStep
<1>7. LineTypes'
  BY <1>1, <1>4, <1>6 DEF LInv, LineTypes, ViewStep
<1>8. \A u \in Threads \ {t} : Fresh(u)' /\ Stages(u)'
  BY <1>1, OthersFresh, ViewFacts DEF LInv, LineTypes
<1>9. Fresh(t)' /\ Stages(t)' /\ Aligned'
  <2>1. pc'[t] = "read_left" /\ Aligned'
    BY <1>1, ViewFacts
  <2> QED
    BY <1>1, <1>2, <1>6, <2>1 DEF Fresh, Stages, LInv, ViewStep, Viewing
<1> QED
  BY <1>3, <1>4, <1>5, <1>7, <1>8, <1>9 DEF LInv

LEMMA LookStep ==
    ASSUME IInv, LInv, NEW t \in Threads, LookForBuffer(t) PROVE LInv'
<1> DEFINE next == IF sl_buf[Y(t)] = NoBuf THEN "alloc" ELSE "paint"
<1>1. /\ ViewStep(t, next) /\ pc[t] = "view" /\ buf_mode = "SCANLINE"
      /\ UNCHANGED <<sl_buf, sl_left, count, image>>
  BY DEF LookForBuffer, ViewStep, At, Stay, Viewing, rest, fixed, sharing, lines
<1>2. /\ next \in Uncounted /\ next \in Unstored
      /\ pc[t] \in Unstored /\ pc[t] \in Uncounted /\ Buffered
  BY <1>1 DEF Uncounted, Unstored, Buffered
<1>3. Counts' /\ Ends' /\ \A y \in Lines : Unwritten(y)' <=> Unwritten(y)
  BY <1>1, <1>2, NotCounting
<1>4. Buffers'
  BY <1>1, <1>2, <1>3, NotStoring
<1>5. Images'
  BY <1>1, <1>2, <1>3, SameImage
<1>6. /\ Lines' = Lines /\ Pixels' = Pixels /\ BufMode' = BufMode
      /\ (Buffered' <=> Buffered)
  BY <1>1, Framed DEF ViewStep
<1>7. LineTypes'
  BY <1>1, <1>6 DEF LInv, LineTypes, ViewStep
<1>8. \A u \in Threads \ {t} : Fresh(u)' /\ Stages(u)'
  BY <1>1, OthersFresh, ViewFacts DEF LInv, LineTypes
<1>9. Fresh(t)' /\ Stages(t)' /\ Aligned'
  <2>1. pc'[t] = next /\ Aligned' /\ Y(t)' = Y(t)
    BY <1>1, ViewFacts DEF Viewing
  <2> QED
    BY <1>1, <1>2, <1>6, <2>1 DEF Fresh, Stages, LInv, ViewStep, Viewing
<1> QED
  BY <1>3, <1>4, <1>5, <1>7, <1>8, <1>9 DEF LInv

LEMMA AllocateStep ==
    ASSUME IInv, LInv, NEW t \in Threads, Allocate(t) PROVE LInv'
<1>1. /\ ViewStep(t, "paint") /\ pc[t] = "alloc"
      /\ sl_buf' = [sl_buf EXCEPT ![Y(t)] = {}]
      /\ UNCHANGED <<sl_left, count, image>>
  BY DEF Allocate, ViewStep, At, Stay, Viewing, rest, fixed, sharing
<1>2. /\ "paint" \in Uncounted /\ "paint" \in Unstored
      /\ pc[t] \in Unstored /\ pc[t] \in Uncounted
      /\ Buffered /\ buf_mode = "SCANLINE"
  BY <1>1 DEF Uncounted, Unstored, Buffered, LInv, Stages
<1>3. Counts' /\ Ends' /\ \A y \in Lines : Unwritten(y)' <=> Unwritten(y)
  BY <1>1, <1>2, NotCounting
<1>4. Buffers' /\ sl_buf' \in [Lines -> (SUBSET Pixels) \cup {NoBuf}]
  <2>1. sl_buf[Y(t)] = NoBuf /\ Y(t) \in Lines
    BY <1>1, AtLine DEF LInv, Fresh, Viewing
  <2>2. \A y \in Lines : sl_buf'[y] = IF y = Y(t) THEN {} ELSE sl_buf[y]
    BY <1>1 DEF LInv, LineTypes
  <2>3. \A y \in Lines : sl_buf'[y] \ NoBuf = sl_buf[y] \ NoBuf
    BY <2>1, <2>2
  <2>4. Buffers'
    BY <1>1, <1>2, <1>3, <2>3, NotStoring
  <2> QED
    BY <1>1, <2>4 DEF LInv, LineTypes
<1>5. Images'
  BY <1>1, <1>2, <1>3, SameImage
<1>6. /\ Lines' = Lines /\ Pixels' = Pixels /\ BufMode' = BufMode
      /\ (Buffered' <=> Buffered)
  BY <1>1, Framed DEF ViewStep
<1>7. LineTypes'
  BY <1>1, <1>4, <1>6 DEF LInv, LineTypes, ViewStep
<1>8. \A u \in Threads \ {t} : Fresh(u)' /\ Stages(u)'
  BY <1>1, OthersFresh, ViewFacts DEF LInv, LineTypes
<1>9. Fresh(t)' /\ Stages(t)' /\ Aligned'
  <2>1. pc'[t] = "paint" /\ Aligned'
    BY <1>1, ViewFacts
  <2> QED
    BY <1>1, <1>2, <1>6, <2>1 DEF Fresh, Stages, LInv, ViewStep, Viewing
<1> QED
  BY <1>3, <1>4, <1>5, <1>7, <1>8, <1>9 DEF LInv

LEMMA ReadLeftStep ==
    ASSUME IInv, LInv, NEW t \in Threads, ReadLeft(t) PROVE LInv'
<1>1. /\ ViewStep(t, "write_left") /\ pc[t] = "read_left"
      /\ count' = [count EXCEPT ![t] = sl_left[Y(t)]]
      /\ UNCHANGED <<sl_left, sl_buf, image>>
  BY DEF ReadLeft, ViewStep, At, Stay, Viewing, rest, fixed, sharing
<1>2. /\ "write_left" \in Uncounted /\ "write_left" \notin Unstored
      /\ pc[t] \notin Unstored /\ pc[t] \in Uncounted
      /\ Buffered /\ buf_mode \in {"SCANLINE", "ACC"}
  BY <1>1 DEF Uncounted, Unstored, Buffered, LInv, Stages
<1>3. Counts' /\ Ends' /\ \A y \in Lines : Unwritten(y)' <=> Unwritten(y)
  BY <1>1, <1>2, NotCounting
<1>4. Buffers'
  BY <1>1, <1>2, <1>3, NotStoring
<1>5. Images'
  BY <1>1, <1>2, <1>3, SameImage
<1>6. /\ Lines' = Lines /\ Pixels' = Pixels /\ BufMode' = BufMode
      /\ (Buffered' <=> Buffered)
  BY <1>1, Framed DEF ViewStep
<1>7. LineTypes' /\ count'[t] = sl_left[Y(t)]
  <2>1. Y(t) \in Lines
    BY <1>1, ViewFacts
  <2>2. sl_left[Y(t)] \in Int
    BY <2>1 DEF LInv, LineTypes
  <2> QED
    BY <1>1, <1>6, <2>2 DEF LInv, LineTypes, ViewStep
<1>8. \A u \in Threads \ {t} : Fresh(u)' /\ Stages(u)'
  <2>1. \A u \in Threads \ {t} : count'[u] = count[u]
    BY <1>1 DEF LInv, LineTypes
  <2> QED
    BY <1>1, <2>1, OthersFresh, ViewFacts
<1>9. Fresh(t)' /\ Stages(t)' /\ Aligned'
  <2>1. pc'[t] = "write_left" /\ Aligned' /\ Y(t)' = Y(t)
    BY <1>1, ViewFacts DEF Viewing
  <2> QED
    BY <1>1, <1>2, <1>6, <1>7, <2>1 DEF Fresh, Stages, LInv, ViewStep, Viewing
<1> QED
  BY <1>3, <1>4, <1>5, <1>7, <1>8, <1>9 DEF LInv

LEMMA WriteLeftStep ==
    ASSUME IInv, LInv, NEW t \in Threads, WriteLeft(t) PROVE LInv'
<1> DEFINE next == IF sl_left[Y(t)] - 1 <= 0 THEN "eol" ELSE "pixel"
<1>0. pc[t] = "write_left" /\ count[t] = sl_left[Y(t)]
  BY DEF WriteLeft, LInv, Fresh
<1>1. /\ ViewStep(t, next)
      /\ sl_left' = [sl_left EXCEPT ![Y(t)] = @ - 1]
      /\ UNCHANGED <<sl_buf, count, image>>
  BY <1>0 DEF WriteLeft, ViewStep, At, Advance, Stay, Viewing, rest, fixed, sharing,
              IInv, Types, LInv, LineTypes
<1>2. /\ next \notin Uncounted /\ next \notin Unstored
      /\ pc[t] \notin Unstored /\ pc[t] \in Uncounted /\ Buffered
  BY <1>0 DEF Uncounted, Unstored, Buffered, LInv, Stages
<1>3. Counts' /\ Ends' /\ \A y \in Lines : Unwritten(y)' <=> Unwritten(y)
  BY <1>1, <1>2, Counting
<1>4. Buffers'
  BY <1>1, <1>2, <1>3, NotStoring
<1>5. Images'
  BY <1>1, <1>2, <1>3, SameImage
<1>6. /\ Lines' = Lines /\ Pixels' = Pixels /\ BufMode' = BufMode
      /\ (Buffered' <=> Buffered)
  BY <1>1, Framed DEF ViewStep
<1>7. LineTypes'
  <2>1. Y(t) \in Lines
    BY <1>1, ViewFacts
  <2>2. sl_left[Y(t)] - 1 \in Int
    BY <2>1 DEF LInv, LineTypes
  <2>3. sl_left' \in [Lines -> Int]
    BY <1>1, <2>2 DEF LInv, LineTypes
  <2> QED
    BY <1>1, <1>6, <2>3 DEF LInv, LineTypes, ViewStep
<1>8. \A u \in Threads \ {t} : Fresh(u)' /\ Stages(u)'
  BY <1>1, OthersFresh, ViewFacts DEF LInv, LineTypes
<1>9. Fresh(t)' /\ Stages(t)' /\ Aligned'
  <2>1. pc'[t] = next /\ Aligned'
    BY <1>1, ViewFacts
  <2> QED
    BY <1>0, <1>1, <1>2, <1>6, <2>1 DEF Fresh, Stages, LInv, ViewStep, Viewing
<1> QED
  BY <1>3, <1>4, <1>5, <1>7, <1>8, <1>9 DEF LInv

(* The line that is written is full, and its buffer holds all of it.       *)
LEMMA WriteLineStep ==
    ASSUME IInv, LInv, NEW t \in Threads, WriteLine(t) PROVE LInv'
<1> DEFINE l == Y(t)
<1>1. /\ ViewStep(t, "free") /\ pc[t] = "eol"
      /\ image' = (image \ PixelsOf(l)) \cup (sl_buf[l] \ NoBuf)
      /\ UNCHANGED <<sl_left, sl_buf, count>>
  BY DEF WriteLine, ViewStep, At, Stay, Viewing, rest, fixed, sharing, lines
<1>2. /\ pc[t] \notin Uncounted /\ "free" \notin Uncounted
      /\ pc[t] \notin Unstored /\ "free" \notin Unstored
      /\ Uncounted \in SUBSET Viewing /\ Buffered
  BY <1>1 DEF Uncounted, Unstored, Viewing, LInv, Stages
<1>3. /\ l \in Lines /\ Y(t)' = l /\ Aligned'
      /\ \A u \in Threads : pc'[u] = IF u = t THEN "free" ELSE pc[u]
      /\ \A u \in Threads : Y(u)' = Y(u)
      /\ \A u \in Threads \ {t} : Stages(u)'
  BY <1>1, ViewFacts DEF Viewing
<1>4. /\ Width' = Width /\ Lines' = Lines /\ Pixels' = Pixels /\ BufMode' = BufMode
      /\ (Buffered' <=> Buffered) /\ \A y : PixelsOf(y)' = PixelsOf(y)
  BY <1>1, Framed DEF ViewStep
<1>5. /\ sl_left[l] = 0
      /\ \A u \in Threads \ {t} : pc[u] \in {"eol", "free"} => Y(u) # l
  BY <1>1 DEF LInv, Ends
<1>6. \A y \in Lines : Unwritten(y)' <=> Unwritten(y) /\ y # l
  <2> SUFFICES ASSUME NEW y \in Lines
               PROVE  Unwritten(y)' <=> Unwritten(y) /\ y # l
    OBVIOUS
  <2>1. \A u \in Threads : pc'[u] = "eol" /\ Y(u)' = y
                             <=> pc[u] = "eol" /\ Y(u) = y /\ y # l
    BY <1>1, <1>3, <1>5
  <2> HIDE DEF l
  <2> QED
    BY <1>1, <1>5, <2>1 DEF Unwritten
<1>7. Counts'
  <2>1. Past(Uncounted)' = Past(Uncounted)
    BY <1>1, <1>2, PastStep DEF ViewStep, LInv
  <2> QED
    BY <1>1, <1>4, <2>1 DEF Counts, LInv, CountedOf
<1>8. Ends'
  BY <1>1, <1>3 DEF Ends, LInv
<1>9. Buffers'
  BY <1>1, <1>2, <1>6, NotStoring
<1>10. sl_buf[l] \ NoBuf = PixelsOf(l)
  <2>1. Unwritten(l)
    BY <1>1, <1>3 DEF Unwritten
  <2>2. sl_buf[l] \ NoBuf = StoredOf(l)
    BY <1>2, <1>3, <2>1 DEF LInv, Buffers
  <2>3. CountedOf(l) = PixelsOf(l)
    BY <1>2, <1>3, <1>5, LeftFacts
  <2>4. Past(Uncounted) \subseteq Past(Unstored)
    BY DEF Past, Uncounted
  <2> HIDE DEF l
  <2> QED
    BY <2>2, <2>3, <2>4 DEF CountedOf, StoredOf
<1> HIDE DEF l
<1>11. image' = image \cup PixelsOf(l) /\ PixelsOf(l) \subseteq Pixels
  BY <1>1, <1>10 DEF PixelsOf
<1>12. Images'
  <2>1. {z \in Lines : ~Unwritten(z)}' = {z \in Lines : ~Unwritten(z)} \cup {l}
    BY <1>3, <1>4, <1>6
  <2>2. image = UNION {PixelsOf(y) : y \in {z \in Lines : ~Unwritten(z)}}
    BY <1>2 DEF LInv, Images
  <2>3. image' = UNION {PixelsOf(y) : y \in {z \in Lines : ~Unwritten(z)} \cup {l}}
    BY <1>11, <2>2
  <2> QED
    BY <1>2, <1>4, <2>1, <2>3 DEF Images
<1>13. LineTypes'
  BY <1>1, <1>4, <1>11 DEF LInv, LineTypes, ViewStep
<1>14. \A u \in Threads \ {t} : Fresh(u)'
  BY <1>1, OthersFresh
<1>15. Fresh(t)' /\ Stages(t)'
  BY <1>1, <1>2, <1>3, <1>4 DEF Fresh, Stages, LInv, ViewStep, Viewing
<1> QED
  BY <1>3, <1>7, <1>8, <1>9, <1>12, <1>13, <1>14, <1>15 DEF LInv

LEMMA FreeLineStep ==
    ASSUME IInv, LInv, NEW t \in Threads, FreeLine(t) PROVE LInv'
<1> DEFINE l == Y(t)
<1>1. /\ ViewStep(t, "pixel") /\ pc[t] = "free"
      /\ sl_buf' = [sl_buf EXCEPT ![l] = NoBuf]
      /\ UNCHANGED <<sl_left, count, image>>
  BY DEF FreeLine, ViewStep, At, Advance, Viewing, rest, fixed, sharing, IInv, Types
<1>2. /\ pc[t] \notin Uncounted /\ "pixel" \notin Uncounted
      /\ pc[t] \notin Unstored /\ "pixel" \notin Unstored
      /\ Uncounted \in SUBSET Viewing /\ Buffered
  BY <1>1 DEF Uncounted, Unstored, Viewing, LInv, Stages
<1>3. /\ l \in Lines /\ Aligned'
      /\ \A u \in Threads : pc'[u] = IF u = t THEN "pixel" ELSE pc[u]
      /\ \A u \in Threads \ {t} : Stages(u)' /\ Y(u)' = Y(u)
  BY <1>1, ViewFacts
<1>4. /\ Width' = Width /\ Lines' = Lines /\ Pixels' = Pixels /\ BufMode' = BufMode
      /\ (Buffered' <=> Buffered) /\ \A y : PixelsOf(y)' = PixelsOf(y)
  BY <1>1, Framed DEF ViewStep
<1>5. /\ sl_left[l] = 0
      /\ \A u \in Threads \ {t} : pc[u] \in {"eol", "free"} => Y(u) # l
  BY <1>1 DEF LInv, Ends
<1>6. \A y \in Lines : /\ Unwritten(y)' <=> Unwritten(y)
                       /\ Unwritten(y) => y # l
  <2>1. \A u \in Threads : pc'[u] = "eol" <=> pc[u] = "eol"
    BY <1>1, <1>3
  <2>2. \A u \in Threads : pc[u] = "eol" => Y(u)' = Y(u) /\ Y(u) # l
    BY <1>1, <1>3, <1>5
  <2> QED
    BY <1>1, <1>5, <2>1, <2>2 DEF Unwritten
<1>7. Counts'
  <2>1. Past(Uncounted)' = Past(Uncounted)
    BY <1>1, <1>2, PastStep DEF ViewStep, LInv
  <2> QED
    BY <1>1, <1>4, <2>1 DEF Counts, LInv, CountedOf
<1>8. Ends'
  BY <1>1, <1>3 DEF Ends, LInv
<1>9. \A y \in Lines : sl_buf'[y] = IF y = l THEN NoBuf ELSE sl_buf[y]
  BY <1>1 DEF LInv, LineTypes
<1>10. Buffers'
  BY <1>1, <1>2, <1>6, <1>9, NotStoring
<1>11. Images'
  BY <1>1, <1>2, <1>6, SameImage
<1>12. LineTypes'
  BY <1>1, <1>4 DEF LInv, LineTypes, ViewStep
<1>13. \A u \in Threads \ {t} : Fresh(u)'
  BY <1>1, <1>9, OthersFresh
<1>14. Fresh(t)' /\ Stages(t)'
  BY <1>3 DEF Fresh, Stages, Viewing
<1> QED
  BY <1>3, <1>7, <1>8, <1>10, <1>11, <1>12, <1>13, <1>14 DEF LInv

(* A step that is not of view_pixel: no pixel leaves a stage, and what the *)
(* lines have does not change.                                             *)
LEMMA LinesRest ==
    ASSUME IInv, LInv, Aligned',
           UNCHANGED <<setup, run, buf_mode, sl_left, sl_buf, count, image>>,
           \A S \in {Unstored, Uncounted, {"view"}} : Past(S)' = Past(S),
           \A p \in Pixels : computed[p] # 0 => computed'[p] # 0,
           \A u \in Threads : pc'[u] \in Viewing =>
               \/ pc'[u] = pc[u] /\ pixelnum'[u] = pixelnum[u]
               \/ /\ pc'[u] = "view" /\ pixelnum'[u] \in Pixels
                  /\ computed'[pixelnum'[u]] # 0,
           \A u \in Threads : pc[u] \in Viewing \ {"view"} =>
               pc'[u] = pc[u] /\ pixelnum'[u] = pixelnum[u]
    PROVE  LInv'
<1>1. /\ Width' = Width /\ Lines' = Lines /\ Pixels' = Pixels /\ BufMode' = BufMode
      /\ (Buffered' <=> Buffered) /\ \A y : PixelsOf(y)' = PixelsOf(y)
  BY Framed
<1>2. \A u \in Threads : Y(u)' = Line(pixelnum'[u])
  BY <1>1 DEF Y, Line
<1>3. \A u \in Threads : \A s \in Viewing \ {"view"} :
        pc'[u] = s <=> pc[u] = s
  BY DEF Viewing
<1>4. \A u \in Threads : pc[u] \in Viewing \ {"view"} => Y(u)' = Y(u)
  BY <1>2 DEF Y
<1>5. LineTypes'
  BY <1>1 DEF LInv, LineTypes
<1>6. \A u \in Threads : Stages(u)'
  <2> SUFFICES ASSUME NEW u \in Threads PROVE Stages(u)'
    OBVIOUS
  <2>1. pc'[u] \in Viewing => pixelnum'[u] \in Pixels /\ computed'[pixelnum'[u]] # 0
    BY DEF LInv, Stages
  <2>2. pc'[u] \in Viewing \ {"view"} => pc'[u] = pc[u]
    OBVIOUS
  <2> QED
    BY <1>1, <2>1, <2>2 DEF LInv, Stages, Viewing
<1>7. \A u \in Threads : Fresh(u)'
  BY <1>3, <1>4 DEF LInv, Fresh, Viewing
<1>8. \A u \in Threads : pc'[u] \in {"eol", "free"} <=> pc[u] \in {"eol", "free"}
  BY <1>3 DEF Viewing
<1>9. \A u \in Threads : pc[u] \in {"eol", "free"} => Y(u)' = Y(u)
  BY <1>4 DEF Viewing
<1>10. Ends'
  BY <1>8, <1>9 DEF LInv, Ends
<1>11. \A y : Unwritten(y)' <=> Unwritten(y)
  <2>1. \A u \in Threads : pc'[u] = "eol" <=> pc[u] = "eol"
    BY <1>3 DEF Viewing
  <2> QED
    BY <1>9, <2>1 DEF Unwritten
<1>12. Counts'
  BY <1>1 DEF LInv, Counts, CountedOf
<1>13. Buffers'
  BY <1>1, <1>11 DEF LInv, Buffers, StoredOf, NoBuf
<1>14. Images'
  <2>1. {z \in Lines : ~Unwritten(z)}' = {z \in Lines : ~Unwritten(z)}
    BY <1>1, <1>11
  <2>2. Past({"view"})' = Past({"view"})
    OBVIOUS
  <2>3. CASE Buffered
    BY <1>1, <2>1, <2>3 DEF LInv, Images
  <2>4. CASE ~Buffered
    BY <1>1, <2>2, <2>4 DEF LInv, Images
  <2> QED
    BY <2>3, <2>4
<1> QED
  BY <1>5, <1>6, <1>7, <1>10, <1>12, <1>13, <1>14 DEF LInv

LEMMA LinesComputing ==
    ASSUME Sized, IInv, LInv, NEW t \in Threads, do_pixel(t) PROVE LInv'
<1>1. /\ pc[t] = "pixel" /\ pc' = [pc EXCEPT ![t] = "view"]
      /\ computed' = [computed EXCEPT ![pixelnum[t]] = @ + 1]
      /\ UNCHANGED <<setup, run, buf_mode, sl_left, sl_buf, count, image, pixelnum,
                     cur_pixel, last_pixel, per_processor_chunk, pixel_start>>
  BY DEF do_pixel, At, fixed, claims, lines, sharing
<1>2. \A u \in Threads : pc'[u] = IF u = t THEN "view" ELSE pc[u]
  BY <1>1 DEF IInv, Types
<1>3. Aligned'
  <2>1. \A u \in Threads : pc'[u] \in Holding => pc[u] \in Holding
    BY <1>1, <1>2 DEF Holding
  <2>2. (\A k : Multiple(k)' <=> Multiple(k)) /\ (ByLines' <=> ByLines)
    BY <1>1, Framed
  <2> QED
    BY <1>1, <2>1, <2>2 DEF Aligned, LInv
<1>4. \A S \in {Unstored, Uncounted, {"view"}} : Past(S)' = Past(S)
  BY PastComputing DEF Unstored, Uncounted
<1>5. pixelnum[t] \in Pixels /\ computed[pixelnum[t]] \in Nat
  <2>1. /\ run > 0 /\ pixelnum[t] \in Int
        /\ 0 <= pixelnum[t] /\ pixelnum[t] <= last_pixel
    BY NextPixel
  <2>2. run \in 1 .. Len(setup.runs) /\ setup \in Setups
    BY <2>1, SetupFacts DEF IInv, Types
  <2>3. last_pixel < Width * Height /\ last_pixel \in Nat
    BY <2>1, <2>2 DEF Sized, IInv, Running, Types, Width, Height
  <2>4. Width * Height \in Int
    BY LineFacts DEF IInv
  <2>5. pixelnum[t] \in Pixels
    BY <2>1, <2>3, <2>4 DEF Pixels
  <2> QED
    BY <2>5 DEF IInv, Types
<1>6. \A p \in Pixels : computed'[p] = IF p = pixelnum[t] THEN computed[p] + 1
                                       ELSE computed[p]
  BY <1>1 DEF IInv, Types
<1>7. /\ \A p \in Pixels : computed[p] # 0 => computed'[p] # 0
      /\ computed'[pixelnum[t]] # 0
  BY <1>5, <1>6
<1>8. \A u \in Threads : pc'[u] \in Viewing =>
         \/ pc'[u] = pc[u] /\ pixelnum'[u] = pixelnum[u]
         \/ /\ pc'[u] = "view" /\ pixelnum'[u] \in Pixels
            /\ computed'[pixelnum'[u]] # 0
  BY <1>1, <1>2, <1>5, <1>7
<1>9. \A u \in Threads : pc[u] \in Viewing \ {"view"} =>
         pc'[u] = pc[u] /\ pixelnum'[u] = pixelnum[u]
  BY <1>1, <1>2 DEF Viewing
<1> QED
  BY <1>1, <1>3, <1>4, <1>7, <1>8, <1>9, LinesRest

LEMMA LinesMoving ==
    ASSUME Sized, IInv, LInv, NEW t \in Threads, worker(t), ~view_pixel(t), ~do_pixel(t)
    PROVE  LInv'
<1>1. PICK next \in {"size", "store", "loop", "span", "pixel", "done"} :
        /\ pc' = [pc EXCEPT ![t] = next]
        /\ next = "span" => /\ pixel_start' = [pixel_start EXCEPT ![t] = cur_pixel]
                            /\ cur_pixel' = cur_pixel + per_processor_chunk
        /\ next # "span" => UNCHANGED <<cur_pixel, pixel_start>>
        /\ next = "pixel" => pc[t] = "span"
  BY DEF worker, TestChunk, SizeChunk, StoreChunk, TakeChunk, Span, ChunkDone,
         WorkerReturns, At, sharing, claims
<1>2. /\ pc[t] \notin Viewing
      /\ UNCHANGED <<setup, run, buf_mode, sl_left, sl_buf, count, image, computed,
                     last_pixel>>
  BY DEF worker, TestChunk, SizeChunk, StoreChunk, TakeChunk, Span, ChunkDone,
         WorkerReturns, At, sharing, fixed, lines, Viewing
<1>3. \A u \in Threads \ {t} : pixelnum'[u] = pixelnum[u]
  BY DEF worker, TestChunk, SizeChunk, StoreChunk, TakeChunk, Span, ChunkDone,
         WorkerReturns, claims, IInv, Types
<1>4. UNCHANGED per_processor_chunk
  <2>1. ~StoreChunk(t)
    BY DEF StoreChunk, At, IInv, Types
  <2> QED
    BY <2>1 DEF worker, TestChunk, SizeChunk, TakeChunk, Span, ChunkDone,
                WorkerReturns, sharing
<1>5. \A u \in Threads : pc'[u] = IF u = t THEN next ELSE pc[u]
  BY <1>1 DEF IInv, Types
<1>6. next \notin Viewing
  BY DEF Viewing
<1>7. Aligned'
  <2>1. (\A k : Multiple(k)' <=> Multiple(k)) /\ (ByLines' <=> ByLines)
    BY <1>2, Framed
  <2> SUFFICES ASSUME ByLines
               PROVE  /\ per_processor_chunk > 0 /\ Multiple(per_processor_chunk)
                      /\ Multiple(cur_pixel')
                      /\ setup.top_down => Multiple(last_pixel + 1)
                      /\ \A u \in Threads : pc'[u] \in Holding =>
                           Multiple(pixel_start'[u])
    BY <1>2, <1>4, <2>1 DEF Aligned
  <2>2. /\ per_processor_chunk > 0 /\ Multiple(per_processor_chunk)
        /\ Multiple(cur_pixel)
        /\ setup.top_down => Multiple(last_pixel + 1)
        /\ \A u \in Threads : pc[u] \in Holding => Multiple(pixel_start[u])
    BY DEF LInv, Aligned
  <2>3. CASE next = "span"
    <3>1. Multiple(cur_pixel + per_processor_chunk)
      BY <2>2, Multiples DEF IInv, Types
    <3>2. \A u \in Threads :
            pixel_start'[u] = IF u = t THEN cur_pixel ELSE pixel_start[u]
      BY <1>1, <2>3 DEF IInv, Types
    <3> QED
      BY <1>1, <1>5, <2>2, <2>3, <3>1, <3>2
  <2>4. CASE next # "span"
    <3>1. \A u \in Threads : pc'[u] \in Holding => pc[u] \in Holding
      BY <1>1, <1>5, <2>4 DEF Holding, Viewing
    <3> QED
      BY <1>1, <2>2, <2>4, <3>1
  <2> QED
    BY <2>3, <2>4
<1>8. \A S \in {Unstored, Uncounted, {"view"}} : Past(S)' = Past(S)
  <2> SUFFICES ASSUME NEW S \in {Unstored, Uncounted, {"view"}}
               PROVE  Past(S)' = Past(S)
    OBVIOUS
  <2>1. S \in SUBSET Viewing
    BY DEF Unstored, Uncounted, Viewing
  <2>2. next \notin S /\ pc[t] \notin S
    BY <1>2, <1>6, <2>1
  <2> QED
    BY <1>1, <1>2, <1>3, <2>1, <2>2, PastStep DEF LInv
<1>9. \A u \in Threads : pc'[u] \in Viewing =>
        pc'[u] = pc[u] /\ pixelnum'[u] = pixelnum[u]
  BY <1>3, <1>5, <1>6
<1>10. \A u \in Threads : pc[u] \in Viewing \ {"view"} =>
         pc'[u] = pc[u] /\ pixelnum'[u] = pixelnum[u]
  BY <1>2, <1>3, <1>5
<1> QED
  BY <1>2, <1>7, <1>8, <1>9, <1>10, LinesRest

(* Where a thread is to have lines to itself, its chunks are whole lines:  *)
(* runs begin at the first pixel of a line, in the order that they go, and *)
(* full_incr_mode has chunks of whole lines.  (In SCANLINE mode view_2init *)
(* sees to the chunk.)                                                     *)
WholeChunks ==
    \A s \in Setups : InScanlines(s) \/ s.program = "rt_full_incr" =>
        /\ s.program = "rt_full_incr" => \E m \in Nat : s.chunk = m * s.width
        /\ \A i \in 1 .. Len(s.runs) :
             /\ \E m \in Nat : s.runs[i][1] = m * s.width
             /\ s.top_down => \E m \in Nat : s.runs[i][2] + 1 = m * s.width

LEMMA LinesInitially == ASSUME Sized, Init PROVE LInv
<1>1. IInv
  BY Initially
<1>2. \A t \in Threads : pc[t] = "idle"
  BY DEF Init
<1>3. ~Buffered /\ ~ByLines
  BY DEF Init, Buffered, ByLines
<1>4. LineTypes
  BY LineFacts, <1>1 DEF Init, LineTypes, IInv, NoBuf
<1>5. \A t \in Threads : Stages(t) /\ Fresh(t)
  BY <1>2 DEF Stages, Fresh, Viewing
<1>6. Counts /\ Ends /\ Buffers /\ Aligned
  BY <1>2, <1>3 DEF Counts, Ends, Buffers, Aligned
<1>7. Images
  <2>1. Past({"view"}) = {} /\ image = {}
    BY DEF Init, Past
  <2> QED
    BY <1>3, <2>1 DEF Images
<1> QED
  BY <1>4, <1>5, <1>6, <1>7 DEF LInv

LEMMA LinesBegin ==
    ASSUME Sized, WholeChunks, IInv, IInv', LInv, do_run PROVE LInv'
<1>1. /\ setup' = setup /\ run' = run + 1 /\ run' \in 1 .. Len(setup.runs)
      /\ setup \in Setups /\ run' # 0
  BY SetupFacts DEF IInv, do_run, Types
<1>2. /\ buf_mode' = BufMode /\ BufMode' = BufMode
      /\ Width' = Width /\ Pixels' = Pixels /\ Lines' = Lines
      /\ \A y : PixelsOf(y)' = PixelsOf(y)
  BY <1>1 DEF do_run, BufMode, Width, Height, Pixels, Lines, PixelsOf, Line
<1>3. /\ sl_left' = [y \in Lines |-> Width] /\ sl_buf' = [y \in Lines |-> NoBuf]
      /\ image' = {} /\ count' = count /\ pc' = [t \in Threads |-> "test"]
      /\ computed' = [p \in Pixels |-> 0]
      /\ cur_pixel' = setup.runs[run'][1] /\ last_pixel' = setup.runs[run'][2]
  BY <1>1 DEF do_run
<1>4. \A t \in Threads : pc'[t] = "test"
  BY <1>3
<1>5. Width \in Nat \ {0}
  BY LineFacts DEF IInv
<1>6. LineTypes'
  BY <1>1, <1>2, <1>3, <1>5 DEF LInv, LineTypes, NoBuf
<1>7. (\A t \in Threads : Stages(t) /\ Fresh(t))' /\ Ends'
  BY <1>4 DEF Stages, Fresh, Ends, Viewing
<1>8. \A S : Past(S)' = {}
  BY <1>2, <1>3 DEF Past
<1>9. \A y \in Lines : CountedOf(y)' = {} /\ StoredOf(y)' = {}
  BY <1>8 DEF CountedOf, StoredOf
<1>10. Counts'
  <2> SUFFICES ASSUME NEW y \in Lines
               PROVE  sl_left'[y] = Width - Cardinality(CountedOf(y)')
    BY <1>2 DEF Counts
  <2>1. Cardinality(CountedOf(y)') = 0
    BY <1>9, FS_EmptySet
  <2> QED
    BY <1>3, <1>5, <2>1
<1>11. Buffers'
  BY <1>2, <1>3, <1>9 DEF Buffers, NoBuf
<1>12. Images'
  <2>1. {z \in Lines : ~Unwritten(z)}' = {}
    BY <1>2, <1>3, <1>5 DEF Unwritten
  <2>2. image' = UNION {PixelsOf(y)' : y \in {}}
    BY <1>3
  <2> QED
    BY <1>3, <1>8, <2>1, <2>2 DEF Images
<1>13. CASE ~ByLines'
  BY <1>6, <1>7, <1>10, <1>11, <1>12, <1>13 DEF LInv, Aligned
<1>14. CASE ByLines'
  <2> DEFINE Whole(k) == \E m \in Int : k = m * Width
  <2>1. BufMode \in {"SCANLINE", "ACC"}
    BY <1>2, <1>14 DEF ByLines
  <2>2. /\ BufMode = "SCANLINE" => InScanlines(setup)
        /\ BufMode = "ACC" => setup.program = "rt_full_incr"
    BY <1>1, SetupFacts DEF BufMode, InScanlines, Width, Height
  <2>3. /\ Whole(setup.runs[run'][1])
        /\ setup.top_down => Whole(setup.runs[run'][2] + 1)
        /\ BufMode = "ACC" => Whole(setup.chunk)
    BY <1>1, <2>1, <2>2 DEF WholeChunks, Width
  <2>4. per_processor_chunk' > 0
    BY <1>1 DEF IInv, Running
  <2>5. Whole(per_processor_chunk')
    <3>1. CASE BufMode = "SCANLINE"
      <4>1. per_processor_chunk' = Width /\ Width = 1 * Width
        BY <1>5, <3>1 DEF do_run
      <4> QED
        BY <4>1
    <3>2. CASE BufMode = "ACC"
      <4>1. per_processor_chunk' = per_processor_chunk
        BY <3>2 DEF do_run
      <4>2. CASE run = 0
        BY <2>3, <3>2, <4>1, <4>2 DEF IInv, Running
      <4>3. CASE run # 0
        <5>1. ByLines
          BY <3>2, <4>3 DEF LInv, LineTypes, ByLines
        <5> QED
          BY <4>1, <5>1 DEF LInv, Aligned, Multiple
      <4> QED
        BY <4>2, <4>3
    <3> QED
      BY <2>1, <3>1, <3>2
  <2>6. \A t \in Threads : pc'[t] \notin Holding
    BY <1>4 DEF Holding, Viewing
  <2>7. Aligned'
    BY <1>1, <1>2, <1>3, <2>3, <2>4, <2>5, <2>6 DEF Aligned, Multiple
  <2> QED
    BY <1>6, <1>7, <1>10, <1>11, <1>12, <2>7 DEF LInv
<1> QED
  BY <1>13, <1>14

LEMMA LinesStep ==
    ASSUME Sized, WholeChunks, IInv, IInv', LInv, [Next]_vars PROVE LInv'
<1>1. CASE do_run
  BY <1>1, LinesBegin
<1>2. ASSUME NEW t \in Threads, worker(t) PROVE LInv'
  <2>1. CASE view_pixel(t)
    BY <2>1, DirectStep, DynamicStep, StoreStep, LookStep, AllocateStep,
       ReadLeftStep, WriteLeftStep, WriteLineStep, FreeLineStep DEF view_pixel
  <2>2. CASE do_pixel(t)
    BY <2>2, LinesComputing
  <2>3. CASE ~view_pixel(t) /\ ~do_pixel(t)
    BY <1>2, <2>3, LinesMoving
  <2> QED
    BY <2>1, <2>2, <2>3
<1>3. CASE UNCHANGED vars
  <2>1. UNCHANGED <<setup, run, buf_mode, sl_left, sl_buf, count, image, computed,
  pc,
                    pixelnum, cur_pixel, last_pixel, per_processor_chunk,
                    pixel_start>>
    BY <1>3 DEF vars
  <2>2. \A S : Past(S)' = Past(S)
    BY <2>1, Framed DEF Past
  <2>3. Aligned'
    BY <2>1, Framed DEF LInv, Aligned
  <2> QED
    BY <2>1, <2>2, <2>3, LinesRest
<1> QED
  BY <1>1, <1>2, <1>3 DEF Next

LEMMA LinesInductive == Sized /\ WholeChunks => (Spec => []LInv)
<1> SUFFICES ASSUME Sized, WholeChunks PROVE Spec => []LInv
  OBVIOUS
<1>1. Init => LInv
  BY LinesInitially
<1>2. IInv /\ IInv' /\ LInv /\ [Next]_vars => LInv'
  BY LinesStep
<1> QED
  BY <1>1, <1>2, Inductive, PTL DEF Spec

(* Only one thread is on a scanline where the code counts on it            *)
(* (view.c:361): in SCANLINE mode while it views a pixel, in ACC mode      *)
(* while it counts, in all of them while it writes the line and frees its  *)
(* buffer.                                                                 *)
THEOREM OneThreadPerLine ==
    Sized /\ WholeChunks => (Spec => []OneCPUPerScanline)
<1> SUFFICES ASSUME Sized, WholeChunks PROVE Spec => []OneCPUPerScanline
  OBVIOUS
<1>1. IInv /\ LInv => OneCPUPerScanline
  <2> SUFFICES ASSUME IInv, LInv, NEW t \in Threads, NEW u \in Threads, t # u,
                      LET unlocked == CASE buf_mode = "SCANLINE" -> Viewing
                                        [] buf_mode = "ACC" -> Viewing \ {"view"}
                                        [] OTHER -> {"eol", "free"}
                      IN  pc[t] \in unlocked /\ pc[u] \in unlocked
               PROVE  Y(t) # Y(u)
    BY DEF OneCPUPerScanline
  <2>1. CASE ByLines
    <3>1. pc[t] \in Viewing /\ pc[u] \in Viewing
      BY <2>1 DEF ByLines, Viewing
    <3> QED
      BY <2>1, <3>1, NeverTogether DEF LInv
  <2>2. CASE ~ByLines
    <3>1. pc[t] \in {"eol", "free"} /\ pc[u] \in {"eol", "free"}
      BY <2>2 DEF ByLines
    <3> QED
      BY <3>1 DEF LInv, Ends
  <2> QED
    BY <2>1, <2>2
<1> QED
  BY <1>1, Inductive, LinesInductive, PTL

(* When do_run returns, the output shows the pixels of the run, or all     *)
(* lines that the run covers: each was written, once, from a full buffer.  *)
THEOREM OutputComplete == Sized /\ WholeChunks => (Spec => []OutputWhole)
<1> SUFFICES ASSUME Sized, WholeChunks PROVE Spec => []OutputWhole
  OBVIOUS
<1>1. IInv /\ LInv => OutputWhole
  <2> SUFFICES ASSUME IInv, LInv, run > 0, Returned
               PROVE  image = IF Buffered THEN UNION {PixelsOf(y) : y \in WholeLines}
                              ELSE Run
    BY DEF OutputWhole
  <2>1. \A t \in Threads : pc[t] = "done"
    BY DEF IInv, Running, Returned, Types
  <2>2. run \in 1 .. Len(setup.runs) /\ setup \in Setups
    BY SetupFacts DEF IInv, Types
  <2>3. PixelsIn(run) = Run
    BY DEF IInv, Running, PixelsIn, Run, First
  <2>4. Run \subseteq Pixels
    BY <2>2, <2>3, RunInImage DEF PixelsIn, Pixels, Width, Height
  <2>5. \A S \in SUBSET Viewing : Past(S) = Run
    <3> SUFFICES ASSUME NEW S \in SUBSET Viewing PROVE Past(S) = Run
      OBVIOUS
    <3>1. \A t \in Threads : pc[t] \notin S
      BY <2>1 DEF Viewing
    <3>2. \A p \in Pixels : computed[p] # 0 <=> p \in Run
      BY <2>3, AllReturned
    <3> QED
      BY <2>4, <3>1, <3>2 DEF Past
  <2>6. CASE ~Buffered
    <3> DEFINE S == {"view"}
    <3>1. S \in SUBSET Viewing
      BY DEF Viewing
    <3>2. image = Past(S)
      BY <2>6 DEF LInv, Images
    <3> HIDE DEF S
    <3> QED
      BY <2>5, <2>6, <3>1, <3>2
  <2>7. CASE Buffered
    <3>1. Uncounted \in SUBSET Viewing
      BY DEF Uncounted, Unstored, Viewing
    <3>2. ASSUME NEW y \in Lines PROVE Unwritten(y) <=> ~(PixelsOf(y) \subseteq Run)
      <4>1. CountedOf(y) = PixelsOf(y) \cap Run
        BY <2>5, <3>1 DEF CountedOf
      <4>2. sl_left[y] = 0 <=> CountedOf(y) = PixelsOf(y)
        BY <2>7, LeftFacts
      <4>3. Unwritten(y) <=> sl_left[y] # 0
        BY <2>1 DEF Unwritten
      <4> QED
        BY <4>1, <4>2, <4>3
    <3>3. {y \in Lines : ~Unwritten(y)} = WholeLines
      BY <3>2 DEF WholeLines
    <3> QED
      BY <2>7, <3>3 DEF LInv, Images
  <2> QED
    BY <2>6, <2>7
<1> QED
  BY <1>1, Inductive, LinesInductive, PTL
=============================================================================
