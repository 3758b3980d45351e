# BRL-CAD's render farm, in TLA+

BRL-CAD is a solid modelling system: geometry libraries, an editor, a
ray-tracer, converters, image tools. Nearly all of it is sequential numeric
code. This project is about the parts of it that are not, and that a test hardly
reaches:

* the network-distributed ray-tracer: the dispatcher `remrt`, which cuts the
  frames of an animation into spans of pixels and hands them out, the worker
  `rtsrv`, which renders them, and the message library `libpkg` between the two;
* the threads inside a ray-tracer (`rt`, `rtsrv`), which share out a run of
  pixels through a counter and write scanlines together;
* the master of the interactive ray-tracer ADRT: two threads, a ring of work,
  semaphores, slaves that come and go;
* storage in a `.g` file, the database: the map of free space, the order of the
  writes that replace an object, what a crash leaves and what a scan makes of it;
* the table of mapped files: use counts, copies that go stale, and what librt
  shares through it, open databases and converted bitmaps.

It models them, checks the models with TLC on small instances, and proves for
instances of every size what the checks make believable.

Sources are named as in the repository, from its root: `src/src/remrt/remrt.c`
is `src/remrt/remrt.c` of the distribution.

Contents

1. Inventory: the parts of the system
2. The modules, and how they correspond to the code
3. What the properties say
4. The runs: bounds, and what each shows
5. Fairness
6. What the runs found
7. What is proved, and how
8. What is only model-checked, and what is abstracted
9. Not modelled, and why
10. Running it

## 1. Inventory

### 1.1 The render farm

**Dispatcher, `src/src/remrt/remrt.c`.** One process, one thread. It keeps

| state | where | what |
|---|---|---|
| `servers[MAXSERVERS]` | 181-215 | one slot for each descriptor: connection, state, current frame, the work list `sr_work`, time of the last assignment, speed |
| `FrameHead` | 150-180 | the list of frames; each has its output file, its commands and `fr_todo`, the list of inclusive spans of pixels still to be assigned |
| `clients` | | the set of descriptors `select` polls |
| `running`, `work_allocate_method` | | whether work is assigned at all, and the policy (movie: a frame to a server; load; frame: all servers on a frame) |
| the `.pix` files | disk | what has been rendered; a black pixel is one that has not |

`do_work` goes round a loop: `start_servers` now and then, `check_input` (handle
what is buffered; select and accept; read; handle again), `schedule` (DIRBUILDs
and final closes; finished frames; assignments in passes over the servers).
The operations are the message handlers (`ph_version`, `ph_dirbuild_reply`,
`ph_gettrees_reply`, `ph_pixels`, `ph_cmd` with its commands), `addclient`,
`drop_server`, `send_dirbuild`, `send_matrix`, `send_gettrees`,
`send_do_lines`, `send_restart`, `task_server`, `frame_is_done`, and, at the
start, `prep_frame` and `create_outputfilename` with
`scan_frame_for_finished_pixels`.

A server goes NEW, VERSOK, DOING_DIRBUILD, NEED_TREE, DOING_GETTREES, READY,
and from anywhere to CLOSING and UNUSED. (The table in the comment at
remrt.c:121-145 has DOING_DIRBUILD lead to READY; the code goes to NEED_TREE.
The model follows the code.)

**Worker, `src/src/remrt/rtsrv.c`.** One thread that prefers input to work: every package
is put on the list `WorkHead` as it comes, except `MSG_DIRBUILD`,
`MSG_RESTART` and a few more that are handled at once; between two looks at its
connection it takes one package off the list. State: whether the database has
been read, the view of the last MATRIX, the ray grid `prepare` has computed
from the view it had when the trees came.

**libpkg, `src/src/libpkg/pkg.c`.** Framed, typed messages over TCP. `pkg_suckin`
moves what has arrived to a buffer, `pkg_process` calls the handlers,
`pkg_send` first does the former, so that a handler that sends can find more
input buffered than `select` has told of. A send on a broken connection may
succeed or fail.

**Host table, `src/src/remrt/ihost.c` and `start_servers`.** Which hosts may render,
when, and how a worker is started on them.

Interactions: the dispatcher and its workers share nothing but the
connections. Inside the dispatcher, though, everything is shared by everything:
a handler may drop the server whose buffer is being processed, a send may drop
the server a pass is about to give work, a finished frame is taken from under
the servers that are on it, and a slot is reused as soon as its descriptor is.

What is hard about it: failures at every point of every exchange; state that
says one thing and a list that says another; late answers; slots and buffers
that outlive their connections; a policy loop with a `goto`; checkpointing
through a file in which "not yet rendered" is a colour.

What makes it correct: no pixel is ever lost, whatever fails; none is rendered
twice without need; each pixel shows the frame it belongs to; a finished file is
complete; failed workers are replaced and hung ones given up; the script is
rendered in the end.

### 1.2 The threads of the ray-tracer

`src/src/rt/worker.c` (`do_run`, `worker`, `do_pixel`) and `src/src/rt/view.c`
(`view_2init`, `view_pixel`).

State shared by the threads: `cur_pixel` and `last_pixel`, the run that is left;
`per_processor_chunk`, how much a thread takes at a time; `stop_worker`; for
each scanline its buffer `sl_buf` and the count `sl_left` of its pixels that are
still to come.

Operations: `view_2init` chooses one of five ways to buffer the output and
allocates the scanlines; `do_run(a, b)` sets the counter, creates the threads
and joins them; each `worker` works out a chunk size if there is none, takes
chunks, shoots their rays; `view_pixel` stores a pixel, counts down its line,
and the thread that brings the count to zero writes the line and frees it.

What is hard: only some of the accesses are under a semaphore
(`RT_SEM_WORKER`, `RT_SEM_RESULTS`), different ones in different modes; code
in one file relies on a chunk size set in another.

What makes it correct: each pixel is computed, once, by one thread; the output
shows all of them; the call returns.

### 1.3 The master of ADRT

`src/src/adrt/master/tienet_master.c`, `dispatcher.c`, `master.c`, and the
slaves of `src/src/adrt/slave`, which are their environment.

State: a ring of work units with its two semaphores; the list of slaves' sockets
and the list of dead ones; for each slave its last unit, whether it is idle and
whether a broadcast waits for it; the mutex `send_mut`; counters of what is out;
flags and semaphores for the end; the image, and how many tiles of it have come.

Operations: the application's thread pushes units (and requeues those of
dead slaves, and wakes idle slaves), broadcasts, waits for frames; the network's
thread accepts, receives results, sends the next unit to the slave a result came
from, calls back, buries the dead; the main thread waits for the end and shuts
down.

What is hard: the ring is filled and emptied without a lock; both threads hand
out work; the end is recognised by three conditions read one after the other;
slaves die.

What makes it correct: the ring is a queue; no unit is lost, none is computed
twice without need; no slave is forgotten; a frame is given out when it is
whole; the observer is answered; the wait ends.

### 1.4 Storage in .g files

`src/src/librt/db5_alloc.c`, `db_alloc.c`, `db5_io.c`, `db_io.c`, `db5_scan.c`,
and the free space map `memalloc.c`.

State: on disk a chain of objects, free storage being objects too; in memory the
directory (address and length of each object), the map of free extents, the end
of the file, and whether it is read-only.

Operations: put an object (in place, shortened, or moved to where there is
room), delete one, each with up to five writes; the scan at open, which rebuilds
everything in memory; on the map, free an extent (merged with its neighbours) and
take the best fit.

What is hard: there is no journal: the writes of one operation have an order, and
the program may be killed between any two of them and in the middle of one.

What makes it correct: no byte belongs to two objects or to an object and to free
storage; free extents never overlap or touch; none is leaked; whatever is
interrupted, every *other* object reads as it was last put, and the file
can be opened again.

### 1.5 Mapped files and what is shared through them

`src/src/libbu/mappedfile.c`, `src/src/librt/db_open.c`, and
`src/src/librt/primitives/ebm/ebm.c` for one of the primitives that use it.

State: the table of mapped files, each with a name and a tag, the time and size
the file had, a use count, and `apbuf`, where its users keep what they have made
of the file: the bitmap an `ebm` has been converted to, or the `struct db_i` of a
database open for reading, which has a use count of its own and points back.

Operations: open (find an entry, look whether the file has changed, count a use;
or mark the entry invalid, map the file and add an entry), close, free all that
nobody uses; `db_open` and `db_close` on top, which share the `db_i`, give uses
back and reclaim; the importer of an `ebm`, which fails when the file is too short,
and otherwise converts the bitmap if nobody has.

What is hard: an open is three critical sections with decisions between them; two
use counts that stand for each other; the file changes while it is open; the file
system is asked outside of every lock.

What makes it correct: no pointer to what has been freed; uses counted exactly (they
are, but for an import that fails, section 6); nobody is given an old copy of a file
that is there; a database has one `db_i`; a bitmap is converted once.

### 1.6 Read, and not modelled

`src/src/libfb/fb_paged_io.c` (a one-page cache of a frame
buffer), `src/src/libbu/semaphore.c` and `parallel.c` (first-use initialisation,
thread numbers), the output stream of `libpkg`, and remrt's interactive
commands; see section 9.

### 1.7 The rest

`librt` (database and ray tracing), `libged`, `mged`, `archer`, `libtclcad`
(editing), `libnmg`, `libbn`, `libbg`, `libbrep`, `libanalyze` (geometry),
`liboptical`, `libicv`, `libdm`, `halftone`, `sig` (images and display),
`libfb`'s drivers, `fbserv`, `fb` (frame buffers), `conv`, `libgcv`, `libwdb`,
`proc-db`, `gtools`, `util`, `burst`, `brlman` (converters and tools), `nirt`,
`rtwizard` (front ends), and `src/src/other` (vendored). They are listed with the
reasons in `PROJECT.json`: floating point, or one pass from input to output, or
device and window-system output, or the work of others.

## 2. The modules, and how they correspond to the code

```
RenderFarm            what the dispatcher promises, without messages
  ^   |__ RenderFarmProofs  its safety, proved
  | implemented by (Farm == INSTANCE RenderFarm WITH ...)
Remrt                 dispatcher, workers, connections, failures
  |   |__ MCRemrt           instances for TLC, one cfg for each question
  |   |__ RemrtProofs       types; no pixel assigned twice, rendered twice
  |                         or lost; that Remrt implements RenderFarm;
  |                         the protocol between remrt and rtsrv
  | EXTENDS
PixelSpans            list_remove, the checkpoint scan as a function
  |   |__ PixelSpansProofs  what they leave of a list, proved
  |__ PixelScan             the scan's loop, against that function
      |__ PixelScanProofs   the list at every step of the loop

PixelRun              what do_run promises its callers
  ^ implemented by (Abstract == INSTANCE PixelRun WITH ...)
RtWorker              the threads, the counter, the scanlines
  |   |__ MCRtWorker        command lines and images for TLC
  |   |__ RtWorkerProofs    each pixel once, each line whole; implements PixelRun

TienetMaster          the three threads of the ADRT master, its slaves
  |__ MCTienetMaster        requests, slaves and deaths for TLC
  |__ TienetMasterProofs    the ring, no unit lost or twice, whole frames

MemMap                the map of free extents, as operators
  | EXTENDS
Db5Alloc              operations, writes, crashes and scans of a .g file
  |__ MCDb5Alloc            objects with symmetric names for TLC
  |__ Db5AllocProofs        the free map; nothing twice or lost, what is read back

MappedFile            threads, the table, open databases, converted bitmaps
  |__ MCMappedFile          threads and memory with symmetric names for TLC
  |__ MappedFileProofs      nothing dangles, uses counted, copies fresh
```

**RenderFarm.** A job is a pixel of a frame. Jobs wait (`todo`), are held by a
server (`held`) or are filed (`filed`); frames are `done`. `Assign`, `File`,
`Requeue`, `Finish`, and `Restart` for a dispatcher that is started again. A
requeue may leave a part of the assignment filed, since a disk may take part of
a write.

**PixelSpans and PixelScan.** `ListRemove` has the cases of `list_remove`
(remrt.c:889-925), in the order the code tests them, so that the first span
that *starts at a*, or *ends at b*, or overlaps is the one changed. PixelScan runs the loop of
`scan_frame_for_finished_pixels` (945-999) over every file content up to
`MaxSize` pixels, optionally with `Excess` pixels beyond the frame.
`TodoWhenRead` is the list as a recursive function of how many pixels have been
read, `ScanFrame` its last value; Remrt starts from it, and restarts from it.

**Remrt.** Variables in four groups:

| group | variables | code |
|---|---|---|
| dispatcher's memory and disk | `srv` (`servers[]`: state, polled, cur, work, late), `todo` (`fr_todo`), `frames` (`FrameHead`), `running`, `method`, `file` | remrt.c |
| where it is in its loop | `pc`, `sp`, `ifdset`, `fr`, `another_pass`, `nxt_frame` | the local variables of `check_input` and `schedule` |
| connections and workers | `wire` (arrived, unread), `buf` (libpkg buffer of the dispatcher), `out` (towards the worker), `peer` (the process at the other end) | pkg.c, rtsrv.c |
| environment | `backlog` (a connection not yet accepted), `faults`, `commands` (budgets) | |

The grain of an action is one handler call, one `pkg_suckin`, one
`task_server` call. That is the grain at which the dispatcher, which has one
thread, can be overtaken by the world outside: between any two of them workers run, die, and
fill the wires. Each such call is atomic *with all it calls*: `ph_pixels` with
the write, the requeue and the stop; `task_server` with the send, its failure
and the drop.

| action | code |
|---|---|
| `ph_version`, `ph_dirbuild_reply`, `ph_gettrees_reply`, `ph_pixels` | the handlers of the same name |
| `cd_stop_go`, `cd_drop`, `cd_restart` | `ph_cmd` running that command, then dropping the one-shot client |
| `ReceivedAll`, `select`, `suckin`, `SuckedAll` | the five parts of `check_input`; `select` is `accept` and `addclient` as well |
| `send_dirbuild`, `final_close`, `AttendedAll` | the first loop of `schedule` |
| `frame_is_done`, `ReapedAll` | its second loop, `all_done`, and the end of `do_work` |
| `NothingWaits`, `PassEnds` | its assignment loops: next frame, another pass, next method (`Advance`) |
| `task_tardy`, `task_none_left`, `task_other_frame`, `task_reserved`, `task_gettrees`, `task_lines`, `task_dropped` | the returns of `task_server`, in the order of the code |
| `rtsrv_main`, `rtsrv_receive`, `rtsrv_work` | the worker: connecting, reading, doing |
| `call`, `call_command` | `start_servers`; `rtsrv host port command` |
| `crash`, `hang`, `slow`, `hung_too_long` | the hosts and the network |
| `remrt_restarts` | the machine of remrt fails; remrt's `main` again, over the files that are there |

A failed send is a disjunct of the action that sends: `CanFail` allows it when
the peer is gone and the message type is in the constant `FailingSends`, so
that a run can ask what happens when only some of the sends fail. A failing
open or write is a disjunct of `ph_pixels`, allowed by the constant `Faults`. A
write that falls short leaves any prefix of the assignment's pixels in the
file, and perhaps a part of the next one: `Torn`, a triple that is neither
black nor rendered.

**PixelRun and RtWorker.** PixelRun is a set of pixels to do: `Call(a, b)`,
`Compute(p)`, `Return` when none is left. In RtWorker a critical section is one
action where everything that touches its variables takes the same semaphore, and
whatever the code reads or writes without one is an action of its own.

| action | code |
|---|---|
| `do_run` | `view_2init`, `do_run` up to `bu_parallel` (view.c:1528, worker.c:725) |
| `TestChunk`, `SizeChunk`, `StoreChunk` | "Figure out a reasonable chunk size": tested, computed from `cur_pixel`, stored, without the semaphore (476-530) |
| `TakeChunk`, `Span` | the chunk, under `RT_SEM_WORKER` (554-556); its end, for which `per_processor_chunk` is read again without it (557-566) |
| `ChunkDone`, `WorkerReturns` | the loop over the chunk and its ways out (568) |
| `do_pixel` | the ray, up to the call of `view_pixel` |
| `Direct`, `Dynamic`, `Accumulate`, `LookForBuffer`, `Allocate`, `Paint`, `ReadLeft`, `WriteLeft`, `WriteLine`, `FreeLine` | `view_pixel` in the modes UNBUF and RTSRV, DYNAMIC, ACC, SCANLINE, and its end for all of them |

`setup` is what a command line fixes; it never changes. `computed` counts how
often a pixel has been computed, and is what the properties are about.

**TienetMaster.** Three threads: `app` (`master_networking` and what it calls),
`net` (`tienet_master_listener`), `main`. A semaphore operation is one step; so is
what is done under a mutex, but for `tienet_master_send_work`, whose reads
and writes `push` does not lock out and which is two steps.

| action | code |
|---|---|
| `SendRefused`, `SendMessage`, `LookForWork`, `TakeWork`, `EnterIdle` | `tienet_master_send_work`, by either thread (tienet_master.c:585-667) |
| `NextRequest`, `NoMoreRequests`, `RequestSent`, `Reply` | `master_networking` and `master_dispatcher_generate`, one request after the other |
| `Push`, `Requeue`, `NoneDead`, `WakeIdle` | `tienet_master_push` (216-280) |
| `Receive`, `Bury`, `Accept`, `NoneOut`, `NothingLeft`, `Halt` | `tienet_master_listener`, `tienet_master_result` |
| `Callback`, `Post`, `PostFrame` | `master_result`, `tienet_master_broadcast` |
| `Wait`, `Shutdown`, `Close` | `tienet_master_wait`, `tienet_master_shutdown` |
| `Slave`, `Die` | the slave's loop; its host |

`pushed`, `taken`, `computed` and `seen` are history: nothing the code does
depends on them.

**MemMap and Db5Alloc.** MemMap has `rt_memfree` and the best fit of
`rt_memalloc_nosplit` as operators on a set of extents: the list is sorted by
address, and every walk along it looks for the neighbours of one. In Db5Alloc
the unit is the 8 bytes objects are aligned to. A unit of the file holds what a
reader would find there: the header of an object, whose content it is, whether
its last byte is the magic number. One action for each `db_write`:

| action | code |
|---|---|
| `Put`, `Delete` | `db_put_external5`, `db5_realloc` up to its first write, `db_delete` |
| `Allocate` | the middle of `db5_realloc`: best fit, or the end of the file |
| `Zapped`, `FrontErased`, `BackErased`, `SurplusErased`, `PlaceErased` | its writes of free objects, and what it does to directory and map after each |
| `WriteHeader` | the first of the two writes of a free object of more than 8192 bytes |
| `ObjectWritten`, `Deleted` | the object itself; `db_delete` after its write |
| `WriteFails` | any write stops after any part of it; the file is forced read-only |
| `Crash` | the program is killed before, in or after any write |
| `ScanObject`, `ScanEnd`, `ScanFatal`, `ScanShort` | `db5_scan`, an object at a time, and its three ends |

**MappedFile.** One file, opened with three tags: NULL by those that read the bytes,
"ebm" and "db_i". What is under `BU_SEM_MAPPEDFILE` is one action; so is each
look at the file system, and each access to shared memory outside of a lock. The
memory for `struct bu_mapped_file` and `struct db_i` is finite (`Maps`, `Dbs`) and
is handed out again once it has been freed and nobody points to it, so that a
pointer to freed memory stays visible as one; a thread that needs memory waits
until there is some.

| action | code |
|---|---|
| `Find`, `Validate`, `Increment`, `Invalidate`, `MapFile`, `Add`, `OpenFails` | `bu_open_mapped_file`: its critical sections and what is between them (mappedfile.c:300-465) |
| `Close`, `Free`, `Sweep` | `bu_close_mapped_file`, `bu_free_mapped_files` |
| `TooShort`, `CheckBitmap`, `AllocateBitmap`, `ConvertBitmap` | `rt_ebm_import4`: the test of the length, which fails without giving the use back (ebm.c:645-649); the test for a bitmap, the test again under `RT_SEM_MODEL`, the lines copied after it |
| `ReadApbuf`, `ShareDb`, `GiveBack` | `db_open` of a database that is open |
| `NewDb`, `InitDb`, `GetcwdFails` | `db_open` of one that is not, and one way to fail |
| `CloseDb`, `CloseDbFile`, `SweepDbFile`, `FreeDb` | `db_close` |
| `FileChanges` | another program writes, replaces or removes the file |

`seen` and `stray` are history: the versions the disk has had while a thread was opening,
and the uses of an entry whose user has left without giving them back.
`Short` is the set of versions of the file with fewer bytes than an `ebm` needs
(`xdim*ydim`).
`Apart` is the discipline of the callers: pairs of operations (opening or closing
with a tag, or "free") that never overlap. In the passing run no two operations on
databases do, and what reclaims unused files overlaps with nothing. That is how the
programs of the package use it: a database is opened before there are threads, or, for
a submodel, by one thread at a time under `RT_SEM_MODEL` while others open textures and
bitmaps (submodel.c:95-109), and is closed, and unused files reclaimed, when the threads
have ended. `mapped_free` lets threads reclaim at any time, as the library's own test does (section 6).

Definitions called `Bug...` are not part of the specification. Each is a
definition of the model with a plausible mistake, and there for one purpose:
replaced by it, the model violates the property it is listed with. They show
that the property would notice.

## 3. What the properties say

Remrt, RenderFarm and PixelScan:

| property | says | about |
|---|---|---|
| `NoPixelLost` | a pixel that is not in its file is on its frame's list, or on the work list of a server whose loss would put it back | `drop_server`, `task_server`, `ph_pixels` |
| `NoDoubleWork` | no pixel is assigned to two servers, none that is assigned waits | spans cut, put back |
| `NothingTwice` | a pixel in its file neither waits nor is assigned | late answers, checkpoint scan |
| `FinishedComplete` | a frame that has left the list has every pixel in its file | `this_frame_done`, `ph_pixels` |
| `RightView` | a pixel shows the frame it belongs to | order of MATRIX, GETTREES, LINES |
| `TornIsRedone` | a half-written pixel is going to be written again | write errors, restart |
| `DroppedIsReclaimed` | a slot that is no longer polled is on its way to being closed | state changes on dropped servers |
| `RepliesExpected` | every message on its way from a worker is the one the dispatcher expects, unless it has given it up: no innocent server is dropped, no slot hears its predecessor | protocol, slot reuse |
| `AssignmentUnderWay` | the assignment of a live READY server is in exactly one place: its LINES on the way or its PIXELS back, once | protocol |
| `AllFramesDone` | every frame is finished in the end | the whole; no `schedule()` call goes on for ever before |
| `TardyIsDropped` | a server that is silent too long does not keep its assignment | tardy test |
| `FarmSpec` | every step is a step of RenderFarm, or none | refinement |
| `WorkIsTheBlackPixels`, `SpansAreSendable`, `LoopIsScanFrame` | the checkpoint scan leaves exactly the black pixels, in spans that can be sent; the loop computes the function | scan |

`NoPixelLost` of Remrt is stronger than that of RenderFarm. It counts an
assignment only when its server's *state* is one whose loss requeues; the code
has two ways to leave work on a server where no drop finds it, and this is
how they show (section 6).

RtWorker:

| property | says | about |
|---|---|---|
| `NothingTwice` | no pixel is computed twice | `cur_pixel`, chunks |
| `EveryPixelComputed` | when `do_run` returns, the pixels of its run have been computed, and no others | windows, top-down, chunks that do not divide the run |
| `OutputWhole` | when it returns, the output shows the run, or the lines it has completed | `sl_left`, the buffers of lines |
| `OneCPUPerScanline` | one thread on a line, where the code relies on it | "Only one CPU is working on this scanline" (view.c:361) |
| `RunsEnd` | every run ends | the way out of the loop |
| `RunSpec` | every step is a step of PixelRun, or none | refinement |

TienetMaster:

| property | says | about |
|---|---|---|
| `BufferIsQueue` | what has been pushed and not taken is in the ring, in order, and the semaphores count it | push and send_work at once |
| `NoUnitLost` | a unit is in the ring, at a slave, on its way back, processed, or on the dead list to be; not said of scripts with shot lines in which slaves die (section 6) | deaths |
| `OneSlavePerUnit`, `OutIsOut` | without deaths a unit is computed once, a slave has one at most, `tienet_master_sem_out` counts them | two threads that send work |
| `NobodyForgotten` | a slave that is not marked idle has a unit, or a thread is about to look for one | idle marks read without a lock |
| `FrameIsWhole` | without deaths a frame is given out when all its tiles show it | `frame_ind` |
| `Served` | with two slaves or more that stay, every request is answered | lost wake-ups, locks left locked |
| `WaitEnds` | the wait for the end ends | section 6 |

Db5Alloc:

| property | says | about |
|---|---|---|
| `FreeApart` | free extents neither overlap nor touch | `rt_memfree` |
| `NothingTwice` | no unit of the file belongs to two objects, or to one and to free storage | `db5_realloc` |
| `NothingLeaked` | and none is lost to both | surplus, front and back halves |
| `ReadsBack` | every object but the one being changed reads as it was last put, and a deleted one stays away, also after a failed write, a crash and a scan | order of the writes |
| `StaysReadable` | a file is found corrupt or forced read-only only if a write failed, or the program was killed while it divided storage or extended the file | order of the writes |

`WholeFileScanned` says what the code says of itself (db5_scan.c:108), and does
not hold; no run checks it (section 6).

MappedFile:

| property | says | about |
|---|---|---|
| `NothingDangling` | whatever a thread, a database or an entry of the table points to has not been freed | use counts, `db_close`, free while an open is under way |
| `UsesCounted` | a file's uses are the pointers handed out to users and databases, and one more for each import of an `ebm` that found the file too short; those stay with an entry of such a version, also after it has been marked invalid, and no other entry is kept alive without a user; a database's uses are its users | `db_open` that shares gives a use of the file back; failures of `db_open` and of imports |
| `FreshCopy` | a user is given an entry with a version the file has had since it asked, or with an older one only if the file was missing meanwhile | validation outside of the lock, entries marked invalid |
| `OneDatabase` | at most one entry of the table answers to "db_i", so that a database that has not changed is never opened twice (one that changes and changes back is) | invalidation, sharing |
| `ConvertedOnce` | a bitmap is converted by one thread, and whole when no import is under way | test, lock, test again |

Each module has a type invariant, `TypeOK`. Those of RenderFarm, Remrt, Db5Alloc and
MappedFile are proved (section 7), and that of TienetMaster but for some of its bounds;
those of RtWorker, TienetMaster and MappedFile have been checked by adding them to the
configurations, and no run repeats it. Their bounds
are not empty phrases: a semaphore of the ring never exceeds its size, nor
`tienet_master_sem_out` the number of slaves, nor a line's count its width, and a
use count never goes below zero.

The refinement of Remrt maps `todo` to the pixels of the lists, `held` to those of the
`sr_work`, `filed` to the pixels of the file that are not black, and `done` to
the frames off the list. It holds under the faults the code is meant to
survive: worker crashes at any time, failing sends, full disks, restarts of
remrt.

## 4. The runs: bounds, and what each shows

All runs of Remrt have one assignment per server at a time, which is the
code's (`N_SERVER_ASSIGNMENTS` is 1).

| run | instance | distinct states | shows |
|---|---|---|---|
| `pixel_scan` | every content of files of 1 to 7 pixels | 702 | the scan leaves the black pixels |
| `remrt_crash` | 2 slots, 2 frames of 3 pixels in assignments of up to 2, the middle one of the first frame done before; 2 crashes, of workers or of remrt; DIRBUILD, GETTREES and LINES may fail; fairness | 236,124 | all safety properties, refinement, checkpoint-restart, every frame is finished |
| `remrt_commands` | 1 host, 2 slots, 2 frames of 2 pixels in assignments of 2, 1 of them done before; 2 of a crash, a failing write, cut at any place, a host that hangs or is slow, and workers of another release; 2 commands (stop, go, drop a slot) | 332,029 | a full disk, commands in any state, and assignments taken back from slow and hung servers lose nothing; refinement |
| `remrt_lossy` | the failures that lose pixels, on purpose; 2 of crash, a file that cannot be opened, restart of remrt | 543,040 | at least nothing is computed again |
| `rt_worker` | 2 threads; 8 command lines: every mode, 1 or 2 runs, windows, top-down, chunks of 1, 4, a line, and worked out; images of 4 to 24 pixels; fairness | 65,252 | every pixel once, every line whole, refinement, termination |
| `tienet_master` | 2 slaves; 5 scripts of up to 4 requests; ring of 1 or 2 places for frames of 2 or 3 tiles; 0 or 1 death, slaves there at the start or later; fairness | 257,116 | ring, slaves, frames, answers |
| `db5_alloc` | 2 objects of 1 to 3 units, with 2 contents for each length (objects and contents symmetric), in a file of 6; failing writes; 1 crash, anywhere | 3,364,573 | nothing shared, leaked or misread |
| `mapped_file` | 3 threads, memory for 2 mapped files and 2 databases, 2 versions of the file, one of them too short for an `ebm` (all but the versions symmetric); the file changes or is removed at any time, `getcwd` fails, up to 2 imports of an entry fail; databases one at a time, reclaiming alone (`Apart`) | 2,759,447 | nothing dangles, uses counted, copies fresh |
| `remrt_black_hole`, `rt_chunk_race`, `tienet_wait`, `mapped_free` | as small as shows it | | section 6 |

Why the bounds are enough for the questions:

* *Two slots*: double assignment, a server on another's frame (the policies
  MOVIE and LOAD), slot reuse while another server works, all need two and no
  more. A slot is reused in every run, since workers that crash are replaced.
* *Two frames*: reservation of frames, the move to the next frame, resending of
  views, the order of destruction and assignment. The state of a third would
  be that of the second.
* *Two or three pixels*: with assignments of 1 or 2 pixels a span is cut, is
  used up, is put back in front of a rest, and (3 pixels, the middle one done
  before) stands in a list of two spans. `PixelScan` has up to seven pixels,
  where a list has up to four spans.
* *Prior pixels*: the first frame's pixel 1 is left by an earlier run, so that
  a scan is always part of the start.
* *Faults*: two, so that the failure of the replacement, or of the second
  server while the first one's work is put back, happens.
* *Commands*: two, so that a stop can be followed by a go or a drop.
* `NeedTree` is the set of all frames where the property must hold: each frame has
  a `clean` or `tree` command in its script, as the scripts of the animation
  tools do. In `remrt_lossy` it is empty.
* *Threads*: two. Every conflict in the code is between two accesses; a third
  thread adds no new pair, and what is about the number of threads, that
  each pixel is computed once, is proved for any number. The images are as small
  as show each mode: SCANLINE mode needs four lines for each thread, DYNAMIC a
  width above `UnbufferedWidth` (96 in the code, 2 here).
* *Slaves and ring*: more tiles than places and than slaves, so that push
  waits, the ring wraps, and slaves wait; a ring of one place and one of two; a
  death before, during and after the slave's work, and while a thread stands at
  its socket.
* *Objects*: two, in a file that both fill but for one unit or two, so that an object
  is shortened, moved to a gap, moved to the end and back, and gaps merge on either
  side. `Large` is 2 units instead of 1024, so that both ways to write free storage
  happen. Names are symmetric, and no property names one; two contents of a length, also
  symmetric, tell an object that has been written again from one that has not.
* *Threads, maps and databases*: three threads, so that two share a file while a third
  finds it, invalidates it or is the last to go; two mapped files, an old copy still in
  use beside the new one; two databases, for the same reason. With two threads and
  three mapped files, two stale copies beside a fresh one, the same properties hold
  (1,739,288 states, not among the runs). Two versions: an entry is the version on the disk or it is not,
  and an `ebm` can be made of it or not. `MaxStray` is 2, so that one entry is left behind by
  two failed imports, with other users or without; an import that would be the third stays where it is.
* *One crash* of the program that writes the database: after two, what the code does
  is known to be wrong (section 6).

Deadlock is checked in all runs of Remrt: the only state in which nothing
happens is the one where remrt has returned from `main` (`exited`). In
`pixel_scan` the system stops when it has finished, and the check
is off; so it is in `rt_worker` (all runs done), in `tienet_master` (the script
ends; after a death the master may stand still, section 6) and in `db5_alloc`
(nothing can be done with a read-only file when there are no crashes left).

## 5. Fairness

`FairSpec` of Remrt assumes weak fairness of four things.

* `Dispatcher`: the process is scheduled, and its `select` has a timeout, so
  that its loop goes round whether or not there is input. The dispatcher is a
  sequential program: at most one of its steps is enabled (with its outcomes),
  so weak fairness of the whole is that of each.
* `Worker(s)`: a process that is connected and not hung goes on. Disabled for
  a worker that has crashed or hung; nothing is assumed of those.
* `call`: a host without a worker is found and one is started. `do_work` calls
  `start_servers` from every turn of its loop, which starts workers at
  intervals on the hosts that must always serve.
* `hung_too_long(s)`: time passes. Fifteen hours of silence come in the end.

RtWorker assumes weak fairness of `do_run`, the main program that goes on to its
next run, and of each thread: no action of a thread waits for anything but
another's critical section, which is one action here.

TienetMaster assumes weak fairness of the three threads of the master and of each
slave that has not died: they are scheduled by the operating system, `select`
returns when there is input, and a slave answers what it is sent. Nothing is
assumed of `Accept` and `Die`, nor of how a semaphore's waiters are chosen:
each semaphore has one.

Nothing is assumed of crashes, slow workers, commands, failing sends or
restarts: they may happen, up to their bounds, or not.

## 6. What the runs found

Four runs must end in a violation; `PROJECT.json` quotes the comments they
contradict.

1. **A hung worker with the last assignment is never given up**
   (`remrt_black_hole`). The tardy test is in `task_server`, which is not called
   for a frame with nothing left to assign (remrt.c:1833).
2. **A chunk changed under a thread loses pixels** (`rt_chunk_race`).
   `per_processor_chunk` is tested, stored and read again without the semaphore
   (worker.c:476, 560, 563). A thread that finds it unset late stores a smaller
   one between another's `cur_pixel += per_processor_chunk` and the computation of
   where that chunk ends.
3. **The wait for the end does not end** (`tienet_wait`). When the last result is
   processed before the application has said that there is no more work, the
   listener's test fails, and no later result repeats it
   (tienet_master.c:723). The shortest trace has 35 states.

4. **An unused file is freed under the one that has just found it** (`mapped_free`).
   `bu_open_mapped_file` finds the entry in one critical section, looks at the
   file in none, and counts its use in another (mappedfile.c:325-327);
   `bu_free_mapped_files` in between frees the entry, "inside a critical section,
   for parallel protection" as its header says.

The following come to light when the constants of a passing run are changed, as
is said in brackets; the passing runs leave them out, and say what holds
without.

remrt and rtsrv:

* A view that cannot be sent loses an assignment: `task_server` (1658) ignores
  that `send_matrix` has dropped the server, and records an assignment on it.
  The server is CLOSING, and no drop requeues it (`NoPixelLost`; in RemrtCrash.cfg add
  "MATRIX" to `FailingSends` and let a frame go without trees, `NeedTree = {1}`: before
  trees the failing view is noticed).
* Restarting a busy server loses its assignment: `send_restart` (514) changes the
  state to RESTART, from which nothing is requeued (`NoPixelLost`; `Commands <-
  MCAllCommands` in RemrtCommands.cfg).
* A dropped server comes back to life: its VERSION was in the buffer, `ph_version`
  (3100) sets VERSOK from any state, and no one polls its descriptor. The slot is
  lost until remrt ends (`DroppedIsReclaimed`, added to RemrtCommands.cfg).
* A frame without trees of its own is rendered with the previous grid: the view is
  sent again (1659), but `rtsrv` computes its grid in `prepare` only, for
  GETTREES (rtsrv.c:689). Scripts with a `clean` or `tree` for each frame are
  not affected (`RightView`; `NeedTree = {1}` in RemrtCrash.cfg).
* Pixels whose file cannot be opened count as filed (3233), unlike pixels whose
  write fails (`FinishedComplete`; add "open" to `Faults` of RemrtCrash.cfg).
* A file longer than its frame corrupts the work list (991), with a span that ends
  before it starts (`SpansAreSendable`; `Excess = 2` in PixelScan.cfg).
* A half-written pixel is taken for a rendered one after a restart (3241); the scan
  treats every triple but (0, 0, 0) as rendered (`TornIsRedone`; add "remrt" to
  `Faults` of RemrtCommands.cfg).

The threads of rt:

* In `full_incr_mode` a line's count is lowered after the semaphore has been
  released (view.c:440): with chunks smaller than a line two threads may lose a
  count, and the line (`OutputWhole`; a setup of `rt_full_incr` with chunk 1 and
  3 by 3 pixels).
* A top-down run that does not begin at pixel 0 ends at 0, not at its beginning, and
  starts as many pixels too low (worker.c:559; `EveryPixelComputed`).
* A run that begins inside a line breaks the assumption of SCANLINE mode that a
  chunk is a line (view.c:361; `OneCPUPerScanline`).
* A thread that is so late that the others have passed the end works out a negative
  number of pixels, which `size_t` makes enormous, and thus the largest chunk:
  harmless, since there is nothing left to take. Lines that the run covers
  in part are computed and never written: `WholeLines` says so.

The master of ADRT:

* With a single slave, a wake-up may be lost: `push` looks for idle slaves without
  the mutex, a moment before the listener marks this one idle
  (tienet_master.c:275; `Served` without its condition on the number of slaves).
  The same happens when no slave has connected at the first push, since
  a slave no longer asks for work when it comes (tienet_slave.c:156, commented out).
* A slave that dies after the last tile of a frame has been pushed takes the frame
  with it: its unit is pushed again only by the next push, which waits for the frame
  (541). If there is another push, a late tile may complete the count of a later
  frame (master.c:217; `FrameIsWhole` without `NoDeaths`). A slave that dies before
  it has worked crashes the master (251: a copy from a null pointer).
* A unit is lost for good when two threads wake slaves and one of these dies: `idle` is
  not protected, so that `app`, in a push (275), and `net`, in the broadcast of a shot
  line's result, may stand at the same idle slave. The first sends it a unit, the second
  finds nothing to send and marks it idle again; the next push gives it another unit,
  which replaces the first as what is pushed again if the slave dies (635-655). The
  shortest trace has 75 states: three slaves, two deaths, the requests FRAME, SHOTLINE,
  LOAD, FRAME, FRAME. It came to light when the proof of `NoUnitLost` could not be
  completed; the property now has the condition `OneWaker`: nobody dies, or no
  request is a shot line.
* Seen in passing, and not in the model: a status request waits for a result that
  never comes (master.c:535-548); an image whose size is no multiple of 8 is cut into
  more than 64 tiles (dispatcher.c:99); the ring is allocated with one element (146);
  `sem_shutdown` is never initialised; `send_mut` stays locked after a shutdown (608,
  in the model); a wait tests its condition once, so that a spurious wake-up takes
  what is not there (tienet.c:97).

Storage:

* **A scan that stops early leaves the file writable.** Garbage that begins
  with a length of zero counts as the end of the file (db5_io.c:351 returns -1,
  which db5_scan.c:90 takes for it), although "Writing could corrupt it worse"
  (db5_scan.c:108): the objects behind it are gone from the directory, and the next
  one is written over them (`WholeFileScanned`; add it to Db5Alloc.cfg).
* After two crashes an object may be lost that was not being changed: the first leaves the
  header of a shortened object with its old rest, the second an extent that covers
  the next object (`ReadsBack` with `MaxCrashes = 2`, without its exemption `Misread`).
  The inside of a large free object keeps old headers, into which a scan may walk.
* A failed write leaves directory and file inconsistent; the file is read-only, so
  that only readers see it (`ReadsBack` exempts the object that was being changed).
* Not in the model: `fflush` reports what `fwrite` has only buffered, and its
  result is ignored (db_io.c:203); an in-memory database writes the header of a large
  free object beyond its buffer (db5_alloc.c:71); when `_GLOBAL` is lost in a crash
  the next program writes one with default units (db5_scan.c:340).

Mapped files:

* `db_open` and `db_close` by threads at once: `db_close` drops the `db_i` that
  a `db_open` has just read from `apbuf`, and two of `db_open` may both find no
  `apbuf` and make a `db_i` each (`NothingDangling`, `UsesCounted`; take `{"db_i"}` out of `MCApart`).
* When `getcwd` fails, `db_open` reclaims all unused files (db_open.c:194), also while
  a thread has just found one of them: `GetcwdFails` is kept apart like the rest of "free".
* The importer of an `ebm` that comes second returns when the bitmap has been
  allocated, not when it has been filled (ebm.c:660): `ConvertedOnce` therefore
  speaks of the moment when no import is under way.
* An `ebm` whose file has become shorter than `xdim*ydim` leaves a use of it behind:
  `rt_ebm_import4` opens the file and returns -1 without `bu_close_mapped_file`
  (ebm.c:645-649; `rt_ebm_import5` is the same, 787-791), at every import. The entry and its memory
  can never be reclaimed, also when the file is replaced and the entry invalid. The
  model does this (`TooShort`), and counts such uses in `stray`; without `stray` on its
  right-hand side `UsesCounted` is violated in MappedFile.cfg.
* Seen in passing, and not in the model: when `fopen` fails, `db_open` frees the `db_i` and
  leaves it the `apbuf` of the mapped file, whose use it does not give back
  (db_open.c:144), so that the next `db_open` shares freed memory; when the file of a
  submodel cannot be opened, its `prep` returns with `RT_SEM_MODEL` acquired
  (submodel.c:110), and the next thread waits for ever; `hf` converts without a
  semaphore (hf.c:2046) and `dsp` anew for every user (dsp.c:4008), so that copies leak and `hf`
  may be given one that is not whole; a failed read of a file that could not be
  mapped frees the buffer twice, and the loop that reads it never ends when the file
  has been cut short since it was examined (mappedfile.c:399-410).

## 7. What is proved, and how

All theorems hold for every value of the constants that satisfies the named
assumptions: any number of slots, frames, pixels, hosts, faults and commands.

**RenderFarmProofs.** `TypeCorrect`, and `Safety`: `NoPixelLost`,
`NoDoubleWork` and `FinishedComplete`. The invariant is their conjunction with
`TypeOK`, and each part is needed: a frame is finished because no job of it
waits or is held, and *since no pixel is lost* they are all filed; it stays
finished because what is done is neither waiting nor held, so that nothing of
it can be assigned or requeued. One lemma for each action. `Restart` needs
`NoPixelLost` and `FinishedComplete` together: what was held and is forgotten
is black and not of a finished frame, thus waits again. Both theorems have the
hypothesis `RenderedAssumption`: pixels rendered before are pixels of a frame.

**RemrtProofs: types.** `TypeCorrect`: `TypeOK` with `FrameListed` and
`WorkListed`. `TypeOK` alone is not inductive: `Advance` and `ReapedAll` take
the least frame of a list that might be empty, so that one has to know that
while work is assigned the current frame is listed (`FrameListed`), and that
frames with work out are not destroyed (`WorkListed`, which holds because
`ThisFrameDone` looks at all servers). One lemma for each action; the helpers
(`Dropped`, `Requeued`, `Portion`, `Without`, `Advance`) have lemmas of their
own, stated with ASSUME and PROVE. `MinOfNaturals` is proved from the
well-foundedness of the naturals.

**RemrtProofs: no work twice.** `NoWorkTwice`: `NoDoubleWork` for any farm. It is not
inductive: the span cut from the head of a list is free of the rest of the
list only because all the spans of a list are apart, and they stay so when
an assignment is put back in front only because it was apart from the list it
comes from. `Sound` says both, of the table of assignments and the table of lists: spans of
a list apart; an assignment apart from its frame's list; two assignments of
a frame apart from each other. The lemmas are about four moves: an assignment
cut off, given back, forgotten, and the frame lists made anew by the scan.
`WorkIsApart` is the last step, from `Sound` to the property as it is checked.
The theorem includes the failures that lose pixels (section 6): what
is lost is at least not done twice.

**RemrtProofs: nothing rendered twice.** `NothingIsRenderedTwice`: `NothingTwice` for any farm whose
writes do not fail (`"write" \notin Faults`; a half-taken write leaves pixels in
the file that are assigned again, on purpose). The dispatcher's handlers
are first reduced to a few *moves* of work (`Move`): an assignment returned to the
front of its list (`Returned`), written (`Written`), cut off (`Assigned`), cut
off and put back because the send failed (`Refused`), a frame declared done
(`Finished`), a dispatcher started again (`Restarted`), work forgotten
(`Forgotten`), or nothing (`Idle`). `NextMove` shows that every step is one of
them, in the order the handlers do it, and the theorems here and in the
next part are inductions over the moves. The invariant is `Fresh`, what is due is
black, with the type invariant and `Sound`: that a written assignment is not
due elsewhere follows only from assignments being apart.

**RemrtProofs: nothing lost.** `NothingIsLost`, `FinishedFramesAreComplete`,
`TornPixelsAreRedone` and `ImplementsRenderFarm`, under the hypothesis
`NothingLosesWork`: no file fails to open, no server is restarted by command, and
if a MATRIX may fail, every frame sends its trees after it. These are the three ways in
which the code loses pixels (section 6: the view that cannot be sent, the busy
server restarted, the file that cannot be opened); worker crashes, full
disks, hung, slow and outdated workers, stop, go, drop, and a dispatcher that dies at
any time are all allowed (`TornPixelsAreRedone` does not allow the last: a scan takes
a half-written pixel for a finished one, section 6). Two inductive
invariants. `OpeningInv`: `ph_version` and `ph_cmd` set the state of a slot
without a look at what it was, and would make a busy server forget its work; they
do not, because a worker says VERSION and a client its command once, first of
all, before anything is said to it, and a reused slot has nothing left of its
predecessor on its connection. `UnfinishedIsDue`: a pixel that is black in its file, or
torn when remrt is not started again, is due, and its frame is on the list. For the refinement each move
is shown to be a step of RenderFarm, or to leave its state alone; `Assign`
needs `Sound` *after* the step, since what is cut off waits no longer only if it
was on the list once. TLC finds `OpeningInv` violated by the commands
and failures that the hypothesis excludes, so that it is not idle.

**RemrtProofs: the protocol.** `RepliesAreExpected`, `AssignmentsAreUnderWay`, `ViewsAreRight`
and `DroppedSlotsAreReclaimed`. They rest on `InStep`, the phases of the conversation that
remrt.c and rtsrv.c have no table of: for each state of a `servers[]` entry, what may be at once in the
libpkg buffer, on the wire, in the worker's receive queue and on its WorkHead. In
DOING_GETTREES, say, either MATRIX and GETTREES are still to be acted on, in that order, wherever they are,
or the view is there and GETTREES is not, or the only thing on the way is GETTREES_REPLY, or the
worker is gone and all is silent. What an action does to a slot is then a step from one line of this
table to another, and the sequences never hold more than two messages, for any number of slots and frames. It is inductive
only for a dispatcher that may give up a server in any state, so that CLOSING is described
by what can no longer come: nothing that *opens* (`Settled`), unless nothing has been said at all (`Greeting`).
`FarmInv` is it with the types and `Selected` (what `select` found readable is still a connection
when `pkg_suckin` comes to it), and holds without any hypothesis.

* `AssignmentsAreUnderWay` has no hypothesis either: not even commands or failing sends make a live READY
  server's assignment be under way twice, or not at all.
* `RepliesAreExpected` excludes the command restart: `send_restart` leaves a server in RESTART,
  a state no handler expects anything in, and the answer to what it was doing may come still.
* `ViewsAreRight` needs trees with every frame (`NeedTree = Frames`); otherwise it is false (section 6).
  `InStep` has to know that the grid of a worker at work is that of the frame it is at (`Matches`).
* `DroppedSlotsAreReclaimed` allows the commands stop and go only. A slot dropped by command while its VERSION is under way
  comes back to life (section 6), and one to which RESTART could not be sent is no longer polled, and
  stays in RESTART. Two further invariants: `Unheard`,
  that a slot no longer polled is `Settled`, and `Sweep`, without which `Unheard` would not survive `suckin`: when
  the end of a connection is read there is nothing left of it in its buffer, since the
  first step of `check_input` has emptied all of them and `select` names no connection that is neither
  readable nor closed.

Assumptions: `SizesAssumption` (sizes are positive naturals, `Prior` is a set
of pixels for each frame) and `CommandsAssumption`. That the scan of any set of pixels
yields spans of the frame, in order and apart, that contain the pixels not seen
is the lemma `ScanOfFrame`, from the proofs of the scan.

**PixelSpansProofs and PixelScanProofs.** `ScanLeavesTheBlackPixels` says what the scan of any
frame leaves; `WorkIsBlack`, `EverySpanIsSendable` and `LoopComputesScanFrame` what the
loop has on its list at each step, and at the end. The library's induction theorems
cannot be used, so a claim about the recursive function `TodoWhenRead` is proved by the *least*
number of pixels read at which it would fail (`MinOfNaturals`). The claim is `ReadTo`: the
spans are in order, their pixels are those of the frame without the runs that have ended, and
(`RunAhead`) the run that is being read, with all that follows, is in the last span, which
reaches to the end of the frame. That is why `list_remove`, which changes only the first span it meets,
is enough: a run never meets more than one. `RemoveProperties` has its four cases.
PixelScan reads a run in one step; `InStep` says that no run ends in between. Its theorems have the
hypothesis `NoExcess`: the file is not longer than its frame. Otherwise `SpansAreSendable`
is false (section 6).

**RtWorkerProofs.** `ComputedOnce`, `ComputedAll` and `ImplementsPixelRun`:
each pixel of a run is computed once, and RtWorker implements PixelRun, for
any number of threads, any image and any runs. All have the hypothesis `Sized`:
a chunk is there before the threads start, the program's own or, in SCANLINE mode, the line
that `view_2init` makes it, and top-down runs begin at 0; without it the theorems are
false (section 6). The argument counts positions instead of
pixels, so that it reads the same for both directions. The invariant: chunks
that threads hold end at or below `cur_pixel` and are apart (`InChunk`, `Apart`);
what was computed was taken and is not pending (`Sound`); what was taken is computed
or pending (`Complete`); a thread has returned only if the counter has passed the end
(`Passed`). `Sound` and `Complete` need each other: a pixel leaves one as it
enters the other.

`OneThreadPerLine` and `OutputComplete` follow a computed pixel to its scanline, in all five
buffer modes. `Past(stages)` are the pixels that have left some stages of `view_pixel`; `sl_left` is
the number of a line's pixels that are not past being counted (`Counts`), its buffer holds
those that are past being stored until it is written (`Buffers`), and the image has the lines that are full
and written (`Images`). The thread that counts the last pixel is the only one that writes the line
(`Ends`), since a thread that still has a pixel to count keeps the count above 0. DYNAMIC mode needs no more. Where the
count is read and written without the semaphore, SCANLINE and ACC, the count that was read must still be the
count (`Fresh`), which needs a line for each thread: chunks stand at boundaries of lines
(`Aligned`), and pixels on two sides of a boundary are on different lines. Hence the second
hypothesis, `WholeChunks`: in these two modes runs begin at a line, and the chunks of
`full_incr_mode` are whole lines. Section 6 says what happens otherwise.

**TienetMasterProofs.** For every set of slaves, size of the ring, number of tiles and script. The
invariant is built in layers, of which each rests on those before it.

* `Flow`: types; mutual exclusion in `tienet_master_send_work`; and the ring, `Ring`: what is between
  `pos_read` and `pos_fill` is what was pushed and not taken, counting the unit
  that a thread has been granted and not yet read (`Taking`). `BufferHolds` follows.
* `Service`: a slave has no unit, or one, which is the one in its socket's `work`; it is
  idle, or looked after by a thread, only when that one is back. It needs that `net` wakes nobody while
  units are being sent (`Quiet`). `Cover`: what has left the ring is
  in some socket's `work`, or its result has come. A dead slave's is pushed again before
  its `work` is cleared, and its socket is on the dead list only when nothing is left to come
  (`Buried`, `Open`). `NothingIsLost` follows, under `OneWaker`, without which it is false (section 6).
* `Alone`, when nobody dies: a request is answered when all its units are back
  (`Order`, `Turn`, `Counts`), so that when `net` wakes slaves, for a shot line that is back, nothing
  is out and nothing waits: `AloneIsQuiet`, which discharges `Quiet` above. A unit that has left the
  ring is in one place (`OnceOnly`). `OneSlaveEach`, `OutCounted` and `FramesAreWhole` follow.
* `Awake` and `Told`: a slave in the list that is not idle has a unit, or a thread is at it; a
  broadcast waits for a slave only while a thread is on its way there. The second is needed for the first:
  a thread that has come to give a slave work, and finds a broadcast, sends that and leaves the
  slave as it was. `NoneForgotten` follows.

Assumptions: `SlavesAssumption` (finitely many), `NoneAssumption`, `SetupAssumption`. `net` is not
assumed to be fair, or a slave to answer: these are theorems of `Spec`.

**Db5AllocProofs: the free map.** Lemmas about MemMap, for any finite map and any extent:
the neighbours exist and are the nearest (`PrevExists`, `CurrExists`,
`Neighbours`); what is merged covers the extent and its neighbours, and nothing
else (`Merged`); `rt_memfree` keeps the extents apart (`FreeKeepsApart`) and out
of everything that was clear of them (`FreeKeepsClear`). No finiteness is
assumed where the well-foundedness of the naturals is enough (`Least`,
`Greatest`).

**Db5AllocProofs: storage.** `TypeCorrect`, `FreeStorageApart` and `StoredOnce`, through
any number of puts, deletes, failed writes, crashes and scans. `NothingTwice` says what
holds when an operation begins; the invariant has to say what holds in the
middle of one, where the directory entry itself is used as the address of what is
being erased. `Stage` says, for each `pc`, which storage the entry stands for and
which the operation holds besides; `Layout` says that the claims of all entries,
so understood, are apart from each other and from the free map, and
below the end of the file. `ScanObject` keeps it whatever the scan finds,
since it only goes forward. Assumption: `ConstantsAssumption`.

**Db5AllocProofs: the file.** `NoStorageLost`, `ObjectsReadBack` and `ReadOnlyForAReason`
(`NothingLeaked`, `ReadsBack`, `StaysReadable`), for any names, lengths, versions, file size
and number of crashes. They need to know what every unit of the file holds, also in the middle
of an operation and after a crash in it. `Tiled` says that there is a set of *marks*, the
addresses at which a scan may look for a header:

* When nothing has been cut short, the object on a mark ends where the next mark is, or at the
  end of the file (`AllChained`). While an operation divides storage there may be junk on the
  marks within it (`RegionLo`, `RegionHi`, `Inside`): half an object shortened, the old headers
  inside of a large free object, of which only the two ends are written.
* Such junk stays when the program is killed, or a write fails, and what is then true of the
  marks is less (`Loose`): a scan still goes from mark to mark, or finds an object beyond the
  end of the file and stops, and misses no object with a name. Hence each name is on one
  mark (`Unique`), where what was last put under it is (`Kept`), and a scan finds it or finds
  the file corrupt.
* The directory and the map say of the marks what the file says (`Match`): of all of them
  between operations, of those outside the region during one, of those before `pos` during a scan.
* When the scan meets junk whose end is a mark, it takes it for free storage. The marks
  within are dropped (`ScanObjectTiles`).

The marks are not in the state, and no constant bounds them; each step's lemma names those
after it. `Rewritten` has what a whole object does to them, `HoleWritten` what
the first part of a division does, `CutShort` any part of a write. The theorem `NoStorageLost` is that
between operations every unit lies between a mark and the end of its object (`Cover`), and so
in what the directory or the map has. A crash between the two writes that shorten an
object is outside (`Misread`): what the header at its old place says reaches over the rest and
perhaps, later, over another object, so that a scan misses that one. Assumptions:
`ConstantsAssumption`, and `NoneAssumption`, that `None` is no header and no content. The
invariant was model-checked before it was proved, with two crashes in five units and one in
seven.

**MappedFileProofs.** `NoPointerDangles`, `UsesAreUsers`, `DatabaseIsShared`,
`BitmapIsConvertedOnce` and `EntryIsFresh` (an action property): all that the run
checks, with `TypeOK`, for any number of threads, versions, mapped files and databases.
They have the hypothesis `Serial`, the discipline of section 2: operations on
databases one at a time, and nothing beside one that reclaims. `mapped_free`, and section 6,
show what happens otherwise. The invariant `IInv` says by where a thread is what it holds
(`Place`); that what it holds is there and has the tag it asked for, or has been marked
invalid (`Pointers`); that a database and its file point to each other, except while
it is being closed (`Links`); that a count of uses is the number of threads with the file, by
themselves or after the database has given its use back, of databases read
from it, and of imports that failed on it (`Counts`); and that an entry such an import has
left behind is of a version too short, tagged "ebm" or invalid, with no database in it and no
user of another tag (`Strays`): without that, an entry left behind could be taken for the one a
database is being closed on, which would then not be freed. At most one entry answers to "db_i" because one is made only by a
thread that has looked and found none, and no other thread is at a database meanwhile
(`Entries`). A step of reclaiming frees what `Counts` says nobody has.

## 8. What is only model-checked, and what is abstracted

Only model-checked, on the instances of section 4: liveness (fairness and
ENABLED are out of the provers' reach); and, where a theorem has a hypothesis, what holds
without it. Every safety property, action property and refinement of a run that passes is a
theorem of section 7; the liveness properties are `AllFramesDone`, `RunsEnd` and `Served`.

Abstractions of Remrt:

* MSG_LOGLVL, MSG_CD and MSG_DIRBUILD are one message, sent or failed
  together. A MSG_CD that fails would be followed by a DIRBUILD that fails.
* The size of an assignment, which the code computes from the measured speed of
  a server, is any member of `Lumps`.
* `call` stands for `start_servers` and the host table; which host it is, its
  hours and its start command are left out. So are passive hosts.
* Time is one bit, `late`: the interval has gone by since the assignment was
  sent. A slow worker's bit is set by a fault, a hung worker's in the end.
* A connection's buffers are unbounded; a package arrives whole. A crash loses
  all that is on the wire or nothing of it.
* `file` holds for each pixel the frame whose view it shows. Colours are left
  out, except black and the half-written.
* A finished frame's file is write-protected and thus skipped by a later scan;
  a frame unfinished is scanned again, since the file exists and is writable.
* The disk keeps what `write` has taken when the machine of remrt fails. The
  code does not call fsync, and a machine that fails may lose more; then the scan
  finds the pixels black again, which is the safe side.
* Output without `-o` (a temporary file, shown on a frame buffer) is left out,
  as are the display of pixels and the commands run after a frame.
* The interactive mode, in which an operator at the terminal loads scripts, and
  the commands load, movie, reset, wait and restart-all are left out (section 9).

Abstractions of RtWorker:

* What a ray returns is left out; `image` is the set of the pixels that the output
  shows. `stop_worker` is left out: nothing ever sets it.
* The modes INCR and FULLFLOAT, `random_mode` and sub-grids, which choose the pixel
  in other ways, are not modelled.
* Reads and writes of shared integers are atomic. `bu_parallel` is the first and the
  last step of a run.

Abstractions of TienetMaster:

* One observer, whose requests are a script. The handshake of a slave (version,
  key) is part of `Accept`.
* A semaphore operation is atomic, and there are no spurious wake-ups.
* A result arrives whole. A slave that dies loses what it has sent, or not.
* Taking a socket off the dead list is one step.

Abstractions of Db5Alloc:

* Addresses and lengths are in units of 8 bytes; what is on disk is whole units,
  of which a crash leaves any prefix of a write.
* Only files on disk, version 5, read through `fread`; the fast path of the scan over
  a mapped file is left out, as are version 4 and databases in memory.
* A crash loses no write that has returned. Writes of other programs to the same file
  are left out.
* A second object with a name that is taken gets a temporary name in the code, which
  the model does not follow.
* `Delete` is what callers of `db_delete` do, who look at `dbi_read_only` first;
  `db_delete` itself does not (db5_realloc does, 143).
* Bytes that are no header are either no object at all (`ScanFatal`) or begin
  with a length of zero (`ScanShort`).

Abstractions of MappedFile:

* One file. Names are compared the way tags are, so that the second file would be
  another tag. What is in the file is its version, which is what `st_size` and `st_mtime`
  tell apart; a change that leaves both alone goes unnoticed, as in the code.
* A thread has one file open at a time, and gives back what it has opened unless it is an
  `ebm` that finds the file too short.
* All `ebm`s of the file have the same `xdim` and `ydim`, so that a version of it is too
  short for all of them or for none.
* Reading a file that cannot be mapped is part of `MapFile`. A mapping shows a file as
  it was; in truth a change in place shows through.
* Of the users of `apbuf` only `ebm` and `db_open` are modelled; `hf` and `dsp` are in section 6.
* In `MappedFile` `fopen` does not fail after the file could be mapped (section 6).
* `db_open` for writing does not use the table. `db_close` of a database with clones
  (`db_clone_dbi` counts a use and nothing else) is the same as with several users.

## 9. Not modelled, and why

The repository has millions of lines, of which the greatest part is vendored,
generated, or floating-point geometry, one pass from input to output, or window
systems: nothing that an explicit-state checker or a prover for set theory could
say much about. What is modelled is what keeps state over time under
concurrency or failure. Within that, these are left out:

* **Frame buffer pages** (`src/src/libfb/fb_paged_io.c`): one page and a dirty
  flag, sequential. What could go wrong is the flag kept after a page has been
  written out (209).
* **libpkg's output stream** (`pkg_stream`, `pkg_flush`): rtsrv and remrt do not use
  it. A full output buffer is flushed and the result ignored (pkg.c:1234). Blocking
  writes in both directions (984) need bounded connections, which would multiply
  the states of Remrt.
* **remrt's hosts** (`ihost.c`, `start_servers`): hours, start commands, passive hosts.
  A host whose slot never closes counts as already serving (2785). `select` is asked
  for 32 descriptors only (649).
* **remrt's interactive commands**: reset destroys frames whose assignments are out
  (2300), wait calls `check_input` from within a handler (2540), load and movie
  misread the result of `read_matrix` (878). Remrt's frames are there from the
  start, and its event loop does not recurse.
* **rtsrv's scan line buffer**: an assignment longer than it is answered in part, upon
  which remrt drops the worker (rtsrv.c:744); the model's assignments fit.
* **`bu_parallel` and semaphores** (`src/src/libbu/parallel.c`, `semaphore.c`): first-use
  initialisation and thread numbers; they are the first and last step of a run in
  RtWorker, and atomic.
* **Version 4 databases**, which use `rt_memalloc`, and `rt_mempurge`.

No safety property of a passing run is left without a theorem. What could be proved further is
what holds without a theorem's hypothesis: the mapped files without `Serial`, for the
operations that are safe beside each other; the ADRT master's frames when slaves die.

## 10. Running it

In this directory, with the TLA+ tools and the community modules:

```
tlc -workers 2 -config RemrtCrash.cfg MCRemrt.tla
tlc -workers 2 -config PixelScan.cfg PixelScan.tla
tlc -workers 2 -config RtWorker.cfg MCRtWorker.tla
tlc -workers 2 -config TienetMaster.cfg MCTienetMaster.tla
tlc -workers 2 -config Db5Alloc.cfg MCDb5Alloc.tla
tlc -workers 2 -config MappedFile.cfg MCMappedFile.tla
tlapm RenderFarmProofs.tla
tlapm RemrtProofs.tla
tlapm PixelScanProofs.tla
tlapm RtWorkerProofs.tla
tlapm TienetMasterProofs.tla
tlapm Db5AllocProofs.tla
tlapm MappedFileProofs.tla
```

`PROJECT.json` lists the runs with their properties, for each property a
mistake that violates it, for each definition the lines it models, the hazards
of the code with the properties that cover them, the findings and the theorems.
