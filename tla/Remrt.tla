-------------------------------- MODULE Remrt --------------------------------
(***************************************************************************)
(* remrt, the dispatcher of the network-distributed ray-tracer, with the   *)
(* workers (rtsrv) it drives: src/src/remrt/remrt.c and rtsrv.c, over the  *)
(* connections of src/src/libpkg/pkg.c.                                    *)
(*                                                                         *)
(* The dispatcher is one thread that goes round                            *)
(*   check_input: pc = "first", "select", "suck", "fifth"                  *)
(*   schedule:    pc = "sched", "reap", "assign"                           *)
(* until no frame is left ("exit").  An action is one handler call, one    *)
(* suckin, one task_server call; workers, failures and one-shot commands   *)
(* come between any two.  Modelled is the automatic remrt (do_work(1)):    *)
(* the script has been read and work goes on without a terminal.           *)
(***************************************************************************)
EXTENDS PixelSpans

CONSTANTS
    NSlots,         \* slots of servers[], in the order of their descriptors
    NFrames,        \* frames of the script, numbered in the order of the list
    NPixels,        \* fr_width * fr_height
    Prior,          \* Prior[f]: pixels an earlier run left in the file of f
    NeedTree,       \* frames whose script has a "clean" or "tree" command
    Lumps,          \* assignment sizes the speed of a server may give
    MaxHosts,       \* hosts that start a worker; each has one at a time
    FailingSends,   \* messages whose sending may find the connection broken
    Faults,         \* "crash", "hang", "slow", "open", "write", "version",
                    \* "remrt"
    MaxFaults,      \* bound on the faults of a behaviour
    Commands,       \* what one-shot clients may ask for (MSG_CMD)
    MaxCommands     \* bound on the one-shot clients of a behaviour

Slots == 1 .. NSlots
Frames == 1 .. NFrames
Pixels == 0 .. NPixels - 1

(* An assignment; frame 0 is none (an empty sr_work, FRAME_NULL).          *)
NoWork == [frame |-> 0, lo |-> 0, hi |-> 0]

Torn == NFrames + 1

ASSUME SizesAssumption ==
    /\ NSlots \in Nat \ {0} /\ NFrames \in Nat \ {0} /\ NPixels \in Nat \ {0}
    /\ Lumps \in SUBSET (Nat \ {0})
    /\ NeedTree \subseteq Frames
    /\ Prior \in [Frames -> SUBSET Pixels]
    /\ MaxHosts \in Nat /\ MaxFaults \in Nat /\ MaxCommands \in Nat

ASSUME CommandsAssumption ==
    Commands \subseteq [cmd : {"stop", "go"}, slot : {0}]
                  \cup [cmd : {"drop", "restart"}, slot : Slots]

VARIABLES
    \* the dispatcher's memory
    srv,            \* servers[]
    todo,           \* fr_todo of each frame
    frames,         \* the frames on the list FrameHead
    running,
    method,         \* work_allocate_method: 2 movie, 1 load, 0 frame
    \* its disk: which frame's view a pixel shows, 0 when it is black, Torn
    \* when only some of its three bytes have been written
    file,
    \* where it is in its loop
    pc, sp, ifdset, fr, another_pass, nxt_frame,
    \* connections: towards the dispatcher on the net, then in its libpkg
    \* buffer; towards the worker; and the processes at the other end
    wire, buf, out, peer,
    \* connection requests not accepted, faults and commands still to come
    backlog, faults, commands

memory == <<srv, todo, frames, running, method, file>>
loop == <<pc, sp, ifdset, fr, another_pass, nxt_frame>>
net == <<wire, buf, out, peer>>
environment == <<backlog, faults, commands>>
vars == <<memory, loop, net, environment>>

-----------------------------------------------------------------------------
(* Types.                                                                  *)

States == {"UNUSED", "NEW", "VERSOK", "DOING_DIRBUILD", "NEED_TREE",
           "READY", "RESTART", "CLOSING", "DOING_GETTREES"}

Work == [frame : Frames, lo : Pixels, hi : Pixels] \cup {NoWork}

Server == [state : States, polled : BOOLEAN, cur : 0 .. NFrames,
           work : Work, late : BOOLEAN]

(* polled: the descriptor's bit in the set clients.  cur: sr_curframe.     *)
(* late: TARDY_SERVER_INTERVAL has gone by since sr_sendtime.              *)
Unused == [state |-> "UNUSED", polled |-> FALSE, cur |-> 0,
           work |-> NoWork, late |-> FALSE]

(* Orders to a worker; those of the second kind wait on its WorkHead.      *)
Queued == [type : {"GETTREES"}]
          \cup [type : {"MATRIX"}, frame : Frames]
          \cup [type : {"LINES"}, work : Work]

Order == [type : {"DIRBUILD", "RESTART"}] \cup Queued

Report == [type : {"DIRBUILD_REPLY", "GETTREES_REPLY"}]
          \cup [type : {"VERSION"}, same : BOOLEAN]
          \cup [type : {"PIXELS"}, work : Work, view : Frames]
          \cup [type : {"CMD"}, command : Commands]

(* Definitions called Bug... are mistakes the runs are shown to find; they  *)
(* are not part of the specification.                                      *)

(* The process at the other end: view is the frame of the last MATRIX,     *)
(* grid the one prepare() has set the ray grid up for.                     *)
Peer == [link : {"none", "open", "shut"}, job : {"render", "command"},
         started : BOOLEAN, hung : BOOLEAN, dirbuilt : BOOLEAN,
         view : 0 .. NFrames, grid : 0 .. NFrames, queue : Seq(Queued)]

NewPeer(job) == [link |-> "open", job |-> job, started |-> FALSE,
                 hung |-> FALSE, dirbuilt |-> FALSE, view |-> 0, grid |-> 0,
                 queue |-> <<>>]
NoPeer == [NewPeer("render") EXCEPT !.link = "none"]
Gone(p) == [NewPeer(p.job) EXCEPT !.link = "shut"]

SpanOfFrame == [lo : Pixels, hi : Pixels]

MemoryTypeOK ==
    /\ srv \in [Slots -> Server]
    /\ todo \in [Frames -> Seq(SpanOfFrame)]
    /\ frames \subseteq Frames
    /\ running \in BOOLEAN
    /\ method \in 0 .. 2
    /\ file \in [Frames -> [Pixels -> 0 .. Torn]]

LoopTypeOK ==
    /\ pc \in {"first", "select", "suck", "fifth",
               "sched", "reap", "assign", "exit"}
    /\ sp \in 1 .. NSlots + 1
    /\ ifdset \subseteq Slots
    /\ fr \in 0 .. NFrames
    /\ another_pass \in BOOLEAN
    /\ nxt_frame \in 0 .. 2

NetTypeOK ==
    /\ wire \in [Slots -> Seq(Report)]
    /\ buf \in [Slots -> Seq(Report)]
    /\ out \in [Slots -> Seq(Order)]
    /\ peer \in [Slots -> Peer]

EnvironmentTypeOK ==
    /\ backlog \in {"none", "render", "command"}
    /\ faults \in 0 .. MaxFaults
    /\ commands \in 0 .. MaxCommands

(* Every variable of the dispatcher, the network and the workers keeps its *)
(* type: servers[] and the frame list (remrt.c), the libpkg buffers.       *)
TypeOK == MemoryTypeOK /\ LoopTypeOK /\ NetTypeOK /\ EnvironmentTypeOK

FrameList(seen) == ScanFrame(NPixels, seen)

Init ==
    /\ srv = [s \in Slots |-> Unused]
    /\ todo = [f \in Frames |-> FrameList(Prior[f])]
    /\ frames = Frames
    /\ running = TRUE
    /\ method = 2
    /\ file = [f \in Frames |-> [p \in Pixels |-> IF p \in Prior[f] THEN f ELSE 0]]
    /\ pc = "first" /\ sp = 1 /\ ifdset = {}
    /\ fr = 0 /\ another_pass = FALSE /\ nxt_frame = 0
    /\ wire = [s \in Slots |-> <<>>]
    /\ buf = [s \in Slots |-> <<>>]
    /\ out = [s \in Slots |-> <<>>]
    /\ peer = [s \in Slots |-> NoPeer]
    /\ backlog = "none" /\ faults = MaxFaults /\ commands = MaxCommands

-----------------------------------------------------------------------------
(* Servers and the messages sent to them.                                  *)

Occupied(s) == srv[s].state # "UNUSED"      \* sr_pc != PKC_NULL
Busy(v) == v.work.frame # 0
Holds(v) == v.state \in {"READY", "NEED_TREE"}

(* drop_server: only the work of a READY or NEED_TREE server goes back, to *)
(* the head of its frame's list.                                           *)
Dropped(v) == [v EXCEPT !.state = "CLOSING", !.cur = 0, !.polled = FALSE,
                        !.work = IF Holds(v) THEN NoWork ELSE @]

BugRequeued(td, v) ==   \* a NEED_TREE or READY server's work is just forgotten
    td
Requeued(td, v) ==
    IF Holds(v) /\ Busy(v)
    THEN [td EXCEPT ![v.work.frame] = <<Span(v.work.lo, v.work.hi)>> \o @]
    ELSE td

Drop(s) ==
    /\ srv' = [srv EXCEPT ![s] = Dropped(@)]
    /\ todo' = Requeued(todo, srv[s])

(* pkg_send: input that has arrived is first moved to the libpkg buffer;   *)
(* an open connection takes the message.  On a broken one the send may     *)
(* succeed all the same, or fail.                                          *)
Transmit(s, messages) ==
    /\ wire' = [wire EXCEPT ![s] = <<>>]
    /\ buf' = [buf EXCEPT ![s] = @ \o wire[s]]
    /\ out' = [out EXCEPT ![s] =
                  IF peer[s].link = "open" THEN @ \o messages ELSE @]

CanFail(s, type) == peer[s].link # "open" /\ type \in FailingSends

-----------------------------------------------------------------------------
(* check_input, first and fifth: every package in the libpkg buffers is    *)
(* handed to its handler, slot by slot.                                    *)

Buffered == {s \in Slots : s >= sp /\ buf[s] # <<>>}

Receiving(s, type) ==
    /\ pc \in {"first", "fifth"}
    /\ Buffered # {} /\ s = Min(Buffered)
    /\ Head(buf[s]).type = type
    /\ sp' = s
    /\ UNCHANGED <<pc, ifdset, fr, another_pass, nxt_frame>>

Consume(s) ==
    /\ buf' = [buf EXCEPT ![s] = Tail(@)]
    /\ UNCHANGED <<wire, out, peer, environment>>

(* The version of this remrt makes the state VERSOK, whatever it has been; *)
(* any other gets the server dropped.                                      *)
ph_version(s) ==
    /\ Receiving(s, "VERSION")
    /\ IF Head(buf[s]).same
       THEN srv' = [srv EXCEPT ![s].state = "VERSOK"] /\ UNCHANGED todo
       ELSE Drop(s)
    /\ Consume(s)
    /\ UNCHANGED <<frames, running, method, file>>

ph_dirbuild_reply(s) ==
    /\ Receiving(s, "DIRBUILD_REPLY")
    /\ IF srv[s].state = "DOING_DIRBUILD"
       THEN srv' = [srv EXCEPT ![s].state = "NEED_TREE"] /\ UNCHANGED todo
       ELSE Drop(s)
    /\ Consume(s)
    /\ UNCHANGED <<frames, running, method, file>>

ph_gettrees_reply(s) ==
    /\ Receiving(s, "GETTREES_REPLY")
    /\ IF srv[s].state = "DOING_GETTREES"
       THEN srv' = [srv EXCEPT ![s].state = "READY"] /\ UNCHANGED todo
       ELSE Drop(s)
    /\ Consume(s)
    /\ UNCHANGED <<frames, running, method, file>>

(* ph_pixels.  Pixels from a server that is not working are ignored; those *)
(* that are not the answer to its assignment get it dropped.  When the     *)
(* file cannot be opened this is reported and no more; when it cannot be   *)
(* written to the end, remrt stops and drops the server, so that the       *)
(* assignment is made again.                                               *)
Listening(v) == v.state \in {"READY", "NEED_TREE", "DOING_GETTREES"}

Painted(w, last, view) ==
    [file EXCEPT ![w.frame] =
        [p \in Pixels |-> IF p \in w.lo .. last THEN view ELSE @[p]]]

FilePixels(s, w, view) ==
    /\ file' = Painted(w, w.hi, view)
    /\ srv' = [srv EXCEPT ![s].work = NoWork, ![s].late = FALSE]
    /\ UNCHANGED <<todo, running>>

CannotOpen(s) ==
    /\ "open" \in Faults
    /\ srv' = [srv EXCEPT ![s].work = NoWork, ![s].late = FALSE]
    /\ UNCHANGED <<todo, running, file>>

(* The pixels up to last have been written, and a part of the next.        *)
Half(painted, w, last, part) ==
    [painted EXCEPT ![w.frame][last + 1] = IF @ = 0 THEN part ELSE @]

BugCannotWrite(s, w, view) ==   \* "Return, as if nothing had happened"
    /\ "write" \in Faults
    /\ \E last \in w.lo - 1 .. w.hi - 1, part \in {0, Torn} :
          file' = Half(Painted(w, last, view), w, last, part)
    /\ running' = FALSE
    /\ srv' = [srv EXCEPT ![s].work = NoWork]
    /\ UNCHANGED todo
CannotWrite(s, w, view) ==
    /\ "write" \in Faults
    /\ \E last \in w.lo - 1 .. w.hi - 1, part \in {0, Torn} :
          file' = Half(Painted(w, last, view), w, last, part)
    /\ running' = FALSE
    /\ Drop(s)

ph_pixels(s) ==
    /\ Receiving(s, "PIXELS")
    /\ LET w == srv[s].work
           m == Head(buf[s])
       IN  IF ~Listening(srv[s])
           THEN UNCHANGED <<srv, todo, running, file>>
           ELSE IF ~Busy(srv[s]) \/ m.work # w
           THEN Drop(s) /\ UNCHANGED <<running, file>>
           ELSE \/ FilePixels(s, w, m.view)
                \/ CannotOpen(s)
                \/ CannotWrite(s, w, m.view)
    /\ Consume(s)
    /\ UNCHANGED <<frames, method>>

(* ph_cmd: the command is run, then the one-shot connection dropped.  The  *)
(* descriptor named in a drop or restart may be in any state.              *)
cd_stop_go(s) ==
    /\ Receiving(s, "CMD")
    /\ Head(buf[s]).command.cmd \in {"stop", "go"}
    /\ running' = (Head(buf[s]).command.cmd = "go")
    /\ Drop(s)
    /\ Consume(s)
    /\ UNCHANGED <<frames, method, file>>

cd_drop(s) ==
    /\ Receiving(s, "CMD")
    /\ Head(buf[s]).command.cmd = "drop"
    /\ LET t == Head(buf[s]).command.slot
       IN  IF Occupied(t)
           THEN /\ srv' = [r \in Slots |-> IF r \in {s, t} THEN Dropped(srv[r])
                                                       ELSE srv[r]]
                /\ todo' = Requeued(todo, srv[t])
           ELSE Drop(s)
    /\ Consume(s)
    /\ UNCHANGED <<frames, running, method, file>>

(* send_restart makes the state RESTART even when the send has failed and  *)
(* the server been dropped.                                                *)
cd_restart(s) ==
    /\ Receiving(s, "CMD")
    /\ Head(buf[s]).command.cmd = "restart"
    /\ LET t == Head(buf[s]).command.slot
           After(v) == [[srv EXCEPT ![t] = [v EXCEPT !.state = "RESTART"]]
                            EXCEPT ![s] = Dropped(@)]
           LetGo == [buf EXCEPT ![s] = Tail(@)]
       IN  IF Occupied(t)
           THEN /\ \/ srv' = After(srv[t]) /\ UNCHANGED todo
                   \/ /\ CanFail(t, "RESTART")
                      /\ srv' = After(Dropped(srv[t]))
                      /\ todo' = Requeued(todo, srv[t])
                /\ wire' = [wire EXCEPT ![t] = <<>>]
                /\ buf' = [LetGo EXCEPT ![t] = @ \o wire[t]]
                /\ out' = [out EXCEPT ![t] = IF peer[t].link = "open"
                                             THEN Append(@, [type |-> "RESTART"])
                                             ELSE @]
                /\ UNCHANGED <<peer, environment>>
           ELSE Drop(s) /\ Consume(s)
    /\ UNCHANGED <<frames, running, method, file>>

Receive ==
    \E s \in Slots :
        \/ ph_version(s)
        \/ ph_dirbuild_reply(s)
        \/ ph_gettrees_reply(s)
        \/ ph_pixels(s)
        \/ cd_stop_go(s)
        \/ cd_drop(s)
        \/ cd_restart(s)

ReceivedAll ==
    /\ pc \in {"first", "fifth"} /\ Buffered = {}
    /\ pc' = IF pc = "first" THEN "select" ELSE "sched"
    /\ sp' = 1
    /\ UNCHANGED <<memory, ifdset, fr, another_pass, nxt_frame, net, environment>>

-----------------------------------------------------------------------------
(* check_input, second to fourth.                                          *)

Free == {s \in Slots : ~Occupied(s)}

Readable == {s \in Slots : srv[s].polled /\ (wire[s] # <<>> \/ peer[s].link = "shut")}

(* select() and accept(): a waiting connection gets the lowest descriptor  *)
(* that is free (addclient); call leaves one.  With nothing to read the    *)
(* pass is over.                                                           *)
select ==
    /\ pc = "select"
    /\ ifdset' = Readable
    /\ pc' = IF Readable = {} /\ backlog = "none" THEN "sched" ELSE "suck"
    /\ IF backlog # "none" /\ Free # {}
       THEN LET s == Min(Free)
            IN  /\ srv' = [srv EXCEPT ![s] = [Unused EXCEPT !.state = "NEW",
                                                           !.polled = TRUE]]
                /\ peer' = [peer EXCEPT ![s] = NewPeer(backlog)]
                /\ backlog' = "none"
       ELSE UNCHANGED <<srv, peer, backlog>>
    /\ UNCHANGED <<todo, frames, running, method, file, sp, fr, another_pass,
                   nxt_frame, wire, buf, out, faults, commands>>

(* pkg_suckin of the next ready descriptor: what has arrived is moved to   *)
(* the libpkg buffer; end of file drops the server.                        *)
suckin(s) ==
    /\ pc = "suck" /\ ifdset # {} /\ s = Min(ifdset)
    /\ ifdset' = ifdset \ {s}
    /\ IF wire[s] # <<>>
       THEN /\ buf' = [buf EXCEPT ![s] = @ \o wire[s]]
            /\ wire' = [wire EXCEPT ![s] = <<>>]
            /\ UNCHANGED <<srv, todo>>
       ELSE Drop(s) /\ UNCHANGED <<buf, wire>>
    /\ UNCHANGED <<frames, running, method, file, pc, sp, fr, another_pass,
                   nxt_frame, out, peer, environment>>

SuckedAll ==
    /\ pc = "suck" /\ ifdset = {}
    /\ pc' = "fifth" /\ sp' = 1
    /\ UNCHANGED <<memory, ifdset, fr, another_pass, nxt_frame, net, environment>>

-----------------------------------------------------------------------------
(* schedule: first every slot in VERSOK or CLOSING.                        *)

Attended == {s \in Slots : s >= sp /\ srv[s].state \in {"VERSOK", "CLOSING"}}

Attending(s) ==
    /\ pc = "sched" /\ Attended # {} /\ s = Min(Attended)
    /\ sp' = s + 1
    /\ UNCHANGED <<frames, running, method, file, pc, ifdset, fr, another_pass,
                   nxt_frame, environment>>

BugSendDirbuild(s) ==   \* the return after the failed send left out
    /\ Attending(s)
    /\ srv[s].state = "VERSOK"
    /\ \/ srv' = [srv EXCEPT ![s].state = "DOING_DIRBUILD"]
       \/ /\ CanFail(s, "DIRBUILD")
          /\ srv' = [srv EXCEPT ![s] = [Dropped(@) EXCEPT !.state = "DOING_DIRBUILD"]]
    /\ Transmit(s, <<[type |-> "DIRBUILD"]>>)
    /\ UNCHANGED <<todo, peer>>

BugSendAgain(s) ==      \* the state change left out
    /\ Attending(s)
    /\ srv[s].state = "VERSOK"
    /\ Transmit(s, <<[type |-> "DIRBUILD"]>>)
    /\ UNCHANGED <<srv, todo, peer>>

(* send_loglvl, MSG_CD and MSG_DIRBUILD: the three messages as one.        *)
send_dirbuild(s) ==
    /\ Attending(s)
    /\ srv[s].state = "VERSOK"
    /\ \/ srv' = [srv EXCEPT ![s].state = "DOING_DIRBUILD"] /\ UNCHANGED todo
       \/ CanFail(s, "DIRBUILD") /\ Drop(s)
    /\ Transmit(s, <<[type |-> "DIRBUILD"]>>)
    /\ UNCHANGED peer

BugFinalClose(s) ==     \* the buffer is left to the next connection
    /\ Attending(s)
    /\ srv[s].state = "CLOSING"
    /\ srv' = [srv EXCEPT ![s] = Unused]
    /\ out' = [out EXCEPT ![s] = <<>>]
    /\ peer' = [peer EXCEPT ![s] = NoPeer]
    /\ UNCHANGED <<todo, wire, buf>>

(* The final close: what is still in the buffers of the connection, and on *)
(* sr_work, is forgotten.                                                  *)
final_close(s) ==
    /\ Attending(s)
    /\ srv[s].state = "CLOSING"
    /\ srv' = [srv EXCEPT ![s] = Unused]
    /\ wire' = [wire EXCEPT ![s] = <<>>]
    /\ buf' = [buf EXCEPT ![s] = <<>>]
    /\ out' = [out EXCEPT ![s] = <<>>]
    /\ peer' = [peer EXCEPT ![s] = NoPeer]
    /\ UNCHANGED todo

AttendedAll ==
    /\ pc = "sched" /\ Attended = {}
    /\ pc' = "reap" /\ sp' = 1
    /\ UNCHANGED <<memory, ifdset, fr, another_pass, nxt_frame, net, environment>>

BugThisFrameDone(f) == todo[f] = <<>>       \* sr_work is not looked at

(* Then the finished frames: nothing to assign, and on no sr_work.         *)
ThisFrameDone(f) ==
    /\ todo[f] = <<>>
    /\ \A s \in Slots : srv[s].work.frame # f

DoneFrames == {f \in frames : ThisFrameDone(f)}

(* frame_is_done: the file is write-protected and the frame destroyed; the *)
(* servers that were on it are free for another.                           *)
frame_is_done ==
    /\ pc = "reap" /\ DoneFrames # {}
    /\ LET f == Min(DoneFrames)
       IN  /\ frames' = frames \ {f}
           /\ srv' = [s \in Slots |-> IF srv[s].cur = f THEN [srv[s] EXCEPT !.cur = 0]
                                                        ELSE srv[s]]
    /\ UNCHANGED <<todo, running, method, file, loop, net, environment>>

Leave == pc' = IF frames = {} THEN "exit" ELSE "first"

AtRest == sp' = 1 /\ fr' = 0 /\ another_pass' = FALSE /\ nxt_frame' = 0

BugAllDone ==           \* all_servers_idle is not asked
    \A f \in frames : todo[f] = <<>>

(* all_done looks at the work of READY and NEED_TREE servers only.         *)
AllDone ==
    /\ \A f \in frames : todo[f] = <<>>
    /\ \A s \in Slots : ~(Holds(srv[s]) /\ Busy(srv[s]))

ReapedAll ==
    /\ pc = "reap" /\ DoneFrames = {}
    /\ running' = (running /\ ~AllDone)
    /\ IF running /\ ~AllDone
       THEN /\ pc' = "assign" /\ fr' = Min(frames)
            /\ UNCHANGED <<sp, another_pass, nxt_frame>>
       ELSE Leave /\ AtRest
    /\ UNCHANGED <<srv, todo, frames, method, file, ifdset, net, environment>>

-----------------------------------------------------------------------------
(* schedule: assign work, frame by frame, in passes over the servers.      *)

Later == {f \in frames : f > fr}

(* The end of the passes over frame fr, for the given nxt_frame: on to the *)
(* next frame, or, behind the last, round again with the next allocation   *)
(* method if every frame so far is reserved to a server.                   *)
Advance(nxt) ==
    IF Later # {}
    THEN /\ fr' = Min(Later) /\ sp' = 1
         /\ another_pass' = FALSE /\ nxt_frame' = 0
         /\ UNCHANGED <<pc, method>>
    ELSE IF nxt = 1 /\ method > 0
    THEN /\ method' = method - 1
         /\ fr' = Min(frames) /\ sp' = 1
         /\ another_pass' = FALSE /\ nxt_frame' = 0
         /\ UNCHANGED pc
    ELSE Leave /\ AtRest /\ UNCHANGED method

PassBegins == sp = 1

(* task_server returns at once, with 0, for the others.                    *)
Hungry == {s \in Slots : s >= sp /\ Holds(srv[s]) /\ (Busy(srv[s]) => srv[s].late)}

NothingWaits ==
    /\ pc = "assign" /\ PassBegins /\ todo[fr] = <<>>
    /\ Advance(0)
    /\ UNCHANGED <<srv, todo, frames, running, file, ifdset, net, environment>>

PassEnds ==
    /\ pc = "assign" /\ ~(PassBegins /\ todo[fr] = <<>>) /\ Hungry = {}
    /\ IF nxt_frame = 0 /\ another_pass
       THEN /\ sp' = 1 /\ another_pass' = FALSE
            /\ UNCHANGED <<pc, fr, nxt_frame, method>>
       ELSE Advance(nxt_frame)
    /\ UNCHANGED <<srv, todo, frames, running, file, ifdset, net, environment>>

(* One task_server call: for the servers in turn.  Returns says what the   *)
(* loop makes of the result.                                               *)
Tasking(s) ==
    /\ pc = "assign" /\ ~(PassBegins /\ todo[fr] = <<>>)
    /\ Hungry # {} /\ s = Min(Hungry)
    /\ UNCHANGED <<frames, running, file, ifdset, peer, environment>>

Returns(s, ret) ==
    IF ret = 2 THEN Advance(1)
    ELSE /\ sp' = s + 1
         /\ another_pass' = (another_pass \/ ret = 1)
         /\ nxt_frame' = IF ret = 3 THEN 2 ELSE nxt_frame
         /\ UNCHANGED <<pc, fr, method>>

task_tardy(s) ==
    /\ Tasking(s)
    /\ Busy(srv[s]) /\ srv[s].late
    /\ Drop(s)
    /\ Returns(s, 0)
    /\ UNCHANGED <<wire, buf, out>>

task_none_left(s) ==
    /\ Tasking(s)
    /\ ~Busy(srv[s]) /\ todo[fr] = <<>>
    /\ Returns(s, 1)
    /\ UNCHANGED <<srv, todo, wire, buf, out>>

Wants(s) == Tasking(s) /\ ~Busy(srv[s]) /\ todo[fr] # <<>>

(* The server is still on another frame.                                   *)
task_other_frame(s) ==
    /\ Wants(s)
    /\ srv[s].cur \notin {0, fr}
    /\ Returns(s, 3)
    /\ UNCHANGED <<srv, todo, wire, buf, out>>

(* The frame is another server's, or, with load averaging, nobody's.       *)
Reserved == method = 1 \/ (method = 2 /\ \E t \in Slots : srv[t].cur = fr)

task_reserved(s) ==
    /\ Wants(s)
    /\ srv[s].cur = 0 /\ Reserved
    /\ Returns(s, 2)
    /\ UNCHANGED <<srv, todo, wire, buf, out>>

MATRIX == [type |-> "MATRIX", frame |-> fr]
BugNeedsTrees(s) ==     \* fr_needgettree is not looked at
    srv[s].state = "NEED_TREE"
NeedsTrees(s) == fr \in NeedTree \/ srv[s].state = "NEED_TREE"

(* A new frame for the server, and the geometry with it: work comes later. *)
task_gettrees(s) ==
    /\ Wants(s)
    /\ srv[s].cur = 0 /\ ~Reserved /\ NeedsTrees(s)
    /\ \/ /\ srv' = [srv EXCEPT ![s].cur = fr, ![s].state = "DOING_GETTREES"]
          /\ UNCHANGED todo
       \/ CanFail(s, "MATRIX") /\ fr \in NeedTree /\ Drop(s)
       \/ CanFail(s, "GETTREES") /\ Drop(s)
    /\ Transmit(s, <<MATRIX, [type |-> "GETTREES"]>>)
    /\ Returns(s, 1)

(* An assignment is cut from the head of the list.                         *)
Portion(lump) ==
    LET first == Head(todo[fr])
    IN  [frame |-> fr, lo |-> first.lo,
         hi |-> IF first.lo + lump - 1 >= first.hi THEN first.hi
                                                   ELSE first.lo + lump - 1]

BugWithout(w) ==        \* li_start = b instead of b + 1
    [todo EXCEPT ![fr] = IF w.hi = Head(@).hi THEN Tail(@)
                         ELSE <<Span(w.hi, Head(@).hi)>> \o Tail(@)]
Without(w) ==
    [todo EXCEPT ![fr] = IF w.hi = Head(@).hi THEN Tail(@)
                         ELSE <<Span(w.hi + 1, Head(@).hi)>> \o Tail(@)]

BugTaskLines(s) ==      \* the lines wait until the view has been sent once
    /\ Wants(s)
    /\ srv[s].cur = fr \/ (srv[s].cur = 0 /\ ~Reserved /\ ~NeedsTrees(s))
    /\ \E lump \in Lumps :
        LET w == Portion(lump)
        IN  /\ srv' = [srv EXCEPT ![s] = [@ EXCEPT !.cur = fr, !.work = w]]
            /\ todo' = Without(w)
    /\ Transmit(s, <<MATRIX>>)
    /\ Returns(s, 0)

(* It is sent after the view if the frame is new to the server.            *)
task_lines(s) ==
    /\ Wants(s)
    /\ srv[s].cur = fr \/ (srv[s].cur = 0 /\ ~Reserved /\ ~NeedsTrees(s))
    /\ \E lump \in Lumps :
        LET w == Portion(lump)
            given == [srv[s] EXCEPT !.cur = fr, !.work = w, !.late = FALSE]
            LINES == [type |-> "LINES", work |-> w]
        IN  /\ Transmit(s, IF srv[s].cur = 0 THEN <<MATRIX, LINES>> ELSE <<LINES>>)
            /\ \/ /\ srv' = [srv EXCEPT ![s] = given]
                  /\ todo' = Without(w)
                  /\ Returns(s, 0)
               \/ /\ CanFail(s, "LINES")
                  /\ srv' = [srv EXCEPT ![s] = Dropped(given)]
                  /\ todo' = Requeued(Without(w), given)
                  /\ Returns(s, 1)

(* send_matrix has found the connection broken and dropped the server; its *)
(* caller does not know.  Unless the frame itself needs trees, the server  *)
(* is given the assignment, and no later drop takes it back.               *)
task_dropped(s) ==
    /\ Wants(s)
    /\ srv[s].cur = 0 /\ ~Reserved /\ fr \notin NeedTree
    /\ CanFail(s, "MATRIX")
    /\ \E lump \in Lumps :
        LET w == Portion(lump)
        IN  /\ srv' = [srv EXCEPT ![s] = [Dropped(@) EXCEPT !.work = w,
                                                           !.late = FALSE]]
            /\ todo' = Without(w)
    /\ Transmit(s, <<>>)
    /\ Returns(s, 0)

Schedule ==
    \/ AttendedAll
    \/ frame_is_done
    \/ ReapedAll
    \/ NothingWaits
    \/ PassEnds
    \/ \E s \in Slots :
          \/ send_dirbuild(s)
          \/ final_close(s)
          \/ task_tardy(s)
          \/ task_none_left(s)
          \/ task_other_frame(s)
          \/ task_reserved(s)
          \/ task_gettrees(s)
          \/ task_lines(s)
          \/ task_dropped(s)

CheckInput ==
    \/ Receive
    \/ ReceivedAll
    \/ select
    \/ \E s \in Slots : suckin(s)
    \/ SuckedAll

Dispatcher == CheckInput \/ Schedule

-----------------------------------------------------------------------------
(* rtsrv, the worker at the other end of a connection, and the one-shot    *)
(* client that sends a single command (rtsrv host port cmd).               *)

Awake(s) == pc # "exit" /\ peer[s].link = "open" /\ ~peer[s].hung

Reply(s, reports) == wire' = [wire EXCEPT ![s] = @ \o reports]

(* main: the version is the first message (with the fault "version" the    *)
(* host may have an rtsrv of another release); a one-shot client closes.   *)
rtsrv_main(s) ==
    /\ Awake(s) /\ ~peer[s].started
    /\ IF peer[s].job = "render"
       THEN /\ \E b \in BOOLEAN : /\ b \/ "version" \in Faults
                                  /\ Reply(s, <<[type |-> "VERSION", same |-> b]>>)
            /\ peer' = [peer EXCEPT ![s].started = TRUE]
       ELSE /\ \E c \in Commands : Reply(s, <<[type |-> "CMD", command |-> c]>>)
            /\ peer' = [peer EXCEPT ![s] = Gone(@)]
    /\ UNCHANGED <<memory, loop, buf, out, environment>>

(* pkg_process: DIRBUILD and RESTART are acted on as they come, everything *)
(* else is put on WorkHead.  A second DIRBUILD gets no answer.             *)
rtsrv_receive(s) ==
    /\ Awake(s) /\ peer[s].started /\ out[s] # <<>>
    /\ LET m == Head(out[s])
       IN  CASE m.type = "DIRBUILD" ->
                  /\ peer' = [peer EXCEPT ![s].dirbuilt = TRUE]
                  /\ Reply(s, IF peer[s].dirbuilt THEN <<>>
                              ELSE <<[type |-> "DIRBUILD_REPLY"]>>)
             [] m.type = "RESTART" ->
                  /\ peer' = [peer EXCEPT ![s] = Gone(@)]
                  /\ UNCHANGED wire
             [] OTHER ->
                  /\ peer' = [peer EXCEPT ![s].queue = Append(@, m)]
                  /\ UNCHANGED wire
    /\ out' = [out EXCEPT ![s] = IF Head(@).type = "RESTART" THEN <<>> ELSE Tail(@)]
    /\ UNCHANGED <<memory, loop, buf, environment>>

(* ph_matrix, ph_gettrees (with prepare), ph_lines: the first of WorkHead. *)
(* The ray grid is set up by prepare only.  Lines are not rendered before  *)
(* trees and a view have come.                                             *)
rtsrv_work(s) ==
    /\ Awake(s) /\ peer[s].queue # <<>>
    /\ LET p == [peer[s] EXCEPT !.queue = Tail(@)]
           m == Head(peer[s].queue)
       IN  CASE m.type = "MATRIX" ->
                  /\ peer' = [peer EXCEPT ![s] = [p EXCEPT !.view = m.frame]]
                  /\ UNCHANGED wire
             [] m.type = "GETTREES" ->
                  /\ peer' = [peer EXCEPT ![s] = [p EXCEPT !.grid = p.view]]
                  /\ Reply(s, <<[type |-> "GETTREES_REPLY"]>>)
             [] OTHER ->
                  /\ peer' = [peer EXCEPT ![s] = p]
                  /\ Reply(s, IF p.grid = 0 \/ p.view = 0 THEN <<>>
                              ELSE <<[type |-> "PIXELS", work |-> m.work,
                                      view |-> p.grid]>>)
    /\ UNCHANGED <<memory, loop, buf, out, environment>>

Worker(s) == rtsrv_main(s) \/ rtsrv_receive(s) \/ rtsrv_work(s)

-----------------------------------------------------------------------------
(* What happens around them.                                               *)

(* start_servers finds a host without a worker and starts one, which asks  *)
(* for a connection; or somebody runs a one-shot client.                   *)
Hosted == {s \in Slots : Occupied(s) /\ peer[s].job = "render"}

call ==
    /\ pc # "exit" /\ backlog = "none" /\ Free # {}
    /\ Cardinality(Hosted) < MaxHosts
    /\ backlog' = "render"
    /\ UNCHANGED <<memory, loop, net, faults, commands>>

call_command ==
    /\ pc # "exit" /\ backlog = "none" /\ Free # {}
    /\ commands > 0
    /\ backlog' = "command" /\ commands' = commands - 1
    /\ UNCHANGED <<memory, loop, net, faults>>

Fault(kind) ==
    /\ pc # "exit" /\ kind \in Faults /\ faults > 0
    /\ faults' = faults - 1
    /\ UNCHANGED <<loop, backlog, commands>>

(* The process or its host or its network dies: what it has sent last may  *)
(* or may not arrive.                                                      *)
crash(s) ==
    /\ Fault("crash")
    /\ peer[s].link = "open" /\ peer[s].job = "render"
    /\ peer' = [peer EXCEPT ![s] = Gone(@)]
    /\ out' = [out EXCEPT ![s] = <<>>]
    /\ wire' \in {wire, [wire EXCEPT ![s] = <<>>]}
    /\ UNCHANGED <<memory, buf>>

(* The worker goes into "black hole" mode: connected, and silent for ever. *)
hang(s) ==
    /\ Fault("hang")
    /\ peer[s].link = "open" /\ peer[s].job = "render" /\ ~peer[s].hung
    /\ peer' = [peer EXCEPT ![s].hung = TRUE]
    /\ UNCHANGED <<memory, wire, buf, out>>

(* Fifteen hours go by without an answer: a slow worker, or a hung one.    *)
Elapse(s) ==
    /\ Busy(srv[s]) /\ ~srv[s].late
    /\ srv' = [srv EXCEPT ![s].late = TRUE]
    /\ UNCHANGED <<todo, frames, running, method, file, net>>

slow(s) == Fault("slow") /\ ~peer[s].hung /\ Elapse(s)

hung_too_long(s) ==
    /\ pc # "exit" /\ peer[s].hung /\ Elapse(s)
    /\ UNCHANGED <<loop, environment>>

BugRescanned ==         \* the files are not scanned for what has been done
    [f \in Frames |-> IF f \in frames THEN <<Span(0, NPixels - 1)>> ELSE <<>>]

(* The lists of a remrt that is started again: of the frames whose file is *)
(* not write-protected, the pixels that are still black.                   *)
Rescanned ==
    [f \in Frames |-> IF f \in frames
                       THEN FrameList({p \in Pixels : file[f][p] # 0}) ELSE <<>>]

(* The machine of remrt fails, and remrt is started again with the same    *)
(* arguments.  The workers find their connection closed, and exit.         *)
remrt_restarts ==
    /\ pc # "exit" /\ "remrt" \in Faults /\ faults > 0
    /\ faults' = faults - 1
    /\ srv' = [s \in Slots |-> Unused]
    /\ todo' = Rescanned
    /\ running' = TRUE /\ method' = 2
    /\ Leave /\ AtRest /\ ifdset' = {}
    /\ wire' = [s \in Slots |-> <<>>]
    /\ buf' = [s \in Slots |-> <<>>]
    /\ out' = [s \in Slots |-> <<>>]
    /\ peer' = [s \in Slots |-> NoPeer]
    /\ backlog' = "none"
    /\ UNCHANGED <<frames, file, commands>>

(* remrt has returned from main.                                           *)
exited == pc = "exit" /\ UNCHANGED vars

Next ==
    \/ Dispatcher
    \/ \E s \in Slots : Worker(s)
    \/ call \/ call_command
    \/ \E s \in Slots : crash(s) \/ hang(s) \/ slow(s) \/ hung_too_long(s)
    \/ remrt_restarts
    \/ exited

Spec == Init /\ [][Next]_vars

(* The dispatcher never stops going round its loop; a worker that has not  *)
(* died or hung goes on; hosts without a worker are found; time passes.    *)
FairSpec ==
    /\ Spec
    /\ WF_vars(Dispatcher) /\ WF_vars(call)
    /\ \A s \in Slots : WF_vars(Worker(s)) /\ WF_vars(hung_too_long(s))

-----------------------------------------------------------------------------
(* Correctness.                                                            *)

JobsOf(w) == IF w.frame = 0 THEN {} ELSE {w.frame} \X (w.lo .. w.hi)
Jobs == Frames \X Pixels
Waiting == UNION {{f} \X SpanPixels(todo[f]) : f \in Frames}
Filed == {j \in Jobs : file[j[1]][j[2]] # 0}

(* The work a drop of the server would put back.                           *)
Recoverable == UNION {JobsOf(srv[s].work) : s \in {t \in Slots : Holds(srv[t])}}

(* No pixel of the script is lost, whatever server fails at whatever time: *)
(* one that is not in its file is on its frame's list, or on the work list *)
(* of a server whose loss would put it back.                               *)
NoPixelLost == Jobs \subseteq Waiting \cup Recoverable \cup Filed

(* No pixel is assigned to two servers, and none that is assigned waits.   *)
NoDoubleWork ==
    /\ \A s, t \in Slots : s # t => JobsOf(srv[s].work) \cap JobsOf(srv[t].work) = {}
    /\ \A s \in Slots : JobsOf(srv[s].work) \cap Waiting = {}

(* A pixel that is in its file, from this run or an earlier one, is        *)
(* neither waiting nor assigned: nothing is computed again.                *)
NothingTwice == Filed \cap (Waiting \cup UNION {JobsOf(srv[s].work) : s \in Slots}) = {}

(* When a frame has left the list and its file has been write-protected,   *)
(* every pixel of it is there.                                             *)
FinishedComplete ==
    \A f \in Frames \ frames : \A p \in Pixels : file[f][p] # 0

(* A pixel of which the disk has taken only a part is going to be written  *)
(* again: the scan of a later remrt, which takes only (0, 0, 0) for "part  *)
(* of some span which was not yet rendered", would count it as rendered    *)
(* (scan_frame_for_finished_pixels).                                       *)
TornIsRedone ==
    {j \in Jobs : file[j[1]][j[2]] = Torn} \subseteq Waiting \cup Recoverable

(* Every pixel shows its own frame: the view a worker renders with is the  *)
(* one of the frame it has been given lines of, not of the frame before.   *)
RightView == \A f \in Frames : \A p \in Pixels : file[f][p] \in {0, f, Torn}

(* A slot whose descriptor is no longer polled is waiting for its final    *)
(* close; otherwise nothing would ever free it.                            *)
DroppedIsReclaimed ==
    \A s \in Slots : Occupied(s) /\ ~srv[s].polled => srv[s].state = "CLOSING"

(* The answer to an order that is under way, wherever it is.               *)
Reports(s) == buf[s] \o wire[s]
Orders(s) == peer[s].queue \o out[s]

Expected(v, m) ==
    CASE m.type = "VERSION" -> v.state = "NEW"
      [] m.type = "DIRBUILD_REPLY" -> v.state = "DOING_DIRBUILD"
      [] m.type = "GETTREES_REPLY" -> v.state = "DOING_GETTREES"
      [] m.type = "PIXELS" -> v.state = "READY" /\ m.work = v.work
      [] OTHER -> TRUE

(* No innocent server is dropped: every message on its way from a worker   *)
(* is the one the dispatcher is waiting for, unless it has given it up.    *)
RepliesExpected ==
    \A s \in Slots : \A i \in DOMAIN Reports(s) :
        srv[s].state # "CLOSING" => Expected(srv[s], Reports(s)[i])

(* A live worker that the dispatcher counts on is busy with exactly its    *)
(* assignment: the LINES are on their way to it or the PIXELS back, once.  *)
Tokens(s) ==
    Cardinality({i \in DOMAIN Orders(s) :
                    Orders(s)[i] = [type |-> "LINES", work |-> srv[s].work]})
    + Cardinality({i \in DOMAIN Reports(s) :
                    /\ Reports(s)[i].type = "PIXELS"
                    /\ Reports(s)[i].work = srv[s].work})

AssignmentUnderWay ==
    \A s \in Slots :
        srv[s].state = "READY" /\ Busy(srv[s]) /\ peer[s].link = "open"
            => Tokens(s) = 1

(* The frames are all rendered in the end.                                 *)
AllFramesDone == <>(frames = {})

(* A server that has said nothing for TARDY_SERVER_INTERVAL does not keep  *)
(* its assignment: "This mechanism exists mostly to protect against        *)
(* servers that go into black hole mode" (task_server).                    *)
TardyIsDropped == \A s \in Slots : srv[s].late ~> ~srv[s].late

(* The promises of RenderFarm.                                             *)
Farm == INSTANCE RenderFarm WITH
    Servers <- Slots, Frames <- Frames, Pixels <- Pixels,
    Rendered <- UNION {{f} \X Prior[f] : f \in Frames},
    todo <- Waiting, held <- [s \in Slots |-> JobsOf(srv[s].work)],
    filed <- Filed, done <- Frames \ frames

FarmSpec == Farm!Spec

=============================================================================
