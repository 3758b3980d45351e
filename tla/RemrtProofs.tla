---------------------------- MODULE RemrtProofs ----------------------------
(***************************************************************************)
(* Theorems about Remrt, for any number of slots, frames, pixels, hosts,   *)
(* faults and commands.                                                    *)
(*                                                                         *)
(* Part 1: its types, that no pixel is assigned twice, and that none is    *)
(* rendered twice.  TypeOK is not inductive by itself: the scheduler takes *)
(* the lists of frames it finds on FrameHead, so that it must not run out  *)
(* of frames while it still has work out.                                  *)
(*                                                                         *)
(* Part 2: no pixel is lost, as long as none of the failures and commands  *)
(* happens that the code does not survive (NothingLosesWork).  Work is     *)
(* lost only when a server that has an assignment gets a state in which    *)
(* drop_server forgets it.  ph_version and ph_cmd would do that whatever   *)
(* the state is, so that the proof must know when a worker sends VERSION   *)
(* and a client its command: once, as the first thing of all, and before   *)
(* anything else is said on the connection (2.1).  A pixel that is not     *)
(* whole in its file is then always due (2.2 and 2.3), and each move of    *)
(* work is a step of RenderFarm (2.4).                                     *)
(*                                                                         *)
(* Part 3: the protocol.  In each state of its servers[] entry there are   *)
(* only a few things that a worker, the messages to it and those from it   *)
(* can be; InStep lists them.  It is an invariant whatever fails and is    *)
(* commanded (3.3 to 3.6), and says of every message what it is an answer  *)
(* to, where each assignment is, and what view it is rendered with (3.7).  *)
(* With what check_input does to its buffers it also says that a slot is   *)
(* silent once it is dropped (3.8).                                        *)
(***************************************************************************)
EXTENDS Remrt, PixelSpansProofs, FiniteSetTheorems

(* While assignments are handed out there is a frame, and it is listed.    *)
FrameListed == pc = "assign" => fr \in frames

(* Whatever a server is at work on, its frame has not been destroyed.      *)
WorkListed == \A s \in Slots : srv[s].work.frame \in frames \cup {0}

TypeInv == TypeOK /\ FrameListed /\ WorkListed

-----------------------------------------------------------------------------
(* drop_server and pkg_send, wherever they are called.                     *)

LEMMA SizesInNat == NSlots \in Nat /\ NFrames \in Nat /\ NPixels \in Nat
BY SizesAssumption

(* The lists the frames begin with.                                        *)
LEMMA ScanOfFrame ==
    ASSUME NEW seen \in SUBSET Pixels
    PROVE  /\ ScanFrame(NPixels, seen) \in Seq([lo : Pixels, hi : Pixels])
           /\ SpanPixels(ScanFrame(NPixels, seen)) = Pixels \ seen
           /\ \A i, j \in DOMAIN ScanFrame(NPixels, seen) : i < j =>
                 ScanFrame(NPixels, seen)[i].hi < ScanFrame(NPixels, seen)[j].lo
BY SizesAssumption, ScanLeavesTheBlackPixels DEF Pixels, Spans, Ordered

LEMMA FrameNumbers == \A f \in Frames : f \in 0 .. NFrames
BY SizesInNat DEF Frames

(* A server with one field given a new value of its type is a server.      *)
LEMMA ServerUpdate ==
    ASSUME NEW v \in Server
    PROVE  /\ \A x \in States : /\ [v EXCEPT !.state = x] \in Server
                               /\ [v EXCEPT !.state = x].work = v.work
           /\ \A x \in BOOLEAN : /\ [v EXCEPT !.polled = x] \in Server
                                /\ [v EXCEPT !.polled = x].work = v.work
           /\ \A x \in 0 .. NFrames : /\ [v EXCEPT !.cur = x] \in Server
                                     /\ [v EXCEPT !.cur = x].work = v.work
           /\ \A x \in Work : /\ [v EXCEPT !.work = x] \in Server
                             /\ [v EXCEPT !.work = x].work = x
           /\ \A x \in BOOLEAN : /\ [v EXCEPT !.late = x] \in Server
                                /\ [v EXCEPT !.late = x].work = v.work
BY DEF Server

LEMMA NoWorkType == NoWork \in Work /\ NoWork.frame = 0
BY DEF Work, NoWork

LEMMA DroppedType ==
    ASSUME NEW v \in Server
    PROVE  /\ Dropped(v) \in Server /\ Dropped(v).work \in {v.work, NoWork}
           /\ Holds(v) => Dropped(v).work = NoWork
<1> DEFINE a == [v EXCEPT !.state = "CLOSING"]
           b == [a EXCEPT !.cur = 0]
           c == [b EXCEPT !.polled = FALSE]
<1>1. a \in Server /\ a.work = v.work
  BY ServerUpdate DEF States
<1> HIDE DEF a
<1>2. b \in Server /\ b.work = v.work
  BY <1>1, ServerUpdate, SizesInNat
<1> HIDE DEF b
<1>3. c \in Server /\ c.work = v.work
  BY <1>2, ServerUpdate
<1> HIDE DEF c
<1>4. v.work \in Work
  BY DEF Server
<1>5. Dropped(v) = [c EXCEPT !.work = IF Holds(v) THEN NoWork ELSE c.work]
  BY <1>1 DEF Dropped, a, b, c
<1>6. QED BY <1>3, <1>4, <1>5, ServerUpdate, NoWorkType

(* One server becomes another with its work or none: servers[] keeps type. *)
LEMMA OneServer ==
    ASSUME TypeInv, NEW s \in Slots, NEW v \in Server,
           v.work \in {srv[s].work, NoWork}, srv' = [srv EXCEPT ![s] = v]
    PROVE  /\ srv' \in [Slots -> Server]
           /\ \A t \in Slots : srv'[t].work \in {srv[t].work, NoWork}
BY DEF TypeInv, TypeOK, MemoryTypeOK

LEMMA StateChange ==        \* statechange
    ASSUME TypeInv, NEW s \in Slots, NEW x \in States,
           srv' = [srv EXCEPT ![s].state = x]
    PROVE  /\ srv' \in [Slots -> Server]
           /\ \A t \in Slots : srv'[t].work \in {srv[t].work, NoWork}
<1>1. srv[s] \in Server
  BY DEF TypeInv, TypeOK, MemoryTypeOK
<1> DEFINE v == [srv[s] EXCEPT !.state = x]
<1>2. v \in Server /\ v.work = srv[s].work
  BY <1>1, ServerUpdate
<1>3. srv' = [srv EXCEPT ![s] = v]
  OBVIOUS
<1> HIDE DEF v
<1>4. QED BY <1>2, <1>3, OneServer

LEMMA RequeuedType ==
    ASSUME NEW td \in [Frames -> Seq(SpanOfFrame)], NEW v \in Server
    PROVE  Requeued(td, v) \in [Frames -> Seq(SpanOfFrame)]
<1>1. CASE Holds(v) /\ Busy(v)
  <2>1. v.work \in [frame : Frames, lo : Pixels, hi : Pixels]
    BY <1>1 DEF Server, Work, Busy, NoWork
  <2>2. <<Span(v.work.lo, v.work.hi)>> \in Seq(SpanOfFrame)
    BY <2>1 DEF Span, SpanOfFrame
  <2>3. <<Span(v.work.lo, v.work.hi)>> \o td[v.work.frame] \in Seq(SpanOfFrame)
    BY <2>1, <2>2, ConcatProperties
  <2>4. QED BY <1>1, <2>1, <2>3 DEF Requeued
<1>2. CASE ~ (Holds(v) /\ Busy(v))
  BY <1>2 DEF Requeued
<1>3. QED BY <1>1, <1>2

LEMMA DropType ==
    ASSUME TypeInv, NEW s \in Slots, Drop(s)
    PROVE  /\ srv' \in [Slots -> Server]
           /\ todo' \in [Frames -> Seq(SpanOfFrame)]
           /\ \A t \in Slots : srv'[t].work \in {srv[t].work, NoWork}
<1> USE DEF TypeInv, TypeOK, MemoryTypeOK
<1>1. srv' = [srv EXCEPT ![s] = Dropped(srv[s])] /\ todo' = Requeued(todo, srv[s])
  BY DEF Drop
<1>2. Dropped(srv[s]) \in Server /\ Dropped(srv[s]).work \in {srv[s].work, NoWork}
  BY DroppedType
<1>3. QED BY <1>1, <1>2, RequeuedType

LEMMA TransmitType ==
    ASSUME TypeInv, NEW s \in Slots, NEW messages \in Seq(Order),
           Transmit(s, messages), UNCHANGED peer
    PROVE  NetTypeOK'
<1> USE DEF TypeInv, TypeOK, NetTypeOK
<1>1. buf[s] \o wire[s] \in Seq(Report)
  BY ConcatProperties
<1>2. out[s] \o messages \in Seq(Order)
  BY ConcatProperties
<1>3. <<>> \in Seq(Report)
  BY EmptySeq
<1>4. QED BY <1>1, <1>2, <1>3 DEF Transmit

-----------------------------------------------------------------------------
(* check_input: the handlers.                                              *)

LEMMA ReceivingType ==
    ASSUME TypeInv, NEW s \in Slots, NEW type, Receiving(s, type)
    PROVE  /\ LoopTypeOK'
           /\ pc' # "assign"
           /\ buf[s] # <<>>
           /\ Head(buf[s]) \in Report /\ Head(buf[s]).type = type
           /\ Tail(buf[s]) \in Seq(Report)
<1>1. buf[s] # <<>>
  <2>1. Buffered # {} /\ s = Min(Buffered) /\ Buffered \subseteq Nat
    BY DEF Receiving, Buffered, Slots
  <2>2. s \in Buffered
    BY <2>1, MinOfNaturals
  <2>3. QED BY <2>2 DEF Buffered
<1>2. buf[s] \in Seq(Report)
  BY DEF TypeInv, TypeOK, NetTypeOK
<1>3. Head(buf[s]) \in Report /\ Tail(buf[s]) \in Seq(Report)
  BY <1>1, <1>2, HeadTailProperties
<1>4. LoopTypeOK' /\ pc' # "assign"
  BY SizesInNat DEF Receiving, TypeInv, TypeOK, LoopTypeOK, Slots
<1>5. QED BY <1>1, <1>3, <1>4 DEF Receiving

LEMMA ConsumeType ==
    ASSUME TypeInv, NEW s \in Slots, Tail(buf[s]) \in Seq(Report), Consume(s)
    PROVE  NetTypeOK' /\ EnvironmentTypeOK'
BY DEF Consume, TypeInv, TypeOK, NetTypeOK, EnvironmentTypeOK, environment

(* Servers keep their work or lose it, and the frames stay.                *)
LEMMA StillListed ==
    ASSUME TypeInv, pc' # "assign", frames' = frames,
           \A t \in Slots : srv'[t].work \in {srv[t].work, NoWork}
    PROVE  FrameListed' /\ WorkListed'
BY NoWorkType DEF TypeInv, FrameListed, WorkListed

LEMMA PhVersionType ==
    ASSUME TypeInv, NEW s \in Slots, ph_version(s)
    PROVE  TypeInv'
<1>1. Receiving(s, "VERSION") /\ Consume(s)
      /\ UNCHANGED <<frames, running, method, file>>
  BY DEF ph_version
<1>2. LoopTypeOK' /\ NetTypeOK' /\ EnvironmentTypeOK' /\ pc' # "assign"
  BY <1>1, ReceivingType, ConsumeType
<1>3. /\ srv' \in [Slots -> Server] /\ todo' \in [Frames -> Seq(SpanOfFrame)]
      /\ \A t \in Slots : srv'[t].work \in {srv[t].work, NoWork}
  <2>1. CASE Head(buf[s]).same
    <3>1. srv' = [srv EXCEPT ![s].state = "VERSOK"] /\ todo' = todo
      BY <2>1 DEF ph_version
    <3>2. QED BY <3>1, StateChange DEF States, TypeInv, TypeOK, MemoryTypeOK
  <2>2. CASE ~Head(buf[s]).same
    BY <2>2, DropType DEF ph_version
  <2>3. QED BY <2>1, <2>2
<1>4. QED BY <1>1, <1>2, <1>3, StillListed DEF TypeInv, TypeOK, MemoryTypeOK

LEMMA PhDirbuildReplyType ==
    ASSUME TypeInv, NEW s \in Slots, ph_dirbuild_reply(s)
    PROVE  TypeInv'
<1>1. Receiving(s, "DIRBUILD_REPLY") /\ Consume(s)
      /\ UNCHANGED <<frames, running, method, file>>
  BY DEF ph_dirbuild_reply
<1>2. LoopTypeOK' /\ NetTypeOK' /\ EnvironmentTypeOK' /\ pc' # "assign"
  BY <1>1, ReceivingType, ConsumeType
<1>3. /\ srv' \in [Slots -> Server] /\ todo' \in [Frames -> Seq(SpanOfFrame)]
      /\ \A t \in Slots : srv'[t].work \in {srv[t].work, NoWork}
  <2>1. CASE srv[s].state = "DOING_DIRBUILD"
    <3>1. srv' = [srv EXCEPT ![s].state = "NEED_TREE"] /\ todo' = todo
      BY <2>1 DEF ph_dirbuild_reply
    <3>2. QED BY <3>1, StateChange DEF States, TypeInv, TypeOK, MemoryTypeOK
  <2>2. CASE srv[s].state # "DOING_DIRBUILD"
    BY <2>2, DropType DEF ph_dirbuild_reply
  <2>3. QED BY <2>1, <2>2
<1>4. QED BY <1>1, <1>2, <1>3, StillListed DEF TypeInv, TypeOK, MemoryTypeOK

LEMMA PhGettreesReplyType ==
    ASSUME TypeInv, NEW s \in Slots, ph_gettrees_reply(s)
    PROVE  TypeInv'
<1>1. Receiving(s, "GETTREES_REPLY") /\ Consume(s)
      /\ UNCHANGED <<frames, running, method, file>>
  BY DEF ph_gettrees_reply
<1>2. LoopTypeOK' /\ NetTypeOK' /\ EnvironmentTypeOK' /\ pc' # "assign"
  BY <1>1, ReceivingType, ConsumeType
<1>3. /\ srv' \in [Slots -> Server] /\ todo' \in [Frames -> Seq(SpanOfFrame)]
      /\ \A t \in Slots : srv'[t].work \in {srv[t].work, NoWork}
  <2>1. CASE srv[s].state = "DOING_GETTREES"
    <3>1. srv' = [srv EXCEPT ![s].state = "READY"] /\ todo' = todo
      BY <2>1 DEF ph_gettrees_reply
    <3>2. QED BY <3>1, StateChange DEF States, TypeInv, TypeOK, MemoryTypeOK
  <2>2. CASE srv[s].state # "DOING_GETTREES"
    BY <2>2, DropType DEF ph_gettrees_reply
  <2>3. QED BY <2>1, <2>2
<1>4. QED BY <1>1, <1>2, <1>3, StillListed DEF TypeInv, TypeOK, MemoryTypeOK

LEMMA HalfType ==
    ASSUME NEW painted \in [Frames -> [Pixels -> 0 .. Torn]], NEW w, NEW last,
           NEW part \in {0, Torn}
    PROVE  Half(painted, w, last, part) \in [Frames -> [Pixels -> 0 .. Torn]]
<1>1. 0 \in 0 .. Torn /\ Torn \in 0 .. Torn
  BY SizesInNat DEF Torn
<1>2. part \in 0 .. Torn
  BY <1>1
<1>3. QED BY <1>2 DEF Half

LEMMA PhPixelsType ==
    ASSUME TypeInv, NEW s \in Slots, ph_pixels(s)
    PROVE  TypeInv'
<1> DEFINE w == srv[s].work
           view == Head(buf[s]).view
<1>1. Receiving(s, "PIXELS") /\ Consume(s) /\ UNCHANGED <<frames, method>>
  BY DEF ph_pixels
<1>2. LoopTypeOK' /\ NetTypeOK' /\ EnvironmentTypeOK' /\ pc' # "assign"
  BY <1>1, ReceivingType, ConsumeType
<1>3. srv[s] \in Server /\ w \in Work /\ NoWork \in Work
  BY NoWorkType DEF TypeInv, TypeOK, MemoryTypeOK, Server
<1>4. view \in Frames
  BY <1>1, ReceivingType DEF Report
<1>5. /\ srv' \in [Slots -> Server] /\ todo' \in [Frames -> Seq(SpanOfFrame)]
      /\ \A t \in Slots : srv'[t].work \in {srv[t].work, NoWork}
      /\ running' \in BOOLEAN
      /\ file' \in [Frames -> [Pixels -> 0 .. Torn]]
  <2>1. CASE UNCHANGED <<srv, todo, running, file>>
    BY <2>1 DEF TypeInv, TypeOK, MemoryTypeOK
  <2>2. CASE Drop(s) /\ UNCHANGED <<running, file>>
    BY <2>2, DropType DEF TypeInv, TypeOK, MemoryTypeOK
  <2>3. ASSUME srv' = [srv EXCEPT ![s].work = NoWork, ![s].late = FALSE]
        PROVE  /\ srv' \in [Slots -> Server]
               /\ \A t \in Slots : srv'[t].work \in {srv[t].work, NoWork}
    <3> DEFINE a == [srv[s] EXCEPT !.work = NoWork]
               b == [a EXCEPT !.late = FALSE]
    <3>1. a \in Server /\ a.work = NoWork
      BY <1>3, ServerUpdate
    <3>2. srv' = [srv EXCEPT ![s] = b]
      BY <2>3 DEF TypeInv, TypeOK, MemoryTypeOK
    <3> HIDE DEF a
    <3>3. b \in Server /\ b.work = NoWork
      BY <3>1, ServerUpdate
    <3> HIDE DEF b
    <3>4. QED BY <3>2, <3>3, OneServer
  <2>4. ASSUME w.frame # 0, NEW last \in Int
        PROVE  Painted(w, last, view) \in [Frames -> [Pixels -> 0 .. Torn]]
    <3>1. w.frame \in Frames
      BY <1>3, <2>4 DEF Work, NoWork
    <3>2. file[w.frame] \in [Pixels -> 0 .. Torn] /\ view \in 0 .. Torn
      BY <1>4, <3>1, SizesInNat DEF TypeInv, TypeOK, MemoryTypeOK, Frames, Torn
    <3>3. [p \in Pixels |-> IF p \in w.lo .. last THEN view ELSE file[w.frame][p]]
             \in [Pixels -> 0 .. Torn]
      BY <3>2
    <3>4. QED BY <3>1, <3>3 DEF Painted, TypeInv, TypeOK, MemoryTypeOK
  <2>5. CASE FilePixels(s, w, view) /\ Busy(srv[s])
    <3>1. w.frame # 0 /\ w.hi \in Int
      BY <2>5, <1>3 DEF Busy, Work, Pixels, NoWork
    <3>2. QED BY <2>5, <2>3, <2>4, <3>1 DEF FilePixels, TypeInv, TypeOK, MemoryTypeOK
  <2>6. CASE CannotOpen(s)
    BY <2>6, <2>3 DEF CannotOpen, TypeInv, TypeOK, MemoryTypeOK
  <2>7. CASE CannotWrite(s, w, view) /\ Busy(srv[s])
    <3>1. w.frame # 0 /\ w.lo - 1 \in Int /\ w.hi - 1 \in Int
      BY <2>7, <1>3 DEF Busy, Work, Pixels, NoWork
    <3>2. PICK last \in w.lo - 1 .. w.hi - 1, part \in {0, Torn} :
             file' = Half(Painted(w, last, view), w, last, part)
      BY <2>7 DEF CannotWrite
    <3>3. last \in Int
      BY <3>1
    <3>4. Painted(w, last, view) \in [Frames -> [Pixels -> 0 .. Torn]]
      BY <2>4, <3>1, <3>3
    <3>5. file' \in [Frames -> [Pixels -> 0 .. Torn]]
      BY <3>2, <3>4, HalfType
    <3>6. QED BY <2>7, <3>5, DropType DEF CannotWrite
  <2>8. QED BY <2>1, <2>2, <2>5, <2>6, <2>7 DEF ph_pixels
<1>6. QED BY <1>1, <1>2, <1>5, StillListed DEF TypeInv, TypeOK, MemoryTypeOK

LEMMA CdStopGoType ==
    ASSUME TypeInv, NEW s \in Slots, cd_stop_go(s)
    PROVE  TypeInv'
<1>1. Receiving(s, "CMD") /\ Consume(s) /\ Drop(s)
      /\ UNCHANGED <<frames, method, file>> /\ running' \in BOOLEAN
  BY DEF cd_stop_go
<1>2. LoopTypeOK' /\ NetTypeOK' /\ EnvironmentTypeOK' /\ pc' # "assign"
  BY <1>1, ReceivingType, ConsumeType
<1>3. QED BY <1>1, <1>2, DropType, StillListed DEF TypeInv, TypeOK, MemoryTypeOK

LEMMA CdDropType ==
    ASSUME TypeInv, NEW s \in Slots, cd_drop(s)
    PROVE  TypeInv'
<1> DEFINE t == Head(buf[s]).command.slot
<1>1. Receiving(s, "CMD") /\ Consume(s) /\ UNCHANGED <<frames, running, method, file>>
  BY DEF cd_drop
<1>2. LoopTypeOK' /\ NetTypeOK' /\ EnvironmentTypeOK' /\ pc' # "assign"
  BY <1>1, ReceivingType, ConsumeType
<1>3. Head(buf[s]).command \in Commands
  BY <1>1, ReceivingType DEF Report
<1>4. t \in Slots
  BY <1>3, CommandsAssumption DEF cd_drop
<1>5. /\ srv' \in [Slots -> Server] /\ todo' \in [Frames -> Seq(SpanOfFrame)]
      /\ \A r \in Slots : srv'[r].work \in {srv[r].work, NoWork}
  <2>1. CASE Occupied(t)
    <3>1. srv[t] \in Server /\ todo \in [Frames -> Seq(SpanOfFrame)]
      BY <1>4 DEF TypeInv, TypeOK, MemoryTypeOK
    <3>2. srv' = [r \in Slots |-> IF r \in {s, t} THEN Dropped(srv[r]) ELSE srv[r]]
          /\ todo' = Requeued(todo, srv[t])
      BY <2>1 DEF cd_drop
    <3>3. \A r \in Slots : /\ Dropped(srv[r]) \in Server
                          /\ Dropped(srv[r]).work \in {srv[r].work, NoWork}
      BY DroppedType DEF TypeInv, TypeOK, MemoryTypeOK
    <3> HIDE DEF t
    <3>4. srv' \in [Slots -> Server]
      BY <3>2, <3>3 DEF TypeInv, TypeOK, MemoryTypeOK
    <3>5. \A r \in Slots : srv'[r].work \in {srv[r].work, NoWork}
      BY <3>2, <3>3
    <3>6. QED BY <3>1, <3>2, <3>4, <3>5, RequeuedType
  <2>2. CASE ~Occupied(t)
    BY <2>2, DropType DEF cd_drop
  <2>3. QED BY <2>1, <2>2
<1>6. QED BY <1>1, <1>2, <1>5, StillListed DEF TypeInv, TypeOK, MemoryTypeOK

LEMMA CdRestartType ==
    ASSUME TypeInv, NEW s \in Slots, cd_restart(s)
    PROVE  TypeInv'
<1> DEFINE t == Head(buf[s]).command.slot
           LetGo == [buf EXCEPT ![s] = Tail(@)]
           ORDER == [type |-> "RESTART"]
<1>1. Receiving(s, "CMD") /\ UNCHANGED <<frames, running, method, file>>
  BY DEF cd_restart
<1>2. /\ LoopTypeOK' /\ pc' # "assign"
      /\ Head(buf[s]) \in Report /\ Head(buf[s]).type = "CMD"
      /\ Tail(buf[s]) \in Seq(Report)
  BY <1>1, ReceivingType
<1>3. CASE ~Occupied(t)
  <2>1. Drop(s) /\ Consume(s)
    BY <1>3 DEF cd_restart
  <2>2. NetTypeOK' /\ EnvironmentTypeOK'
    BY <1>2, <2>1, ConsumeType
  <2>3. QED BY <1>1, <1>2, <2>1, <2>2, DropType, StillListed
            DEF TypeInv, TypeOK, MemoryTypeOK
<1>4. CASE Occupied(t)
  <2>1. t \in Slots
    BY <1>1, <1>2, CommandsAssumption DEF Report, cd_restart
  <2>2. /\ wire' = [wire EXCEPT ![t] = <<>>]
        /\ buf' = [LetGo EXCEPT ![t] = @ \o wire[t]]
        /\ out' = [out EXCEPT ![t] = IF peer[t].link = "open"
                                     THEN Append(@, ORDER) ELSE @]
        /\ UNCHANGED <<peer, environment>>
    BY <1>4 DEF cd_restart
  <2>3. /\ srv[t] \in Server /\ Dropped(srv[t]) \in Server
        /\ Dropped(srv[t]).work \in {srv[t].work, NoWork}
        /\ todo \in [Frames -> Seq(SpanOfFrame)]
    BY <2>1, DroppedType DEF TypeInv, TypeOK, MemoryTypeOK
  <2>4. PICK u \in Server :
           /\ u.work \in {srv[t].work, NoWork}
           /\ srv' = [[srv EXCEPT ![t] = [u EXCEPT !.state = "RESTART"]]
                         EXCEPT ![s] = Dropped(@)]
           /\ todo' \in {todo, Requeued(todo, srv[t])}
    <3> HIDE DEF LetGo
    <3>1. CASE srv' = [[srv EXCEPT ![t] = [srv[t] EXCEPT !.state = "RESTART"]]
                          EXCEPT ![s] = Dropped(@)] /\ todo' = todo
      BY <2>3, <3>1
    <3>2. CASE srv' = [[srv EXCEPT ![t] = [Dropped(srv[t]) EXCEPT !.state = "RESTART"]]
                          EXCEPT ![s] = Dropped(@)] /\ todo' = Requeued(todo, srv[t])
      BY <2>3, <3>2
    <3>3. QED BY <1>4, <3>1, <3>2 DEF cd_restart
  <2> HIDE DEF t
  <2> DEFINE v == [u EXCEPT !.state = "RESTART"]
             mid == [srv EXCEPT ![t] = v]
  <2>5. v \in Server /\ v.work \in {srv[t].work, NoWork}
    BY <2>4, ServerUpdate DEF States
  <2> HIDE DEF v
  <2>6. mid \in [Slots -> Server]
        /\ \A r \in Slots : mid[r].work \in {srv[r].work, NoWork}
    BY <2>1, <2>5 DEF TypeInv, TypeOK, MemoryTypeOK
  <2>7. srv' = [mid EXCEPT ![s] = Dropped(mid[s])]
    BY <2>4 DEF v
  <2> HIDE DEF mid
  <2>8. Dropped(mid[s]) \in Server /\ Dropped(mid[s]).work \in {mid[s].work, NoWork}
    BY <2>6, DroppedType
  <2>9. srv' \in [Slots -> Server]
        /\ \A r \in Slots : srv'[r].work \in {srv[r].work, NoWork}
    BY <2>6, <2>7, <2>8
  <2>10. todo' \in [Frames -> Seq(SpanOfFrame)]
    BY <2>3, <2>4, RequeuedType
  <2>11. NetTypeOK'
    <3> USE DEF TypeInv, TypeOK, NetTypeOK
    <3>1. LetGo \in [Slots -> Seq(Report)]
      BY <1>2
    <3> HIDE DEF LetGo
    <3>2. LetGo[t] \o wire[t] \in Seq(Report)
      BY <2>1, <3>1, ConcatProperties
    <3>3. buf' \in [Slots -> Seq(Report)]
      BY <2>2, <3>1, <3>2
    <3>4. ORDER \in Order
      BY DEF Order
    <3> HIDE DEF ORDER
    <3>5. out' \in [Slots -> Seq(Order)]
      <4>1. Append(out[t], ORDER) \in Seq(Order)
        BY <2>1, <3>4, AppendProperties
      <4>2. QED BY <2>1, <2>2, <4>1
    <3>6. <<>> \in Seq(Report)
      BY EmptySeq
    <3>7. QED BY <2>1, <2>2, <3>3, <3>5, <3>6
  <2>12. EnvironmentTypeOK'
    BY <2>2 DEF environment, TypeInv, TypeOK, EnvironmentTypeOK
  <2>13. QED BY <1>1, <1>2, <2>9, <2>10, <2>11, <2>12, StillListed
             DEF TypeInv, TypeOK, MemoryTypeOK
<1>5. QED BY <1>3, <1>4

(* The steps between the handlers change only where the loop is.           *)
LEMMA LoopStepType ==
    ASSUME TypeInv, LoopTypeOK', pc' # "assign", UNCHANGED <<memory, net, environment>>
    PROVE  TypeInv'
<1>1. FrameListed' /\ WorkListed'
  BY StillListed DEF memory
<1>2. MemoryTypeOK' /\ NetTypeOK' /\ EnvironmentTypeOK'
  BY DEF memory, net, environment, TypeInv, TypeOK,
         MemoryTypeOK, NetTypeOK, EnvironmentTypeOK
<1>3. QED BY <1>1, <1>2 DEF TypeInv, TypeOK

LEMMA ReceivedAllType ==
    ASSUME TypeInv, ReceivedAll
    PROVE  TypeInv'
<1>1. LoopTypeOK' /\ pc' # "assign"
  BY SizesInNat DEF ReceivedAll, TypeInv, TypeOK, LoopTypeOK
<1>2. QED BY <1>1, LoopStepType DEF ReceivedAll, memory, net, environment

LEMMA SuckedAllType ==
    ASSUME TypeInv, SuckedAll
    PROVE  TypeInv'
<1>1. LoopTypeOK' /\ pc' # "assign"
  BY SizesInNat DEF SuckedAll, TypeInv, TypeOK, LoopTypeOK
<1>2. QED BY <1>1, LoopStepType DEF SuckedAll, memory, net, environment

LEMMA UnusedType ==
    /\ Unused \in Server /\ Unused.work = NoWork
    /\ [Unused EXCEPT !.state = "NEW", !.polled = TRUE] \in Server
    /\ [Unused EXCEPT !.state = "NEW", !.polled = TRUE].work = NoWork
<1>1. Unused \in Server /\ Unused.work = NoWork
  BY NoWorkType, SizesInNat DEF Unused, Server, States
<1> DEFINE a == [Unused EXCEPT !.state = "NEW"]
<1>2. a \in Server /\ a.work = NoWork
  BY <1>1, ServerUpdate DEF States
<1> HIDE DEF a
<1>3. [a EXCEPT !.polled = TRUE] \in Server /\ [a EXCEPT !.polled = TRUE].work = NoWork
  BY <1>2, ServerUpdate
<1>4. QED BY <1>1, <1>3 DEF a

LEMMA NewPeerType ==
    ASSUME NEW job \in {"render", "command"}
    PROVE  NewPeer(job) \in Peer
BY SizesInNat, EmptySeq DEF NewPeer, Peer

LEMMA NoPeerType == NoPeer \in Peer
<1>1. NewPeer("render") \in Peer
  BY NewPeerType
<1>2. QED BY <1>1 DEF NoPeer, Peer

LEMMA GoneType ==
    ASSUME NEW p \in Peer
    PROVE  Gone(p) \in Peer
<1>1. NewPeer(p.job) \in Peer
  BY NewPeerType DEF Peer
<1>2. QED BY <1>1 DEF Gone, Peer

LEMMA SelectType ==
    ASSUME TypeInv, select
    PROVE  TypeInv'
<1>1. LoopTypeOK' /\ pc' # "assign"
  BY DEF select, TypeInv, TypeOK, LoopTypeOK, Readable
<1>2. CASE ~(backlog # "none" /\ Free # {})
  <2>1. UNCHANGED <<memory, net, environment>>
    BY <1>2 DEF select, memory, net, environment
  <2>2. QED BY <1>1, <2>1, LoopStepType
<1>3. CASE backlog # "none" /\ Free # {}
  <2> DEFINE s == Min(Free)
             v == [Unused EXCEPT !.state = "NEW", !.polled = TRUE]
  <2>1. /\ srv' = [srv EXCEPT ![s] = v]
        /\ peer' = [peer EXCEPT ![s] = NewPeer(backlog)]
        /\ backlog' = "none"
        /\ UNCHANGED <<todo, frames, running, method, file, wire, buf, out, faults,
                       commands>>
    BY <1>3 DEF select
  <2>2. v \in Server /\ v.work = NoWork
    BY UnusedType
  <2> HIDE DEF s, v
  <2>3. srv' \in [Slots -> Server]
        /\ \A t \in Slots : srv'[t].work \in {srv[t].work, NoWork}
    BY <2>1, <2>2 DEF TypeInv, TypeOK, MemoryTypeOK
  <2>4. NewPeer(backlog) \in Peer
    BY <1>3, NewPeerType DEF TypeInv, TypeOK, EnvironmentTypeOK
  <2>5. NetTypeOK' /\ EnvironmentTypeOK'
    BY <2>1, <2>4 DEF TypeInv, TypeOK, NetTypeOK, EnvironmentTypeOK
  <2>6. QED BY <1>1, <2>1, <2>3, <2>5, StillListed DEF TypeInv, TypeOK, MemoryTypeOK
<1>4. QED BY <1>2, <1>3

LEMMA SuckinType ==
    ASSUME TypeInv, NEW s \in Slots, suckin(s)
    PROVE  TypeInv'
<1>1. LoopTypeOK' /\ pc' # "assign"
  BY DEF suckin, TypeInv, TypeOK, LoopTypeOK
<1>2. EnvironmentTypeOK' /\ UNCHANGED <<frames, running, method, file, out, peer>>
  BY DEF suckin, environment, TypeInv, TypeOK, EnvironmentTypeOK
<1>3. CASE wire[s] # <<>>
  <2>1. /\ buf' = [buf EXCEPT ![s] = @ \o wire[s]]
        /\ wire' = [wire EXCEPT ![s] = <<>>]
        /\ UNCHANGED <<srv, todo>>
    BY <1>3 DEF suckin
  <2>2. buf[s] \o wire[s] \in Seq(Report) /\ <<>> \in Seq(Report)
    BY ConcatProperties, EmptySeq DEF TypeInv, TypeOK, NetTypeOK
  <2>3. NetTypeOK'
    BY <1>2, <2>1, <2>2 DEF TypeInv, TypeOK, NetTypeOK
  <2>4. QED BY <1>1, <1>2, <2>1, <2>3, StillListed DEF TypeInv, TypeOK, MemoryTypeOK
<1>4. CASE wire[s] = <<>>
  <2>1. Drop(s) /\ UNCHANGED <<buf, wire>>
    BY <1>4 DEF suckin
  <2>2. NetTypeOK'
    BY <1>2, <2>1 DEF TypeInv, TypeOK, NetTypeOK
  <2>3. QED BY <1>1, <1>2, <2>1, <2>2, DropType, StillListed
            DEF TypeInv, TypeOK, MemoryTypeOK
<1>5. QED BY <1>3, <1>4

-----------------------------------------------------------------------------
(* schedule.                                                               *)

LEMMA AttendingType ==
    ASSUME TypeInv, NEW s \in Slots, Attending(s)
    PROVE  /\ LoopTypeOK' /\ EnvironmentTypeOK' /\ pc' # "assign"
           /\ UNCHANGED <<frames, running, method, file>>
BY SizesInNat DEF Attending, TypeInv, TypeOK, LoopTypeOK, EnvironmentTypeOK, environment,
                  Slots

LEMMA SendDirbuildType ==
    ASSUME TypeInv, NEW s \in Slots, send_dirbuild(s)
    PROVE  TypeInv'
<1>1. /\ LoopTypeOK' /\ EnvironmentTypeOK' /\ pc' # "assign"
      /\ UNCHANGED <<frames, running, method, file>>
  BY AttendingType DEF send_dirbuild
<1>2. NetTypeOK'
  <2> DEFINE ORDER == [type |-> "DIRBUILD"]
  <2>1. ORDER \in Order
    BY DEF Order
  <2> HIDE DEF ORDER
  <2>2. <<ORDER>> \in Seq(Order)
    BY <2>1
  <2>3. Transmit(s, <<ORDER>>) /\ UNCHANGED peer
    BY DEF send_dirbuild, ORDER
  <2>4. QED BY <2>2, <2>3, TransmitType
<1>3. /\ srv' \in [Slots -> Server] /\ todo' \in [Frames -> Seq(SpanOfFrame)]
      /\ \A t \in Slots : srv'[t].work \in {srv[t].work, NoWork}
  <2>1. CASE srv' = [srv EXCEPT ![s].state = "DOING_DIRBUILD"] /\ UNCHANGED todo
    BY <2>1, StateChange DEF States, TypeInv, TypeOK, MemoryTypeOK
  <2>2. CASE Drop(s)
    BY <2>2, DropType
  <2>3. QED BY <2>1, <2>2 DEF send_dirbuild
<1>4. QED BY <1>1, <1>2, <1>3, StillListed DEF TypeInv, TypeOK, MemoryTypeOK

LEMMA FinalCloseType ==
    ASSUME TypeInv, NEW s \in Slots, final_close(s)
    PROVE  TypeInv'
<1>1. /\ LoopTypeOK' /\ EnvironmentTypeOK' /\ pc' # "assign"
      /\ UNCHANGED <<frames, running, method, file>>
  BY AttendingType DEF final_close
<1>2. /\ srv' \in [Slots -> Server] /\ todo' \in [Frames -> Seq(SpanOfFrame)]
      /\ \A t \in Slots : srv'[t].work \in {srv[t].work, NoWork}
  BY UnusedType, OneServer DEF final_close, TypeInv, TypeOK, MemoryTypeOK
<1>3. NetTypeOK'
  BY NoPeerType, EmptySeq DEF final_close, TypeInv, TypeOK, NetTypeOK
<1>4. QED BY <1>1, <1>2, <1>3, StillListed DEF TypeInv, TypeOK, MemoryTypeOK

LEMMA AttendedAllType ==
    ASSUME TypeInv, AttendedAll
    PROVE  TypeInv'
<1>1. LoopTypeOK' /\ pc' # "assign"
  BY SizesInNat DEF AttendedAll, TypeInv, TypeOK, LoopTypeOK
<1>2. QED BY <1>1, LoopStepType DEF AttendedAll, memory, net, environment

(* A finished frame is on no server's sr_work, so that it can go.          *)
LEMMA FrameIsDoneType ==
    ASSUME TypeInv, frame_is_done
    PROVE  TypeInv'
<1> DEFINE f == Min(DoneFrames)
<1>1. f \in DoneFrames
  <2>1. DoneFrames \subseteq Nat /\ DoneFrames # {}
    BY DEF frame_is_done, DoneFrames, TypeInv, TypeOK, MemoryTypeOK, Frames
  <2>2. QED BY <2>1, MinOfNaturals
<1>2. /\ frames' = frames \ {f}
      /\ srv' = [s \in Slots |-> IF srv[s].cur = f THEN [srv[s] EXCEPT !.cur = 0]
                                                   ELSE srv[s]]
      /\ UNCHANGED <<todo, running, method, file, loop, net, environment>>
      /\ pc = "reap"
  BY DEF frame_is_done
<1> HIDE DEF f
<1>3. \A s \in Slots : /\ [srv[s] EXCEPT !.cur = 0] \in Server
                       /\ [srv[s] EXCEPT !.cur = 0].work = srv[s].work
  BY ServerUpdate, SizesInNat DEF TypeInv, TypeOK, MemoryTypeOK
<1>4. srv' \in [Slots -> Server] /\ \A s \in Slots : srv'[s].work = srv[s].work
  BY <1>2, <1>3 DEF TypeInv, TypeOK, MemoryTypeOK
<1>5. MemoryTypeOK'
  BY <1>2, <1>4 DEF TypeInv, TypeOK, MemoryTypeOK
<1>6. LoopTypeOK' /\ NetTypeOK' /\ EnvironmentTypeOK' /\ FrameListed'
  BY <1>2 DEF TypeInv, TypeOK, LoopTypeOK, NetTypeOK, EnvironmentTypeOK, loop, net,
              environment, FrameListed
<1>7. WorkListed'
  BY <1>1, <1>2, <1>4 DEF DoneFrames, ThisFrameDone, TypeInv, WorkListed
<1>8. QED BY <1>5, <1>6, <1>7 DEF TypeInv, TypeOK

(* The end of schedule.                                                    *)
LEMMA LeaveType ==
    ASSUME TypeInv, Leave, AtRest, ifdset' = ifdset
    PROVE  LoopTypeOK' /\ FrameListed'
<1>1. pc' \in {"first", "exit"}
  BY DEF Leave
<1>2. sp' = 1 /\ fr' = 0 /\ another_pass' = FALSE /\ nxt_frame' = 0
  BY DEF AtRest
<1>3. 1 \in 1 .. NSlots + 1 /\ 0 \in 0 .. NFrames
  BY SizesInNat
<1>4. another_pass' \in BOOLEAN
  BY <1>2
<1>5. sp' \in 1 .. NSlots + 1 /\ fr' \in 0 .. NFrames /\ nxt_frame' \in 0 .. 2
  BY <1>2, <1>3
<1>6. ifdset' \subseteq Slots
  BY DEF TypeInv, TypeOK, LoopTypeOK
<1>7. QED BY <1>1, <1>4, <1>5, <1>6 DEF LoopTypeOK, FrameListed

(* There is work out or waiting, so there is a frame on the list.          *)
LEMMA ReapedAllType ==
    ASSUME TypeInv, ReapedAll
    PROVE  TypeInv'
<1>1. /\ MemoryTypeOK' /\ NetTypeOK' /\ EnvironmentTypeOK' /\ WorkListed'
      /\ frames' = frames
  BY DEF ReapedAll, TypeInv, TypeOK, MemoryTypeOK, NetTypeOK, EnvironmentTypeOK, net,
         environment, WorkListed
<1>2. CASE running /\ ~AllDone
  <2>1. frames # {}
    BY <1>2 DEF AllDone, Busy, TypeInv, WorkListed
  <2>2. frames \subseteq Frames /\ frames \subseteq Nat
    BY DEF TypeInv, TypeOK, MemoryTypeOK, Frames
  <2>3. Min(frames) \in frames
    BY <2>1, <2>2, MinOfNaturals
  <2>4. fr' = Min(frames) /\ pc' = "assign"
        /\ UNCHANGED <<sp, another_pass, nxt_frame, ifdset>>
    BY <1>2 DEF ReapedAll
  <2>5. fr' \in 0 .. NFrames /\ fr' \in frames'
    BY <1>1, <2>2, <2>3, <2>4, FrameNumbers
  <2>6. LoopTypeOK' /\ FrameListed'
    BY <2>4, <2>5 DEF TypeInv, TypeOK, LoopTypeOK, FrameListed
  <2>7. QED BY <1>1, <2>6 DEF TypeInv, TypeOK
<1>3. CASE ~(running /\ ~AllDone)
  <2>1. Leave /\ AtRest /\ UNCHANGED ifdset
    BY <1>3 DEF ReapedAll
  <2>2. LoopTypeOK' /\ FrameListed'
    BY <2>1, LeaveType
  <2>3. QED BY <1>1, <2>2 DEF TypeInv, TypeOK
<1>4. QED BY <1>2, <1>3

-----------------------------------------------------------------------------
(* schedule: the assignments.                                              *)

LEMMA AdvanceType ==
    ASSUME TypeInv, pc = "assign", NEW nxt, Advance(nxt),
           frames' = frames, ifdset' = ifdset
    PROVE  LoopTypeOK' /\ FrameListed' /\ method' \in 0 .. 2
<1>1. frames \subseteq Frames /\ frames \subseteq Nat /\ fr \in frames
  BY DEF TypeInv, TypeOK, MemoryTypeOK, Frames, FrameListed
<1>2. 1 \in 1 .. NSlots + 1 /\ method \in 0 .. 2
  BY SizesInNat DEF TypeInv, TypeOK, MemoryTypeOK
<1>3. ASSUME pc' = pc, sp' = 1, another_pass' = FALSE, nxt_frame' = 0, fr' \in frames
      PROVE  LoopTypeOK' /\ FrameListed'
  <2>1. fr' \in 0 .. NFrames /\ fr' \in frames'
    BY <1>1, <1>3, FrameNumbers
  <2>2. another_pass' \in BOOLEAN
    BY <1>3
  <2>3. sp' \in 1 .. NSlots + 1 /\ nxt_frame' \in 0 .. 2
    BY <1>2, <1>3
  <2>4. UNCHANGED <<pc, ifdset>>
    BY <1>3
  <2>5. QED BY <2>1, <2>2, <2>3, <2>4 DEF TypeInv, TypeOK, LoopTypeOK, FrameListed
<1>4. CASE Later # {}
  <2>1. Later \subseteq frames /\ Later \subseteq Nat
    BY <1>1 DEF Later
  <2>2. Min(Later) \in frames
    BY <1>4, <2>1, MinOfNaturals
  <2>3. QED BY <1>2, <1>3, <1>4, <2>2 DEF Advance
<1>5. CASE Later = {} /\ nxt = 1 /\ method > 0
  <2>1. Min(frames) \in frames
    BY <1>1, MinOfNaturals
  <2>2. method - 1 \in 0 .. 2
    BY <1>2, <1>5
  <2>3. QED BY <1>3, <1>5, <2>1, <2>2 DEF Advance
<1>6. CASE Later = {} /\ ~(nxt = 1 /\ method > 0)
  <2>1. Leave /\ AtRest /\ method' = method
    BY <1>6 DEF Advance
  <2>2. QED BY <1>2, <2>1, LeaveType
<1>7. QED BY <1>4, <1>5, <1>6

LEMMA ReturnsType ==
    ASSUME TypeInv, pc = "assign", NEW s \in Slots, NEW ret, Returns(s, ret),
           frames' = frames, ifdset' = ifdset
    PROVE  LoopTypeOK' /\ FrameListed' /\ method' \in 0 .. 2
<1>1. CASE ret = 2
  BY <1>1, AdvanceType DEF Returns
<1>2. CASE ret # 2
  <2>1. s + 1 \in 1 .. NSlots + 1
    BY SizesInNat DEF Slots
  <2>2. /\ sp' = s + 1 /\ another_pass' \in BOOLEAN /\ nxt_frame' \in 0 .. 2
        /\ pc' = pc /\ fr' = fr /\ method' = method
    BY <1>2 DEF Returns, TypeInv, TypeOK, LoopTypeOK
  <2>3. QED BY <2>1, <2>2 DEF TypeInv, TypeOK, LoopTypeOK, MemoryTypeOK, FrameListed
<1>3. QED BY <1>1, <1>2

LEMMA NothingWaitsType ==
    ASSUME TypeInv, NothingWaits
    PROVE  TypeInv'
<1>1. LoopTypeOK' /\ FrameListed' /\ method' \in 0 .. 2
  BY AdvanceType DEF NothingWaits
<1>2. QED BY <1>1 DEF NothingWaits, TypeInv, TypeOK, MemoryTypeOK, NetTypeOK,
                     EnvironmentTypeOK, net, environment, WorkListed

LEMMA PassEndsType ==
    ASSUME TypeInv, PassEnds
    PROVE  TypeInv'
<1>1. LoopTypeOK' /\ FrameListed' /\ method' \in 0 .. 2
  <2>1. CASE nxt_frame = 0 /\ another_pass
    <3>1. 1 \in 1 .. NSlots + 1
      BY SizesInNat
    <3>2. QED BY <2>1, <3>1 DEF PassEnds, TypeInv, TypeOK, LoopTypeOK, MemoryTypeOK,
                               FrameListed
  <2>2. CASE ~(nxt_frame = 0 /\ another_pass)
    BY <2>2, AdvanceType DEF PassEnds
  <2>3. QED BY <2>1, <2>2
<1>2. QED BY <1>1 DEF PassEnds, TypeInv, TypeOK, MemoryTypeOK, NetTypeOK,
                     EnvironmentTypeOK, net, environment, WorkListed

(* What a task_server call has to show: what becomes of the servers, of    *)
(* the lists and of the connections.                                       *)
LEMMA TaskType ==
    ASSUME TypeInv, NEW s \in Slots, Tasking(s), NEW ret, Returns(s, ret),
           srv' \in [Slots -> Server], todo' \in [Frames -> Seq(SpanOfFrame)],
           \A t \in Slots : srv'[t].work.frame \in {srv[t].work.frame, 0, fr},
           NetTypeOK'
    PROVE  TypeInv'
<1>1. /\ pc = "assign" /\ fr \in frames
      /\ UNCHANGED <<frames, running, file, ifdset, environment>>
  BY DEF Tasking, TypeInv, FrameListed
<1>2. LoopTypeOK' /\ FrameListed' /\ method' \in 0 .. 2
  BY <1>1, ReturnsType
<1>3. WorkListed'
  BY <1>1 DEF TypeInv, WorkListed
<1>4. QED BY <1>1, <1>2, <1>3 DEF TypeInv, TypeOK, MemoryTypeOK, EnvironmentTypeOK,
                                 environment

LEMMA TaskIdleType ==       \* task_server returns without a change
    ASSUME TypeInv, NEW s \in Slots, Tasking(s), NEW ret, Returns(s, ret),
           UNCHANGED <<srv, todo, wire, buf, out>>
    PROVE  TypeInv'
<1>1. peer' = peer
  BY DEF Tasking
<1>2. NetTypeOK'
  BY <1>1 DEF TypeInv, TypeOK, NetTypeOK
<1>3. QED BY <1>2, TaskType DEF TypeInv, TypeOK, MemoryTypeOK

LEMMA TaskTardyType ==
    ASSUME TypeInv, NEW s \in Slots, task_tardy(s)
    PROVE  TypeInv'
<1>1. Tasking(s) /\ Drop(s) /\ Returns(s, 0) /\ UNCHANGED <<wire, buf, out, peer>>
  BY DEF task_tardy, Tasking
<1>2. NetTypeOK'
  BY <1>1 DEF TypeInv, TypeOK, NetTypeOK
<1>3. /\ srv' \in [Slots -> Server] /\ todo' \in [Frames -> Seq(SpanOfFrame)]
      /\ \A t \in Slots : srv'[t].work.frame \in {srv[t].work.frame, 0, fr}
  BY <1>1, DropType, NoWorkType
<1>4. QED BY <1>1, <1>2, <1>3, TaskType

LEMMA TaskGettreesType ==
    ASSUME TypeInv, NEW s \in Slots, task_gettrees(s)
    PROVE  TypeInv'
<1> DEFINE GETTREES == [type |-> "GETTREES"]
<1>1. Tasking(s) /\ Returns(s, 1) /\ UNCHANGED peer
  BY DEF task_gettrees, Wants, Tasking
<1>2. fr \in Frames
  BY <1>1 DEF Tasking, TypeInv, TypeOK, MemoryTypeOK, FrameListed
<1>3. MATRIX \in Order /\ GETTREES \in Order
  BY <1>2 DEF Order, Queued, MATRIX
<1>4. Transmit(s, <<MATRIX, GETTREES>>)
  BY DEF task_gettrees
<1> HIDE DEF GETTREES
<1>5. NetTypeOK'
  <2>1. <<MATRIX, GETTREES>> \in Seq(Order)
    BY <1>3
  <2>2. QED BY <1>1, <1>4, <2>1, TransmitType
<1>6. /\ srv' \in [Slots -> Server] /\ todo' \in [Frames -> Seq(SpanOfFrame)]
      /\ \A t \in Slots : srv'[t].work.frame \in {srv[t].work.frame, 0, fr}
  <2>1. CASE Drop(s)
    BY <2>1, DropType, NoWorkType
  <2>2. CASE /\ srv' = [srv EXCEPT ![s].cur = fr, ![s].state = "DOING_GETTREES"]
             /\ UNCHANGED todo
    <3>1. srv[s] \in Server /\ fr \in 0 .. NFrames
      BY <1>2 DEF TypeInv, TypeOK, MemoryTypeOK, Frames
    <3> DEFINE a == [srv[s] EXCEPT !.cur = fr]
               b == [a EXCEPT !.state = "DOING_GETTREES"]
    <3>2. a \in Server /\ a.work = srv[s].work
      BY <3>1, ServerUpdate
    <3>3. srv' = [srv EXCEPT ![s] = b]
      BY <2>2
    <3> HIDE DEF a
    <3>4. b \in Server /\ b.work = srv[s].work
      BY <3>2, ServerUpdate DEF States
    <3> HIDE DEF b
    <3>5. QED BY <2>2, <3>3, <3>4, OneServer, NoWorkType DEF TypeInv, TypeOK, MemoryTypeOK
  <2>3. QED BY <2>1, <2>2 DEF task_gettrees
<1>7. QED BY <1>1, <1>5, <1>6, TaskType

(* An assignment and what is left of its frame's list.                     *)
LEMMA PortionType ==
    ASSUME TypeInv, fr \in Frames, todo[fr] # <<>>, NEW lump \in Lumps
    PROVE  /\ Portion(lump) \in Work /\ Portion(lump).frame = fr
           /\ Without(Portion(lump)) \in [Frames -> Seq(SpanOfFrame)]
<1> DEFINE first == Head(todo[fr])
           rest == Tail(todo[fr])
           w == Portion(lump)
<1>1. first \in SpanOfFrame /\ rest \in Seq(SpanOfFrame)
  BY HeadTailProperties DEF TypeInv, TypeOK, MemoryTypeOK
<1>2. first.lo \in Pixels /\ first.hi \in Pixels
  BY <1>1 DEF SpanOfFrame
<1>3. lump \in Nat \ {0}
  BY SizesAssumption
<1>4. /\ w = [frame |-> fr, lo |-> first.lo, hi |-> w.hi]
      /\ w.hi = IF first.lo + lump - 1 >= first.hi THEN first.hi
                                                   ELSE first.lo + lump - 1
  BY DEF Portion
<1> HIDE DEF first, rest, w
<1>5. w.hi \in Pixels /\ (w.hi # first.hi => w.hi + 1 \in Pixels)
  BY <1>2, <1>3, <1>4, SizesInNat DEF Pixels
<1>6. w \in Work /\ w.frame = fr
  BY <1>2, <1>4, <1>5 DEF Work
<1>7. Without(w) \in [Frames -> Seq(SpanOfFrame)]
  <2>1. CASE w.hi = first.hi
    BY <1>1, <2>1 DEF Without, first, rest, TypeInv, TypeOK, MemoryTypeOK
  <2>2. CASE w.hi # first.hi
    <3>1. <<Span(w.hi + 1, first.hi)>> \in Seq(SpanOfFrame)
      BY <1>2, <1>5, <2>2 DEF Span, SpanOfFrame
    <3>2. <<Span(w.hi + 1, first.hi)>> \o rest \in Seq(SpanOfFrame)
      BY <1>1, <3>1, ConcatProperties
    <3>3. Without(w) = [todo EXCEPT ![fr] = <<Span(w.hi + 1, first.hi)>> \o rest]
      BY <2>2 DEF Without, first, rest
    <3>4. QED BY <3>2, <3>3 DEF TypeInv, TypeOK, MemoryTypeOK
  <2>3. QED BY <2>1, <2>2
<1>8. QED BY <1>6, <1>7 DEF w

LEMMA TaskLinesType ==
    ASSUME TypeInv, NEW s \in Slots, task_lines(s)
    PROVE  TypeInv'
<1>1. Tasking(s) /\ todo[fr] # <<>>
  BY DEF task_lines, Wants
<1>2. fr \in Frames /\ fr \in frames /\ UNCHANGED peer /\ srv[s] \in Server
  BY <1>1 DEF Tasking, TypeInv, TypeOK, MemoryTypeOK, FrameListed
<1>3. fr \in 0 .. NFrames
  BY <1>2, FrameNumbers
<1> DEFINE Given(w) == [srv[s] EXCEPT !.cur = fr, !.work = w, !.late = FALSE]
           LINES(w) == [type |-> "LINES", work |-> w]
           Messages(w) == IF srv[s].cur = 0 THEN <<MATRIX, LINES(w)>> ELSE <<LINES(w)>>
<1>4. PICK lump \in Lumps :
        LET w == Portion(lump)
        IN  /\ Transmit(s, Messages(w))
            /\ \/ /\ srv' = [srv EXCEPT ![s] = Given(w)]
                  /\ todo' = Without(w)
                  /\ Returns(s, 0)
               \/ /\ CanFail(s, "LINES")
                  /\ srv' = [srv EXCEPT ![s] = Dropped(Given(w))]
                  /\ todo' = Requeued(Without(w), Given(w))
                  /\ Returns(s, 1)
  BY DEF task_lines
<1> DEFINE w == Portion(lump)
<1>5. w \in Work /\ w.frame = fr /\ Without(w) \in [Frames -> Seq(SpanOfFrame)]
  BY <1>1, <1>2, PortionType
<1> HIDE DEF w
<1>6. Given(w) \in Server /\ Given(w).work = w
  <2> DEFINE a == [srv[s] EXCEPT !.cur = fr]
             b == [a EXCEPT !.work = w]
             c == [b EXCEPT !.late = FALSE]
  <2>1. Given(w) = c
    OBVIOUS
  <2>2. a \in Server
    BY <1>2, <1>3, ServerUpdate
  <2> HIDE DEF a, Given
  <2>3. b \in Server /\ b.work = w
    BY <1>5, <2>2, ServerUpdate
  <2> HIDE DEF b
  <2>4. c \in Server /\ c.work = w
    BY <2>3, ServerUpdate
  <2>5. QED BY <2>1, <2>4
<1>7. NetTypeOK'
  <2>1. LINES(w) \in Order /\ MATRIX \in Order
    BY <1>2, <1>5 DEF Order, Queued, MATRIX
  <2>2. Transmit(s, Messages(w))
    BY <1>4 DEF w
  <2> HIDE DEF LINES
  <2>3. <<MATRIX, LINES(w)>> \in Seq(Order) /\ <<LINES(w)>> \in Seq(Order)
    BY <2>1
  <2>4. Messages(w) \in Seq(Order)
    BY <2>3
  <2> HIDE DEF Messages
  <2>5. QED BY <1>2, <2>2, <2>4, TransmitType
<1> HIDE DEF Given, Messages
<1>8. ASSUME NEW v \in Server, v.work \in {w, NoWork}, srv' = [srv EXCEPT ![s] = v]
      PROVE  /\ srv' \in [Slots -> Server]
             /\ \A t \in Slots : srv'[t].work.frame \in {srv[t].work.frame, 0, fr}
  BY <1>5, <1>8, NoWorkType DEF TypeInv, TypeOK, MemoryTypeOK
<1>9. CASE srv' = [srv EXCEPT ![s] = Given(w)] /\ todo' = Without(w) /\ Returns(s, 0)
  BY <1>1, <1>5, <1>6, <1>7, <1>8, <1>9, TaskType
<1>10. CASE /\ srv' = [srv EXCEPT ![s] = Dropped(Given(w))]
            /\ todo' = Requeued(Without(w), Given(w))
            /\ Returns(s, 1)
  <2>1. Dropped(Given(w)) \in Server /\ Dropped(Given(w)).work \in {w, NoWork}
    BY <1>6, DroppedType
  <2>2. todo' \in [Frames -> Seq(SpanOfFrame)]
    BY <1>5, <1>6, <1>10, RequeuedType
  <2>3. QED BY <1>1, <1>7, <1>8, <1>10, <2>1, <2>2, TaskType
<1>11. QED BY <1>4, <1>9, <1>10 DEF w

LEMMA TaskDroppedType ==
    ASSUME TypeInv, NEW s \in Slots, task_dropped(s)
    PROVE  TypeInv'
<1>1. Tasking(s) /\ todo[fr] # <<>> /\ Transmit(s, <<>>) /\ Returns(s, 0)
  BY DEF task_dropped, Wants
<1>2. fr \in Frames /\ fr \in frames /\ UNCHANGED peer /\ srv[s] \in Server
  BY <1>1 DEF Tasking, TypeInv, TypeOK, MemoryTypeOK, FrameListed
<1> DEFINE Given(w) == [Dropped(srv[s]) EXCEPT !.work = w, !.late = FALSE]
<1>3. PICK lump \in Lumps : LET w == Portion(lump)
                            IN  srv' = [srv EXCEPT ![s] = Given(w)] /\ todo' = Without(w)
  BY DEF task_dropped, TypeInv, TypeOK, MemoryTypeOK
<1> DEFINE w == Portion(lump)
<1>4. w \in Work /\ w.frame = fr /\ Without(w) \in [Frames -> Seq(SpanOfFrame)]
  BY <1>1, <1>2, PortionType
<1> HIDE DEF w
<1>5. Given(w) \in Server /\ Given(w).work = w
  <2> DEFINE a == [Dropped(srv[s]) EXCEPT !.work = w]
             b == [a EXCEPT !.late = FALSE]
  <2>1. Given(w) = b
    OBVIOUS
  <2>2. a \in Server /\ a.work = w
    BY <1>2, <1>4, DroppedType, ServerUpdate
  <2> HIDE DEF a, Given
  <2>3. b \in Server /\ b.work = w
    BY <2>2, ServerUpdate
  <2>4. QED BY <2>1, <2>3
<1> HIDE DEF Given
<1>6. /\ srv' \in [Slots -> Server] /\ todo' \in [Frames -> Seq(SpanOfFrame)]
      /\ \A t \in Slots : srv'[t].work.frame \in {srv[t].work.frame, 0, fr}
  <2>1. srv' = [srv EXCEPT ![s] = Given(w)] /\ todo' = Without(w)
    BY <1>3 DEF w
  <2>2. QED BY <1>4, <1>5, <2>1 DEF TypeInv, TypeOK, MemoryTypeOK
<1>7. NetTypeOK'
  BY <1>1, <1>2, TransmitType, EmptySeq
<1>8. QED BY <1>1, <1>6, <1>7, TaskType

-----------------------------------------------------------------------------
(* The workers, and what happens around them: the dispatcher's memory and  *)
(* its place in the loop stay.                                             *)

LEMMA OutsideType ==
    ASSUME TypeInv, UNCHANGED <<memory, loop>>, NetTypeOK', EnvironmentTypeOK'
    PROVE  TypeInv'
BY DEF TypeInv, TypeOK, MemoryTypeOK, LoopTypeOK, memory, loop, FrameListed, WorkListed

(* A worker with one field given a new value of its type is a worker.      *)
LEMMA PeerUpdate ==
    ASSUME NEW p \in Peer
    PROVE  /\ \A x \in BOOLEAN : /\ [p EXCEPT !.started = x] \in Peer
                                /\ [p EXCEPT !.hung = x] \in Peer
                                /\ [p EXCEPT !.dirbuilt = x] \in Peer
           /\ \A x \in 0 .. NFrames : /\ [p EXCEPT !.view = x] \in Peer
                                     /\ [p EXCEPT !.grid = x] \in Peer
           /\ \A x \in Seq(Queued) : [p EXCEPT !.queue = x] \in Peer
BY DEF Peer

LEMMA ReplyType ==
    ASSUME TypeInv, NEW s \in Slots, NEW reports \in Seq(Report), Reply(s, reports)
    PROVE  wire' \in [Slots -> Seq(Report)]
<1>1. wire[s] \o reports \in Seq(Report)
  BY ConcatProperties DEF TypeInv, TypeOK, NetTypeOK
<1>2. QED BY <1>1 DEF Reply, TypeInv, TypeOK, NetTypeOK

(* The rest of a worker's step is the same for all three.                  *)
LEMMA WorkerStepType ==
    ASSUME TypeInv, UNCHANGED <<memory, loop, buf, environment>>,
           wire' \in [Slots -> Seq(Report)], out' \in [Slots -> Seq(Order)],
           NEW s \in Slots, NEW p \in Peer, peer' = [peer EXCEPT ![s] = p]
    PROVE  TypeInv'
<1>1. NetTypeOK' /\ EnvironmentTypeOK'
  BY DEF TypeInv, TypeOK, NetTypeOK, EnvironmentTypeOK, environment
<1>2. QED BY <1>1, OutsideType

LEMMA RtsrvMainType ==
    ASSUME TypeInv, NEW s \in Slots, rtsrv_main(s)
    PROVE  TypeInv'
<1>1. UNCHANGED <<memory, loop, buf, environment>> /\ out' \in [Slots -> Seq(Order)]
      /\ peer[s] \in Peer
  BY DEF rtsrv_main, TypeInv, TypeOK, NetTypeOK
<1>2. CASE peer[s].job = "render"
  <2>1. PICK b \in BOOLEAN : Reply(s, <<[type |-> "VERSION", same |-> b]>>)
    BY <1>2 DEF rtsrv_main
  <2>2. <<[type |-> "VERSION", same |-> b]>> \in Seq(Report)
    BY DEF Report
  <2>3. wire' \in [Slots -> Seq(Report)]
    BY <2>1, <2>2, ReplyType
  <2> DEFINE p == [peer[s] EXCEPT !.started = TRUE]
  <2>4. peer' = [peer EXCEPT ![s] = p]
    BY <1>2 DEF rtsrv_main
  <2>5. p \in Peer
    BY <1>1, PeerUpdate
  <2> HIDE DEF p
  <2>6. QED BY <1>1, <2>3, <2>4, <2>5, WorkerStepType
<1>3. CASE peer[s].job # "render"
  <2>1. PICK c \in Commands : Reply(s, <<[type |-> "CMD", command |-> c]>>)
    BY <1>3 DEF rtsrv_main
  <2>2. <<[type |-> "CMD", command |-> c]>> \in Seq(Report)
    BY DEF Report
  <2>3. wire' \in [Slots -> Seq(Report)]
    BY <2>1, <2>2, ReplyType
  <2>4. peer' = [peer EXCEPT ![s] = Gone(peer[s])] /\ Gone(peer[s]) \in Peer
    BY <1>1, <1>3, GoneType DEF rtsrv_main
  <2>5. QED BY <1>1, <2>3, <2>4, WorkerStepType
<1>4. QED BY <1>2, <1>3

LEMMA RtsrvReceiveType ==
    ASSUME TypeInv, NEW s \in Slots, rtsrv_receive(s)
    PROVE  TypeInv'
<1> DEFINE m == Head(out[s])
<1>1. UNCHANGED <<memory, loop, buf, environment>> /\ peer[s] \in Peer
      /\ out[s] \in Seq(Order) /\ out[s] # <<>>
  BY DEF rtsrv_receive, TypeInv, TypeOK, NetTypeOK
<1>2. m \in Order /\ Tail(out[s]) \in Seq(Order) /\ <<>> \in Seq(Order)
  BY <1>1, HeadTailProperties, EmptySeq
<1>3. out' \in [Slots -> Seq(Order)]
  BY <1>2 DEF rtsrv_receive, TypeInv, TypeOK, NetTypeOK
<1>4. CASE m.type = "DIRBUILD"
  <2> DEFINE p == [peer[s] EXCEPT !.dirbuilt = TRUE]
             reports == IF peer[s].dirbuilt THEN <<>> ELSE <<[type |-> "DIRBUILD_REPLY"]>>
  <2>1. peer' = [peer EXCEPT ![s] = p] /\ Reply(s, reports)
    BY <1>4 DEF rtsrv_receive
  <2>2. p \in Peer
    BY <1>1, PeerUpdate
  <2>3. reports \in Seq(Report)
    <3>1. <<[type |-> "DIRBUILD_REPLY"]>> \in Seq(Report)
      BY DEF Report
    <3>2. QED BY <3>1, EmptySeq
  <2> HIDE DEF p, reports
  <2>4. wire' \in [Slots -> Seq(Report)]
    BY <2>1, <2>3, ReplyType
  <2>5. QED BY <1>1, <1>3, <2>1, <2>2, <2>4, WorkerStepType
<1>5. CASE m.type = "RESTART"
  <2>1. peer' = [peer EXCEPT ![s] = Gone(peer[s])] /\ UNCHANGED wire
    BY <1>5 DEF rtsrv_receive
  <2>2. wire' \in [Slots -> Seq(Report)]
    BY <2>1 DEF TypeInv, TypeOK, NetTypeOK
  <2>3. QED BY <1>1, <1>3, <2>1, <2>2, GoneType, WorkerStepType
<1>6. CASE m.type \notin {"DIRBUILD", "RESTART"}
  <2> DEFINE p == [peer[s] EXCEPT !.queue = Append(peer[s].queue, m)]
  <2>1. peer' = [peer EXCEPT ![s] = p] /\ UNCHANGED wire
    BY <1>6 DEF rtsrv_receive
  <2>2. Append(peer[s].queue, m) \in Seq(Queued)
    <3>1. m \in Queued
      BY <1>2, <1>6 DEF Order
    <3>2. QED BY <1>1, <3>1, AppendProperties DEF Peer
  <2>3. p \in Peer
    BY <1>1, <2>2, PeerUpdate
  <2> HIDE DEF p
  <2>4. wire' \in [Slots -> Seq(Report)]
    BY <2>1 DEF TypeInv, TypeOK, NetTypeOK
  <2>5. QED BY <1>1, <1>3, <2>1, <2>3, <2>4, WorkerStepType
<1>7. QED BY <1>4, <1>5, <1>6

LEMMA RtsrvWorkType ==
    ASSUME TypeInv, NEW s \in Slots, rtsrv_work(s)
    PROVE  TypeInv'
<1> DEFINE p == [peer[s] EXCEPT !.queue = Tail(peer[s].queue)]
           m == Head(peer[s].queue)
<1>1. UNCHANGED <<memory, loop, buf, environment>> /\ peer[s] \in Peer
      /\ out' \in [Slots -> Seq(Order)]
  BY DEF rtsrv_work, TypeInv, TypeOK, NetTypeOK
<1>2. peer[s].queue \in Seq(Queued) /\ peer[s].queue # <<>>
  BY <1>1 DEF rtsrv_work, Peer
<1>3. m \in Queued /\ Tail(peer[s].queue) \in Seq(Queued)
  BY <1>2, HeadTailProperties
<1>4. p \in Peer
  BY <1>1, <1>3, PeerUpdate
<1>5. wire \in [Slots -> Seq(Report)]
  BY DEF TypeInv, TypeOK, NetTypeOK
<1>6. CASE m.type = "MATRIX"
  <2> DEFINE q == [p EXCEPT !.view = m.frame]
  <2>1. peer' = [peer EXCEPT ![s] = q] /\ UNCHANGED wire
    BY <1>6 DEF rtsrv_work
  <2>2. m.frame \in 0 .. NFrames
    BY <1>3, <1>6, FrameNumbers DEF Queued
  <2> HIDE DEF p, m
  <2>3. q \in Peer
    BY <1>4, <2>2, PeerUpdate
  <2> HIDE DEF q
  <2>4. QED BY <1>1, <1>5, <2>1, <2>3, WorkerStepType
<1>7. CASE m.type = "GETTREES"
  <2> DEFINE q == [p EXCEPT !.grid = p.view]
             reports == <<[type |-> "GETTREES_REPLY"]>>
  <2>1. peer' = [peer EXCEPT ![s] = q] /\ Reply(s, reports)
    BY <1>7 DEF rtsrv_work
  <2> HIDE DEF p, m
  <2>2. p.view \in 0 .. NFrames
    BY <1>4 DEF Peer
  <2>3. q \in Peer
    BY <1>4, <2>2, PeerUpdate
  <2>4. reports \in Seq(Report)
    BY DEF Report
  <2> HIDE DEF q, reports
  <2>5. wire' \in [Slots -> Seq(Report)]
    BY <2>1, <2>4, ReplyType
  <2>6. QED BY <1>1, <2>1, <2>3, <2>5, WorkerStepType
<1>8. CASE m.type \notin {"MATRIX", "GETTREES"}
  <2> DEFINE answer == [type |-> "PIXELS", work |-> m.work, view |-> p.grid]
             reports == IF p.grid = 0 \/ p.view = 0 THEN <<>> ELSE <<answer>>
  <2>1. peer' = [peer EXCEPT ![s] = p] /\ Reply(s, reports)
    BY <1>8 DEF rtsrv_work
  <2>2. m.work \in Work
    BY <1>3, <1>8 DEF Queued
  <2> HIDE DEF p, m
  <2>3. p.grid \in 0 .. NFrames
    BY <1>4 DEF Peer
  <2>4. CASE p.grid = 0 \/ p.view = 0
    <3>1. wire' \in [Slots -> Seq(Report)]
      BY <2>1, <2>4, EmptySeq, ReplyType
    <3>2. QED BY <1>1, <1>4, <2>1, <3>1, WorkerStepType
  <2>5. CASE ~(p.grid = 0 \/ p.view = 0)
    <3>1. p.grid \in Frames
      BY <2>3, <2>5, SizesInNat DEF Frames
    <3>2. answer \in Report
      BY <2>2, <3>1 DEF Report
    <3> HIDE DEF answer
    <3>3. <<answer>> \in Seq(Report) /\ reports = <<answer>>
      BY <2>5, <3>2
    <3> HIDE DEF reports
    <3>4. wire' \in [Slots -> Seq(Report)]
      BY <2>1, <3>3, ReplyType
    <3>5. QED BY <1>1, <1>4, <2>1, <3>4, WorkerStepType
  <2>6. QED BY <2>4, <2>5
<1>9. QED BY <1>6, <1>7, <1>8

(* Connections asked for, and faults.                                      *)
LEMMA CallType ==
    ASSUME TypeInv, call \/ call_command
    PROVE  TypeInv'
<1>1. UNCHANGED <<memory, loop, net, faults>>
  BY DEF call, call_command
<1>2. NetTypeOK'
  BY <1>1 DEF net, TypeInv, TypeOK, NetTypeOK
<1>3. EnvironmentTypeOK'
  BY <1>1, SizesAssumption DEF call, call_command, TypeInv, TypeOK, EnvironmentTypeOK
<1>4. QED BY <1>1, <1>2, <1>3, OutsideType

LEMMA FaultType ==
    ASSUME TypeInv, NEW kind, Fault(kind)
    PROVE  EnvironmentTypeOK' /\ UNCHANGED loop
BY SizesAssumption DEF Fault, TypeInv, TypeOK, EnvironmentTypeOK

LEMMA CrashType ==
    ASSUME TypeInv, NEW s \in Slots, crash(s)
    PROVE  TypeInv'
<1>1. EnvironmentTypeOK' /\ UNCHANGED <<memory, loop, buf>>
  BY FaultType DEF crash
<1>2. Gone(peer[s]) \in Peer /\ peer' = [peer EXCEPT ![s] = Gone(peer[s])]
  BY GoneType DEF crash, TypeInv, TypeOK, NetTypeOK
<1>3. out' = [out EXCEPT ![s] = <<>>] /\ wire' \in {wire, [wire EXCEPT ![s] = <<>>]}
  BY DEF crash
<1>4. NetTypeOK'
  BY <1>1, <1>2, <1>3, EmptySeq DEF TypeInv, TypeOK, NetTypeOK
<1>5. QED BY <1>1, <1>4, OutsideType

LEMMA HangType ==
    ASSUME TypeInv, NEW s \in Slots, hang(s)
    PROVE  TypeInv'
<1> DEFINE p == [peer[s] EXCEPT !.hung = TRUE]
<1>1. EnvironmentTypeOK' /\ UNCHANGED <<memory, loop, wire, buf, out>>
  BY FaultType DEF hang
<1>2. peer' = [peer EXCEPT ![s] = p] /\ p \in Peer
  BY PeerUpdate DEF hang, TypeInv, TypeOK, NetTypeOK
<1> HIDE DEF p
<1>3. NetTypeOK'
  BY <1>1, <1>2 DEF TypeInv, TypeOK, NetTypeOK
<1>4. QED BY <1>1, <1>3, OutsideType

LEMMA ElapseType ==
    ASSUME TypeInv, NEW s \in Slots, Elapse(s), UNCHANGED loop, EnvironmentTypeOK'
    PROVE  TypeInv'
<1> DEFINE v == [srv[s] EXCEPT !.late = TRUE]
<1>1. v \in Server /\ v.work = srv[s].work
  BY ServerUpdate DEF TypeInv, TypeOK, MemoryTypeOK
<1>2. srv' = [srv EXCEPT ![s] = v] /\ UNCHANGED <<todo, frames, running, method, file, net>>
  BY DEF Elapse
<1> HIDE DEF v
<1>3. /\ srv' \in [Slots -> Server]
      /\ \A t \in Slots : srv'[t].work = srv[t].work
  BY <1>1, <1>2 DEF TypeInv, TypeOK, MemoryTypeOK
<1>4. MemoryTypeOK' /\ NetTypeOK' /\ WorkListed'
  BY <1>2, <1>3 DEF TypeInv, TypeOK, MemoryTypeOK, NetTypeOK, net, WorkListed
<1>5. LoopTypeOK' /\ FrameListed'
  BY <1>2 DEF TypeInv, TypeOK, LoopTypeOK, loop, FrameListed
<1>6. QED BY <1>4, <1>5 DEF TypeInv, TypeOK

-----------------------------------------------------------------------------
(* The theorem.                                                            *)

LEMMA FrameListType ==
    ASSUME NEW seen \in SUBSET Pixels
    PROVE  FrameList(seen) \in Seq(SpanOfFrame)
BY ScanOfFrame DEF FrameList, SpanOfFrame

LEMMA RemrtRestartsType ==
    ASSUME TypeInv, remrt_restarts
    PROVE  TypeInv'
<1>1. srv' \in [Slots -> Server] /\ \A s \in Slots : srv'[s].work = NoWork
  BY UnusedType DEF remrt_restarts
<1>2. todo' \in [Frames -> Seq(SpanOfFrame)]
  <2>1. todo' = Rescanned
    BY DEF remrt_restarts
  <2>2. ASSUME NEW f \in Frames
        PROVE  FrameList({p \in Pixels : file[f][p] # 0}) \in Seq(SpanOfFrame)
    BY FrameListType
  <2>3. QED BY <2>1, <2>2, EmptySeq DEF Rescanned
<1>3. /\ frames' = frames /\ file' = file /\ commands' = commands
      /\ running' = TRUE /\ method' = 2 /\ backlog' = "none"
      /\ faults > 0 /\ faults' = faults - 1 /\ ifdset' = {}
  BY DEF remrt_restarts
<1>4. MemoryTypeOK'
  BY <1>1, <1>2, <1>3 DEF TypeInv, TypeOK, MemoryTypeOK
<1>5. pc' \in {"exit", "first"}
  BY DEF remrt_restarts, Leave
<1>6. LoopTypeOK'
  <2>1. sp' = 1 /\ fr' = 0 /\ another_pass' = FALSE /\ nxt_frame' = 0
    BY DEF remrt_restarts, AtRest
  <2>2. 1 \in 1 .. NSlots + 1 /\ 0 \in 0 .. NFrames /\ 0 \in 0 .. 2
    BY SizesInNat
  <2>3. sp' \in 1 .. NSlots + 1 /\ fr' \in 0 .. NFrames /\ nxt_frame' \in 0 .. 2
    BY <2>1, <2>2, Zenon
  <2>4. ifdset' \subseteq Slots /\ another_pass' \in BOOLEAN
    BY <1>3, <2>1
  <2>5. QED BY <1>5, <2>3, <2>4 DEF LoopTypeOK
<1>7. NetTypeOK'
  BY EmptySeq, NoPeerType DEF remrt_restarts, NetTypeOK
<1>8. EnvironmentTypeOK'
  BY <1>3, SizesAssumption DEF TypeInv, TypeOK, EnvironmentTypeOK
<1>9. FrameListed' /\ WorkListed'
  BY <1>1, <1>5, NoWorkType DEF FrameListed, WorkListed
<1>10. QED BY <1>4, <1>6, <1>7, <1>8, <1>9 DEF TypeInv, TypeOK

LEMMA InitType == Init => TypeInv
<1> SUFFICES ASSUME Init PROVE TypeInv
  OBVIOUS
<1>1. srv \in [Slots -> Server] /\ \A s \in Slots : srv[s].work = NoWork
  BY UnusedType DEF Init
<1>2. todo \in [Frames -> Seq(SpanOfFrame)]
  BY FrameListType, SizesAssumption DEF Init
<1>3. file \in [Frames -> [Pixels -> 0 .. Torn]]
  <2>1. 0 \in 0 .. Torn /\ \A f \in Frames : f \in 0 .. Torn
    BY SizesInNat DEF Torn, Frames
  <2>2. QED BY <2>1 DEF Init
<1>4. MemoryTypeOK
  BY <1>1, <1>2, <1>3 DEF Init, MemoryTypeOK
<1>5. LoopTypeOK
  <2>1. 1 \in 1 .. NSlots + 1 /\ 0 \in 0 .. NFrames
    BY SizesInNat
  <2>2. sp \in 1 .. NSlots + 1 /\ fr \in 0 .. NFrames /\ nxt_frame \in 0 .. 2
    BY <2>1 DEF Init
  <2>3. another_pass \in BOOLEAN /\ pc = "first" /\ ifdset \subseteq Slots
    BY DEF Init
  <2>4. QED BY <2>2, <2>3 DEF LoopTypeOK
<1>6. NetTypeOK
  BY EmptySeq, NoPeerType DEF Init, NetTypeOK
<1>7. EnvironmentTypeOK
  BY SizesAssumption DEF Init, EnvironmentTypeOK
<1>8. FrameListed /\ WorkListed
  BY <1>1, NoWorkType DEF Init, FrameListed, WorkListed
<1>9. QED BY <1>4, <1>5, <1>6, <1>7, <1>8 DEF TypeInv, TypeOK

LEMMA ReceiveType ==
    ASSUME TypeInv, Receive
    PROVE  TypeInv'
BY PhVersionType, PhDirbuildReplyType, PhGettreesReplyType, PhPixelsType,
   CdStopGoType, CdDropType, CdRestartType DEF Receive

LEMMA CheckInputType ==
    ASSUME TypeInv, CheckInput
    PROVE  TypeInv'
BY ReceiveType, ReceivedAllType, SelectType, SuckinType, SuckedAllType DEF CheckInput

LEMMA ScheduleType ==
    ASSUME TypeInv, Schedule
    PROVE  TypeInv'
<1>1. CASE AttendedAll \/ frame_is_done \/ ReapedAll \/ NothingWaits \/ PassEnds
  BY <1>1, AttendedAllType, FrameIsDoneType, ReapedAllType, NothingWaitsType, PassEndsType
<1>2. ASSUME NEW s \in Slots,
             task_none_left(s) \/ task_other_frame(s) \/ task_reserved(s)
      PROVE  TypeInv'
  BY <1>2, TaskIdleType DEF task_none_left, task_other_frame, task_reserved, Wants
<1>3. ASSUME NEW s \in Slots,
             \/ send_dirbuild(s) \/ final_close(s) \/ task_tardy(s)
             \/ task_gettrees(s) \/ task_lines(s) \/ task_dropped(s)
      PROVE  TypeInv'
  BY <1>3, SendDirbuildType, FinalCloseType, TaskTardyType, TaskGettreesType,
     TaskLinesType, TaskDroppedType
<1>4. QED BY <1>1, <1>2, <1>3 DEF Schedule

LEMMA NextType ==
    ASSUME TypeInv, [Next]_vars
    PROVE  TypeInv'
<1>1. CASE UNCHANGED vars
  <2>1. UNCHANGED <<memory, loop, net, environment>>
    BY <1>1 DEF vars
  <2>2. NetTypeOK' /\ EnvironmentTypeOK'
    BY <2>1 DEF net, environment, TypeInv, TypeOK, NetTypeOK, EnvironmentTypeOK
  <2>3. QED BY <2>1, <2>2, OutsideType
<1>2. CASE Dispatcher
  BY <1>2, CheckInputType, ScheduleType DEF Dispatcher
<1>3. ASSUME NEW s \in Slots, Worker(s) PROVE TypeInv'
  BY <1>3, RtsrvMainType, RtsrvReceiveType, RtsrvWorkType DEF Worker
<1>4. CASE call \/ call_command
  BY <1>4, CallType
<1>5. ASSUME NEW s \in Slots, crash(s) \/ hang(s) \/ slow(s) \/ hung_too_long(s)
      PROVE  TypeInv'
  <2>1. CASE crash(s) \/ hang(s)
    BY <2>1, CrashType, HangType
  <2>2. CASE slow(s)
    BY <2>2, FaultType, ElapseType DEF slow
  <2>3. CASE hung_too_long(s)
    <3>1. UNCHANGED loop /\ EnvironmentTypeOK' /\ Elapse(s)
      BY <2>3 DEF hung_too_long, environment, TypeInv, TypeOK, EnvironmentTypeOK
    <3>2. QED BY <3>1, ElapseType
  <2>4. QED BY <1>5, <2>1, <2>2, <2>3
<1>6. CASE exited
  BY <1>1, <1>6 DEF exited
<1>7. QED BY <1>1, <1>2, <1>3, <1>4, <1>5, <1>6, RemrtRestartsType DEF Next

(* Every variable of the dispatcher, the network and the workers keeps its *)
(* type, and while the dispatcher works there is a frame on its list:      *)
(* schedule never looks for the next frame of an empty list, whatever      *)
(* servers fail or are dropped meanwhile (remrt.c, schedule).              *)
THEOREM TypeCorrect == Spec => [](TypeOK /\ FrameListed /\ WorkListed)
<1>1. TypeInv /\ [Next]_vars => TypeInv'
  BY NextType
<1>2. TypeInv => TypeOK /\ FrameListed /\ WorkListed
  BY DEF TypeInv
<1>3. QED BY InitType, <1>1, <1>2, PTL DEF Spec

-----------------------------------------------------------------------------
(* No pixel is assigned twice: theorems about the work of Remrt, for any   *)
(* number of slots, frames, pixels, hosts, faults and commands.            *)
(*                                                                         *)
(* NoDoubleWork is not inductive: the span cut from the head of a list is  *)
(* free of the rest of it only because the spans of a list are apart, and  *)
(* stay so when a lost assignment is put back in front.                    *)

(* Two spans (or assignments) have no pixel in common.                     *)
Apart(a, b) == \A p \in a.lo .. a.hi : p \notin b.lo .. b.hi

ListApart(list) == \A i, j \in DOMAIN list : i # j => Apart(list[i], list[j])

AwayFrom(w, list) == \A i \in DOMAIN list : Apart(w, list[i])

(* held[s]: the assignment of slot s; td: the lists of the frames.         *)
Sound(held, td) ==
    /\ \A f \in Frames : ListApart(td[f])
    /\ \A s \in Slots : held[s].frame # 0 => AwayFrom(held[s], td[held[s].frame])
    /\ \A s, t \in Slots :
          s # t /\ held[s].frame # 0 /\ held[s].frame = held[t].frame
             => Apart(held[s], held[t])

Held == [s \in Slots |-> srv[s].work]

WorkInv == Sound(Held, todo)

Lists == [Frames -> Seq(SpanOfFrame)]
Holdings == [Slots -> Work]

-----------------------------------------------------------------------------
(* Spans and lists.                                                        *)

LEMMA WorkNumbers ==
    ASSUME NEW w \in Work
    PROVE  w.lo \in Int /\ w.hi \in Int /\ w.frame \in Frames \cup {0}
BY DEF Work, NoWork, Pixels

LEMMA SpanNumbers ==
    ASSUME NEW list \in Seq(SpanOfFrame), NEW i \in DOMAIN list
    PROVE  list[i] \in SpanOfFrame /\ list[i].lo \in Int /\ list[i].hi \in Int
<1>1. list[i] \in SpanOfFrame
  BY ElementOfSeq
<1>2. QED BY <1>1 DEF SpanOfFrame, Pixels

LEMMA ApartSymmetric ==
    ASSUME NEW a, NEW b, Apart(a, b)
    PROVE  Apart(b, a)
BY DEF Apart

(* A part of a span is apart from what the span is apart from.             *)
LEMMA ApartOfPart ==
    ASSUME NEW a, NEW b, NEW c, a.lo \in Int, a.hi \in Int, b.lo \in Int, b.hi \in Int,
           a.lo <= b.lo, b.hi <= a.hi, Apart(a, c)
    PROVE  Apart(b, c)
BY DEF Apart

(* A span that is away from a list can be put in front of it.              *)
LEMMA PutInFront ==
    ASSUME NEW list \in Seq(SpanOfFrame), NEW x \in SpanOfFrame,
           ListApart(list), AwayFrom(x, list)
    PROVE  /\ <<x>> \o list \in Seq(SpanOfFrame)
           /\ ListApart(<<x>> \o list)
           /\ \A w : Apart(w, x) /\ AwayFrom(w, list) => AwayFrom(w, <<x>> \o list)
<1> DEFINE both == <<x>> \o list
<1>1. <<x>> \in Seq(SpanOfFrame) /\ Len(<<x>>) = 1 /\ <<x>>[1] = x
  OBVIOUS
<1>2. /\ both \in Seq(SpanOfFrame)
      /\ Len(both) = 1 + Len(list)
      /\ \A i \in 1 .. 1 + Len(list) : both[i] = IF i <= 1 THEN <<x>>[i] ELSE list[i - 1]
  BY <1>1, ConcatProperties
<1>3. Len(list) \in Nat /\ DOMAIN list = 1 .. Len(list) /\ DOMAIN both = 1 .. 1 + Len(list)
  BY <1>2, LenProperties
<1> HIDE DEF both
<1>4. ASSUME NEW i \in DOMAIN both
      PROVE  \/ i = 1 /\ both[i] = x
             \/ i # 1 /\ i - 1 \in DOMAIN list /\ both[i] = list[i - 1]
  BY <1>1, <1>2, <1>3
<1>5. ASSUME NEW i \in DOMAIN both, NEW j \in DOMAIN both, i # j
      PROVE  Apart(both[i], both[j])
  <2>1. CASE i = 1
    BY <1>4, <1>5, <2>1 DEF AwayFrom
  <2>2. CASE j = 1
    BY <1>4, <1>5, <2>2, ApartSymmetric DEF AwayFrom
  <2>3. CASE i # 1 /\ j # 1
    <3>1. i - 1 # j - 1
      BY <1>3, <1>5
    <3>2. QED BY <1>4, <2>3, <3>1 DEF ListApart
  <2>4. QED BY <2>1, <2>2, <2>3
<1>6. ASSUME NEW w, Apart(w, x), AwayFrom(w, list)
      PROVE  AwayFrom(w, both)
  BY <1>4, <1>6 DEF AwayFrom
<1>7. QED BY <1>2, <1>5, <1>6 DEF ListApart, both

(* The rest of a list is apart, away from its head and from all the whole  *)
(* list is away from.                                                      *)
LEMMA TakeFromFront ==
    ASSUME NEW list \in Seq(SpanOfFrame), list # <<>>, ListApart(list)
    PROVE  /\ Head(list) \in SpanOfFrame /\ Tail(list) \in Seq(SpanOfFrame)
           /\ ListApart(Tail(list))
           /\ AwayFrom(Head(list), Tail(list))
           /\ \A w : AwayFrom(w, list) => Apart(w, Head(list)) /\ AwayFrom(w, Tail(list))
<1>1. /\ Head(list) \in SpanOfFrame /\ Tail(list) \in Seq(SpanOfFrame)
      /\ Len(Tail(list)) = Len(list) - 1
      /\ \A i \in 1 .. Len(Tail(list)) : Tail(list)[i] = list[i + 1]
  BY HeadTailProperties
<1>2. /\ Len(list) \in Nat /\ DOMAIN list = 1 .. Len(list)
      /\ DOMAIN Tail(list) = 1 .. Len(list) - 1
  BY <1>1, LenProperties
<1>3. 1 \in DOMAIN list /\ Head(list) = list[1]
  BY <1>2, EmptySeq
<1>4. ASSUME NEW i \in DOMAIN Tail(list)
      PROVE  i + 1 \in DOMAIN list /\ i + 1 # 1 /\ Tail(list)[i] = list[i + 1]
  BY <1>1, <1>2
<1>5. ListApart(Tail(list))
  <2>1. ASSUME NEW i \in DOMAIN Tail(list), NEW j \in DOMAIN Tail(list), i # j
        PROVE  Apart(Tail(list)[i], Tail(list)[j])
    <3>1. i + 1 # j + 1
      BY <1>2, <2>1
    <3>2. QED BY <1>4, <3>1 DEF ListApart
  <2>2. QED BY <2>1 DEF ListApart
<1>6. AwayFrom(Head(list), Tail(list))
  BY <1>3, <1>4 DEF ListApart, AwayFrom
<1>7. \A w : AwayFrom(w, list) => Apart(w, Head(list)) /\ AwayFrom(w, Tail(list))
  BY <1>3, <1>4 DEF AwayFrom
<1>8. QED BY <1>1, <1>5, <1>6, <1>7

-----------------------------------------------------------------------------
(* What the dispatcher does to work.                                       *)

LEMMA SoundWhenLost ==      \* servers keep their work or lose it
    ASSUME NEW held \in Holdings, NEW held2 \in Holdings, NEW td, Sound(held, td),
           \A s \in Slots : held2[s] \in {held[s], NoWork}
    PROVE  Sound(held2, td)
<1>1. NoWork.frame = 0
  BY NoWorkType
<1>2. \A s \in Slots : held2[s].frame # 0 => held2[s] = held[s]
  BY <1>1
<1>3. QED BY <1>2 DEF Sound

(* Only what no server holds any more comes before a list.                 *)
LEMMA SoundWhenRequeued ==
    ASSUME NEW held \in Holdings, NEW held2 \in Holdings, NEW td \in Lists, Sound(held, td),
           NEW s \in Slots, NEW v \in Server, v.work = held[s],
           \A t \in Slots : held2[t] \in {held[t], NoWork},
           Holds(v) => held2[s] = NoWork
    PROVE  Sound(held2, Requeued(td, v))
<1>1. Sound(held2, td)
  BY SoundWhenLost
<1>2. CASE ~(Holds(v) /\ Busy(v))
  BY <1>1, <1>2 DEF Requeued
<1>3. CASE Holds(v) /\ Busy(v)
  <2> DEFINE w == v.work
             f == w.frame
             x == Span(w.lo, w.hi)
             new == <<x>> \o td[f]
  <2>1. w \in [frame : Frames, lo : Pixels, hi : Pixels] /\ held[s] = w /\ f # 0
    BY <1>3 DEF Busy, Server, Work, NoWork
  <2>2. x \in SpanOfFrame /\ x.lo = w.lo /\ x.hi = w.hi
    BY <2>1 DEF Span, SpanOfFrame
  <2>3. f \in Frames /\ td[f] \in Seq(SpanOfFrame) /\ ListApart(td[f])
    BY <1>1, <2>1 DEF Sound, Lists
  <2>4. Requeued(td, v) = [td EXCEPT ![f] = new]
    BY <1>3 DEF Requeued
  <2>5. held2[s] = NoWork /\ NoWork.frame = 0
    BY <1>3, NoWorkType
  <2> HIDE DEF x, w, f
  <2>6. AwayFrom(x, td[f])
    <3>1. AwayFrom(w, td[f])
      BY <2>1 DEF Sound, f
    <3>2. QED BY <2>2, <3>1 DEF AwayFrom, Apart
  <2>7. /\ ListApart(new)
        /\ \A y : Apart(y, x) /\ AwayFrom(y, td[f]) => AwayFrom(y, new)
    BY <2>2, <2>3, <2>6, PutInFront
  <2> HIDE DEF new
  <2>8. ASSUME NEW g \in Frames PROVE ListApart(Requeued(td, v)[g])
    BY <1>1, <2>4, <2>7 DEF Sound, Lists
  <2>9. ASSUME NEW t \in Slots, held2[t].frame # 0
        PROVE  AwayFrom(held2[t], Requeued(td, v)[held2[t].frame])
    <3>1. t # s /\ held2[t] = held[t] /\ held2[t].frame \in Frames
      BY <2>5, <2>9, WorkNumbers DEF Holdings
    <3>2. AwayFrom(held2[t], td[held2[t].frame])
      BY <1>1, <2>9 DEF Sound
    <3>3. CASE held2[t].frame = f
      <4>1. Apart(held2[t], w)
        BY <2>1, <2>9, <3>1, <3>3 DEF Sound, f
      <4>2. Apart(held2[t], x)
        BY <2>2, <4>1 DEF Apart
      <4>3. QED BY <2>3, <2>4, <2>7, <3>2, <3>3, <4>2 DEF Lists
    <3>4. CASE held2[t].frame # f
      BY <2>4, <3>1, <3>2, <3>4 DEF Lists
    <3>5. QED BY <3>3, <3>4
  <2>10. QED BY <1>1, <2>8, <2>9 DEF Sound
<1>4. QED BY <1>2, <1>3

(* A new assignment is the front of the first span, and that is taken off. *)
LEMMA SoundWhenAssigned ==
    ASSUME TypeInv, fr \in Frames, todo[fr] # <<>>, NEW lump \in Lumps,
           NEW held \in Holdings, NEW held2 \in Holdings, Sound(held, todo),
           NEW s \in Slots, held[s].frame = 0, held2[s] = Portion(lump),
           \A t \in Slots : t # s => held2[t] = held[t]
    PROVE  Sound(held2, Without(Portion(lump)))
<1> DEFINE first == Head(todo[fr])
           rest == Tail(todo[fr])
           w == Portion(lump)
           new == IF w.hi = first.hi THEN rest ELSE <<Span(w.hi + 1, first.hi)>> \o rest
<1>1. todo[fr] \in Seq(SpanOfFrame) /\ todo[fr] # <<>> /\ ListApart(todo[fr])
  BY DEF TypeInv, TypeOK, MemoryTypeOK, Sound
<1>2. /\ first \in SpanOfFrame /\ rest \in Seq(SpanOfFrame) /\ ListApart(rest)
      /\ AwayFrom(first, rest)
      /\ \A y : AwayFrom(y, todo[fr]) => Apart(y, first) /\ AwayFrom(y, rest)
  BY <1>1, TakeFromFront
<1>3. first.lo \in Pixels /\ first.hi \in Pixels /\ lump \in Nat \ {0}
  BY <1>2, SizesAssumption DEF SpanOfFrame
<1>4. /\ w.frame = fr /\ w.lo = first.lo
      /\ w.hi = IF first.lo + lump - 1 >= first.hi THEN first.hi
                                                   ELSE first.lo + lump - 1
  BY DEF Portion
<1>5. w \in Work
  BY PortionType
<1>6. Without(w) = [todo EXCEPT ![fr] = new]
  BY DEF Without
<1> HIDE DEF first, rest, w
<1>7. /\ first.lo \in Int /\ first.hi \in Int /\ w.lo \in Int /\ w.hi \in Int
      /\ first.lo <= w.lo /\ w.hi <= first.hi
      /\ (w.hi # first.hi => w.hi + 1 \in Pixels /\ w.lo < w.hi + 1)
  BY <1>3, <1>4, SizesInNat DEF Pixels
<1>8. AwayFrom(w, rest)
  BY <1>2, <1>7, ApartOfPart DEF AwayFrom
<1>9. /\ new \in Seq(SpanOfFrame) /\ ListApart(new) /\ AwayFrom(w, new)
      /\ \A y : AwayFrom(y, todo[fr]) => AwayFrom(y, new)
  <2>1. CASE w.hi = first.hi
    BY <1>2, <1>8, <2>1
  <2>2. CASE w.hi # first.hi
    <3> DEFINE x == Span(w.hi + 1, first.hi)
    <3>1. x \in SpanOfFrame /\ x.lo = w.hi + 1 /\ x.hi = first.hi
      BY <1>3, <1>7, <2>2 DEF Span, SpanOfFrame
    <3>2. new = <<x>> \o rest
      BY <2>2
    <3> HIDE DEF x
    <3>3. AwayFrom(x, rest)
      <4>1. first.lo <= x.lo /\ x.hi <= first.hi /\ x.lo \in Int /\ x.hi \in Int
        BY <1>4, <1>7, <2>2, <3>1
      <4>2. QED BY <1>2, <1>7, <4>1, ApartOfPart DEF AwayFrom
    <3>4. Apart(w, x)
      BY <1>7, <3>1 DEF Apart
    <3>5. ASSUME NEW y, AwayFrom(y, todo[fr]) PROVE Apart(y, x) /\ AwayFrom(y, rest)
      <4>1. Apart(first, y) /\ AwayFrom(y, rest)
        BY <1>2, <3>5, ApartSymmetric
      <4>2. first.lo <= x.lo /\ x.hi <= first.hi /\ x.lo \in Int /\ x.hi \in Int
        BY <1>4, <1>7, <2>2, <3>1
      <4>3. Apart(x, y)
        BY <1>7, <4>1, <4>2, ApartOfPart
      <4>4. QED BY <4>1, <4>3, ApartSymmetric
    <3>6. /\ <<x>> \o rest \in Seq(SpanOfFrame)
          /\ ListApart(<<x>> \o rest)
          /\ \A y : Apart(y, x) /\ AwayFrom(y, rest) => AwayFrom(y, <<x>> \o rest)
      BY <1>2, <3>1, <3>3, PutInFront
    <3> HIDE DEF new
    <3>7. QED BY <1>8, <3>2, <3>4, <3>5, <3>6
  <2>3. QED BY <2>1, <2>2
<1> HIDE DEF new
<1>10. todo \in Lists /\ fr # 0
  BY SizesInNat DEF TypeInv, TypeOK, MemoryTypeOK, Lists, Frames
<1>11. ASSUME NEW g \in Frames PROVE ListApart(Without(w)[g])
  BY <1>6, <1>9, <1>10 DEF Sound, Lists
<1>12. held2[s] = w /\ \A t \in Slots : t # s => held2[t] = held[t]
  BY DEF w
<1>13. ASSUME NEW t \in Slots, held2[t].frame # 0
       PROVE  AwayFrom(held2[t], Without(w)[held2[t].frame])
  <2>1. CASE t = s
    BY <1>4, <1>6, <1>9, <1>10, <1>12, <2>1 DEF Lists
  <2>2. CASE t # s
    <3>1. held2[t] = held[t] /\ held2[t].frame \in Frames
      BY <1>12, <1>13, <2>2, WorkNumbers DEF Holdings
    <3>2. AwayFrom(held2[t], todo[held2[t].frame])
      BY <1>13, <3>1 DEF Sound
    <3>3. CASE held2[t].frame = fr
      BY <1>6, <1>9, <1>10, <3>2, <3>3 DEF Lists
    <3>4. CASE held2[t].frame # fr
      BY <1>6, <1>10, <3>1, <3>2, <3>4 DEF Lists
    <3>5. QED BY <3>3, <3>4
  <2>3. QED BY <2>1, <2>2
<1>14. ASSUME NEW t \in Slots, t # s, held[t].frame = fr
       PROVE  Apart(held[t], w) /\ Apart(w, held[t])
  <2>1. AwayFrom(held[t], todo[fr])
    BY <1>10, <1>14 DEF Sound
  <2>2. Apart(first, held[t])
    BY <1>2, <2>1, ApartSymmetric
  <2>3. Apart(w, held[t])
    BY <1>7, <2>2, ApartOfPart
  <2>4. QED BY <2>3, ApartSymmetric
<1>15. ASSUME NEW t \in Slots, NEW u \in Slots, t # u, held2[t].frame # 0,
              held2[t].frame = held2[u].frame
       PROVE  Apart(held2[t], held2[u])
  <2>1. CASE t = s
    BY <1>4, <1>12, <1>14, <1>15, <2>1
  <2>2. CASE u = s
    BY <1>4, <1>12, <1>14, <1>15, <2>2
  <2>3. CASE t # s /\ u # s
    BY <1>12, <1>15, <2>3 DEF Sound
  <2>4. QED BY <2>1, <2>2, <2>3
<1>16. Sound(held2, Without(w))
  BY <1>11, <1>13, <1>15 DEF Sound
<1>17. QED BY <1>16 DEF w

-----------------------------------------------------------------------------
(* The steps.                                                              *)

LEMMA HeldType ==
    ASSUME TypeInv
    PROVE  Held \in Holdings /\ todo \in Lists
BY DEF Held, Holdings, Lists, TypeInv, TypeOK, MemoryTypeOK, Server

LEMMA KeptWork ==           \* no list changes, and no server gets work
    ASSUME TypeInv, TypeInv', WorkInv, todo' = todo,
           \A t \in Slots : srv'[t].work \in {srv[t].work, NoWork}
    PROVE  WorkInv'
<1>1. Held \in Holdings /\ Held' \in Holdings
  <2>1. (Held \in Holdings)'
    BY HeldType, PTL
  <2>2. QED BY <2>1, HeldType DEF Holdings
<1>2. \A t \in Slots : Held'[t] \in {Held[t], NoWork}
  BY DEF Held
<1>3. Sound(Held', todo)
  BY <1>1, <1>2, SoundWhenLost DEF WorkInv
<1>4. QED BY <1>3 DEF WorkInv, Sound

LEMMA PutBackWork ==        \* the assignment of one server goes back
    ASSUME TypeInv, TypeInv', WorkInv, NEW s \in Slots, todo' = Requeued(todo, srv[s]),
           \A t \in Slots : srv'[t].work \in {srv[t].work, NoWork},
           Holds(srv[s]) => srv'[s].work = NoWork
    PROVE  WorkInv'
<1>1. Held \in Holdings /\ Held' \in Holdings /\ todo \in Lists
  <2>1. (Held \in Holdings)'
    BY HeldType, PTL
  <2>2. QED BY <2>1, HeldType DEF Holdings
<1>2. \A t \in Slots : Held'[t] \in {Held[t], NoWork}
  BY DEF Held
<1>3. srv[s] \in Server /\ srv[s].work = Held[s] /\ (Holds(srv[s]) => Held'[s] = NoWork)
  BY DEF Held, TypeInv, TypeOK, MemoryTypeOK
<1>4. Sound(Held', Requeued(todo, srv[s]))
  BY <1>1, <1>2, <1>3, SoundWhenRequeued DEF WorkInv
<1>5. QED BY <1>4 DEF WorkInv, Sound

LEMMA DropWork ==
    ASSUME TypeInv, TypeInv', WorkInv, NEW s \in Slots, Drop(s)
    PROVE  WorkInv'
<1>1. srv' = [srv EXCEPT ![s] = Dropped(srv[s])] /\ todo' = Requeued(todo, srv[s])
  BY DEF Drop
<1>2. srv[s] \in Server /\ srv \in [Slots -> Server]
  BY DEF TypeInv, TypeOK, MemoryTypeOK
<1>3. Holds(srv[s]) => srv'[s].work = NoWork
  BY <1>1, <1>2, DroppedType
<1>4. QED BY <1>1, <1>3, DropType, PutBackWork

LEMMA StateWork ==          \* statechange
    ASSUME TypeInv, TypeInv', WorkInv, NEW s \in Slots, NEW x \in States,
           srv' = [srv EXCEPT ![s].state = x], todo' = todo
    PROVE  WorkInv'
BY StateChange, KeptWork

LEMMA PhPixelsWork ==
    ASSUME TypeInv, TypeInv', WorkInv, NEW s \in Slots, ph_pixels(s)
    PROVE  WorkInv'
<1>1. CASE UNCHANGED <<srv, todo>>
  BY <1>1, KeptWork
<1>2. CASE Drop(s)
  BY <1>2, DropWork
<1>3. CASE srv' = [srv EXCEPT ![s].work = NoWork, ![s].late = FALSE] /\ UNCHANGED todo
  <2> DEFINE a == [srv[s] EXCEPT !.work = NoWork]
             b == [a EXCEPT !.late = FALSE]
  <2>1. srv[s] \in Server
    BY DEF TypeInv, TypeOK, MemoryTypeOK
  <2>2. a \in Server /\ a.work = NoWork
    BY <2>1, ServerUpdate, NoWorkType
  <2>3. srv' = [srv EXCEPT ![s] = b]
    BY <1>3 DEF TypeInv, TypeOK, MemoryTypeOK
  <2> HIDE DEF a
  <2>4. b \in Server /\ b.work = NoWork
    BY <2>2, ServerUpdate
  <2> HIDE DEF b
  <2>5. QED BY <1>3, <2>3, <2>4, OneServer, KeptWork
<1>4. QED BY <1>1, <1>2, <1>3 DEF ph_pixels, FilePixels, CannotOpen, CannotWrite

LEMMA CdDropWork ==
    ASSUME TypeInv, TypeInv', WorkInv, NEW s \in Slots, cd_drop(s)
    PROVE  WorkInv'
<1> DEFINE t == Head(buf[s]).command.slot
<1>1. Receiving(s, "CMD") /\ Head(buf[s]).command.cmd = "drop"
  BY DEF cd_drop
<1>2. t \in Slots
  BY <1>1, ReceivingType, CommandsAssumption DEF Report
<1>3. CASE Occupied(t)
  <2>1. srv' = [r \in Slots |-> IF r \in {s, t} THEN Dropped(srv[r]) ELSE srv[r]]
        /\ todo' = Requeued(todo, srv[t])
    BY <1>3 DEF cd_drop
  <2>2. \A r \in Slots : /\ Dropped(srv[r]) \in Server
                        /\ Dropped(srv[r]).work \in {srv[r].work, NoWork}
    BY DroppedType DEF TypeInv, TypeOK, MemoryTypeOK
  <2> HIDE DEF t
  <2>3. \A r \in Slots : srv'[r].work \in {srv[r].work, NoWork}
    BY <2>1, <2>2
  <2>4. Holds(srv[t]) => srv'[t].work = NoWork
    <3>1. srv'[t] = Dropped(srv[t]) /\ srv[t] \in Server
      BY <1>2, <2>1 DEF TypeInv, TypeOK, MemoryTypeOK
    <3>2. QED BY <3>1, DroppedType
  <2>5. QED BY <1>2, <2>1, <2>3, <2>4, PutBackWork
<1>4. CASE ~Occupied(t)
  BY <1>4, DropWork DEF cd_drop
<1>5. QED BY <1>3, <1>4

LEMMA CdRestartWork ==
    ASSUME TypeInv, TypeInv', WorkInv, NEW s \in Slots, cd_restart(s)
    PROVE  WorkInv'
<1> DEFINE t == Head(buf[s]).command.slot
           After(v) == [[srv EXCEPT ![t] = [v EXCEPT !.state = "RESTART"]]
                            EXCEPT ![s] = Dropped(@)]
<1>1. Receiving(s, "CMD") /\ Head(buf[s]).command.cmd = "restart"
  BY DEF cd_restart
<1>2. t \in Slots
  BY <1>1, ReceivingType, CommandsAssumption DEF Report
<1>3. CASE ~Occupied(t)
  BY <1>3, DropWork DEF cd_restart
<1>4. CASE Occupied(t)
  <2>1. \/ srv' = After(srv[t]) /\ todo' = todo
        \/ srv' = After(Dropped(srv[t])) /\ todo' = Requeued(todo, srv[t])
    BY <1>4 DEF cd_restart
  <2> HIDE DEF t
  <2>2. /\ srv[t] \in Server /\ Dropped(srv[t]) \in Server
        /\ Dropped(srv[t]).work \in {srv[t].work, NoWork}
        /\ Holds(srv[t]) => Dropped(srv[t]).work = NoWork
    BY <1>2, DroppedType DEF TypeInv, TypeOK, MemoryTypeOK
  <2>3. ASSUME NEW u \in Server, u.work \in {srv[t].work, NoWork}, srv' = After(u)
        PROVE  /\ \A r \in Slots : srv'[r].work \in {srv[r].work, NoWork}
               /\ srv'[t].work \in {u.work, NoWork}
    <3> DEFINE v == [u EXCEPT !.state = "RESTART"]
               mid == [srv EXCEPT ![t] = v]
    <3>1. v \in Server /\ v.work = u.work
      BY <2>3, ServerUpdate DEF States
    <3>2. srv' = [mid EXCEPT ![s] = Dropped(mid[s])]
      BY <2>3
    <3> HIDE DEF v
    <3>3. /\ mid \in [Slots -> Server] /\ mid[t].work = u.work
          /\ \A r \in Slots : mid[r].work \in {srv[r].work, NoWork}
      BY <1>2, <2>3, <3>1 DEF TypeInv, TypeOK, MemoryTypeOK
    <3> HIDE DEF mid, After
    <3>4. Dropped(mid[s]).work \in {mid[s].work, NoWork}
      BY <3>3, DroppedType
    <3>5. QED BY <1>2, <3>2, <3>3, <3>4
  <2> HIDE DEF After
  <2>4. CASE srv' = After(srv[t]) /\ todo' = todo
    BY <2>2, <2>3, <2>4, KeptWork
  <2>5. CASE srv' = After(Dropped(srv[t])) /\ todo' = Requeued(todo, srv[t])
    <3>1. /\ \A r \in Slots : srv'[r].work \in {srv[r].work, NoWork}
          /\ srv'[t].work \in {Dropped(srv[t]).work, NoWork}
      BY <2>2, <2>3, <2>5
    <3>2. Holds(srv[t]) => srv'[t].work = NoWork
      BY <2>2, <3>1
    <3>3. QED BY <1>2, <2>5, <3>1, <3>2, PutBackWork
  <2>6. QED BY <2>1, <2>4, <2>5
<1>5. QED BY <1>3, <1>4

LEMMA ReceiveWork ==
    ASSUME TypeInv, TypeInv', WorkInv, Receive
    PROVE  WorkInv'
<1>1. ASSUME NEW s \in Slots, ph_version(s) \/ ph_dirbuild_reply(s) \/ ph_gettrees_reply(s)
      PROVE  WorkInv'
  <2>1. CASE Drop(s)
    BY <2>1, DropWork
  <2>2. CASE /\ \E x \in {"VERSOK", "NEED_TREE", "READY"} : srv' = [srv EXCEPT ![s].state = x]
             /\ todo' = todo
    BY <2>2, StateWork DEF States
  <2>3. QED BY <1>1, <2>1, <2>2 DEF ph_version, ph_dirbuild_reply, ph_gettrees_reply
<1>2. ASSUME NEW s \in Slots, cd_stop_go(s) PROVE WorkInv'
  BY <1>2, DropWork DEF cd_stop_go
<1>3. QED BY <1>1, <1>2, PhPixelsWork, CdDropWork, CdRestartWork DEF Receive

LEMMA CheckInputWork ==
    ASSUME TypeInv, TypeInv', WorkInv, CheckInput
    PROVE  WorkInv'
<1>1. CASE ReceivedAll \/ SuckedAll
  BY <1>1, KeptWork DEF ReceivedAll, SuckedAll, memory
<1>2. CASE select
  <2> DEFINE new == [Unused EXCEPT !.state = "NEW", !.polled = TRUE]
  <2>1. new.work = NoWork
    BY UnusedType
  <2>2. todo' = todo /\ (srv' = srv \/ srv' = [srv EXCEPT ![Min(Free)] = new])
    BY <1>2 DEF select
  <2> HIDE DEF new
  <2>3. \A t \in Slots : srv'[t].work \in {srv[t].work, NoWork}
    BY <2>1, <2>2 DEF TypeInv, TypeOK, MemoryTypeOK
  <2>4. QED BY <2>2, <2>3, KeptWork
<1>3. ASSUME NEW s \in Slots, suckin(s) PROVE WorkInv'
  BY <1>3, DropWork, KeptWork DEF suckin
<1>4. QED BY <1>1, <1>2, <1>3, ReceiveWork DEF CheckInput

(* An assignment, whether its sending succeeds or fails.                   *)
LEMMA AssignedSound ==
    ASSUME TypeInv, WorkInv, fr \in Frames, todo[fr] # <<>>, NEW lump \in Lumps,
           NEW s \in Slots, ~Busy(srv[s])
    PROVE  LET w == Portion(lump)
               held == [Held EXCEPT ![s] = w]
           IN  /\ w \in Work /\ Without(w) \in Lists /\ held \in Holdings
               /\ Sound(held, Without(w))
<1> DEFINE w == Portion(lump)
           held == [Held EXCEPT ![s] = w]
<1>1. w \in Work /\ Without(w) \in Lists
  BY PortionType DEF Lists
<1>2. Held \in Holdings /\ Held[s].frame = 0
  BY HeldType DEF Held, Busy
<1>3. held[s] = w /\ held \in Holdings /\ \A t \in Slots : t # s => held[t] = Held[t]
  BY <1>1, <1>2 DEF Holdings
<1>4. held[s] = Portion(lump)
  BY <1>3
<1> HIDE DEF held
<1>5. Sound(held, Without(Portion(lump)))
  BY <1>2, <1>3, <1>4, SoundWhenAssigned DEF WorkInv
<1>6. QED BY <1>1, <1>3, <1>5 DEF held

LEMMA TaskingFacts ==
    ASSUME TypeInv, NEW s \in Slots, Wants(s)
    PROVE  fr \in Frames /\ todo[fr] # <<>> /\ ~Busy(srv[s]) /\ srv[s] \in Server
BY DEF Wants, Tasking, TypeInv, TypeOK, MemoryTypeOK, FrameListed

LEMMA TaskLinesWork ==
    ASSUME TypeInv, TypeInv', WorkInv, NEW s \in Slots, task_lines(s)
    PROVE  WorkInv'
<1>1. fr \in Frames /\ todo[fr] # <<>> /\ ~Busy(srv[s]) /\ srv[s] \in Server
  BY TaskingFacts DEF task_lines
<1> DEFINE Given(w) == [srv[s] EXCEPT !.cur = fr, !.work = w, !.late = FALSE]
<1>2. PICK lump \in Lumps :
        LET w == Portion(lump)
        IN  \/ /\ srv' = [srv EXCEPT ![s] = Given(w)]
               /\ todo' = Without(w)
            \/ /\ srv' = [srv EXCEPT ![s] = Dropped(Given(w))]
               /\ todo' = Requeued(Without(w), Given(w))
  BY DEF task_lines
<1> DEFINE w == Portion(lump)
           held == [Held EXCEPT ![s] = w]
<1>3. w \in Work /\ Without(w) \in Lists /\ held \in Holdings /\ Sound(held, Without(w))
  BY <1>1, AssignedSound
<1> HIDE DEF w
<1>4. fr \in 0 .. NFrames
  BY <1>1, FrameNumbers
<1>5. Given(w) \in Server /\ Given(w).work = w
  <2> DEFINE a == [srv[s] EXCEPT !.cur = fr]
             b == [a EXCEPT !.work = w]
             c == [b EXCEPT !.late = FALSE]
  <2>1. Given(w) = c
    OBVIOUS
  <2>2. a \in Server
    BY <1>1, <1>4, ServerUpdate
  <2> HIDE DEF a, Given
  <2>3. b \in Server /\ b.work = w
    BY <1>3, <2>2, ServerUpdate
  <2> HIDE DEF b
  <2>4. c \in Server /\ c.work = w
    BY <2>3, ServerUpdate
  <2>5. QED BY <2>1, <2>4
<1> HIDE DEF Given
<1>6. srv \in [Slots -> Server] /\ Held = [t \in Slots |-> srv[t].work]
      /\ Held' = [t \in Slots |-> srv'[t].work]
  BY DEF Held, TypeInv, TypeOK, MemoryTypeOK
<1>7. CASE srv' = [srv EXCEPT ![s] = Given(w)] /\ todo' = Without(w)
  <2>1. Held' = held
    BY <1>5, <1>6, <1>7
  <2>2. QED BY <1>3, <1>7, <2>1 DEF WorkInv, Sound
<1>8. CASE /\ srv' = [srv EXCEPT ![s] = Dropped(Given(w))]
           /\ todo' = Requeued(Without(w), Given(w))
  <2>1. /\ Dropped(Given(w)).work \in {w, NoWork}
        /\ Holds(Given(w)) => Dropped(Given(w)).work = NoWork
    BY <1>5, DroppedType
  <2>2. /\ Held'[s] = Dropped(Given(w)).work /\ held[s] = w
        /\ \A t \in Slots : t # s => Held'[t] = held[t]
    BY <1>6, <1>8
  <2>3. Held' \in Holdings
    <3>1. (Held \in Holdings)'
      BY HeldType, PTL
    <3>2. QED BY <3>1 DEF Holdings
  <2> HIDE DEF held
  <2>4. \A t \in Slots : Held'[t] \in {held[t], NoWork}
    BY <2>1, <2>2
  <2>5. Holds(Given(w)) => Held'[s] = NoWork
    BY <2>1, <2>2
  <2>6. Sound(Held', Requeued(Without(w), Given(w)))
    BY <1>3, <1>5, <2>2, <2>3, <2>4, <2>5, SoundWhenRequeued
  <2>7. QED BY <1>8, <2>6 DEF WorkInv, Sound
<1>9. QED BY <1>2, <1>7, <1>8 DEF w

LEMMA TaskDroppedWork ==
    ASSUME TypeInv, TypeInv', WorkInv, NEW s \in Slots, task_dropped(s)
    PROVE  WorkInv'
<1>1. fr \in Frames /\ todo[fr] # <<>> /\ ~Busy(srv[s]) /\ srv[s] \in Server
  BY TaskingFacts DEF task_dropped
<1> DEFINE Given(w) == [Dropped(srv[s]) EXCEPT !.work = w, !.late = FALSE]
<1>2. PICK lump \in Lumps : LET w == Portion(lump)
                            IN  srv' = [srv EXCEPT ![s] = Given(w)] /\ todo' = Without(w)
  BY DEF task_dropped, TypeInv, TypeOK, MemoryTypeOK
<1> DEFINE w == Portion(lump)
           held == [Held EXCEPT ![s] = w]
<1>3. w \in Work /\ Without(w) \in Lists /\ held \in Holdings /\ Sound(held, Without(w))
  BY <1>1, AssignedSound
<1> HIDE DEF w
<1>4. Given(w).work = w
  <2> DEFINE a == [Dropped(srv[s]) EXCEPT !.work = w]
             b == [a EXCEPT !.late = FALSE]
  <2>1. Given(w) = b
    OBVIOUS
  <2>2. a \in Server /\ a.work = w
    BY <1>1, <1>3, DroppedType, ServerUpdate
  <2> HIDE DEF a, Given
  <2>3. QED BY <2>1, <2>2, ServerUpdate
<1> HIDE DEF Given
<1>5. srv' = [srv EXCEPT ![s] = Given(w)] /\ todo' = Without(w)
  BY <1>2 DEF w
<1>6. Held' = held
  BY <1>4, <1>5 DEF Held, TypeInv, TypeOK, MemoryTypeOK
<1>7. QED BY <1>3, <1>5, <1>6 DEF WorkInv, Sound

LEMMA ScheduleWork ==
    ASSUME TypeInv, TypeInv', WorkInv, Schedule
    PROVE  WorkInv'
<1>1. CASE AttendedAll \/ ReapedAll \/ NothingWaits \/ PassEnds
  BY <1>1, KeptWork DEF AttendedAll, ReapedAll, NothingWaits, PassEnds, memory
<1>2. CASE frame_is_done
  <2>1. \A s \in Slots : [srv[s] EXCEPT !.cur = 0].work = srv[s].work
    BY ServerUpdate, SizesInNat DEF TypeInv, TypeOK, MemoryTypeOK
  <2>2. PICK f : srv' = [s \in Slots |-> IF srv[s].cur = f THEN [srv[s] EXCEPT !.cur = 0]
                                                           ELSE srv[s]]
    BY <1>2 DEF frame_is_done
  <2>3. \A s \in Slots : srv'[s].work = srv[s].work
    BY <2>1, <2>2
  <2>4. QED BY <1>2, <2>3, KeptWork DEF frame_is_done
<1>3. ASSUME NEW s \in Slots,
             task_none_left(s) \/ task_other_frame(s) \/ task_reserved(s)
      PROVE  WorkInv'
  BY <1>3, KeptWork DEF task_none_left, task_other_frame, task_reserved
<1>4. ASSUME NEW s \in Slots, send_dirbuild(s) PROVE WorkInv'
  BY <1>4, StateWork, DropWork DEF send_dirbuild, States
<1>5. ASSUME NEW s \in Slots, final_close(s) PROVE WorkInv'
  <2>1. srv' = [srv EXCEPT ![s] = Unused] /\ todo' = todo
    BY <1>5 DEF final_close
  <2>2. QED BY <2>1, UnusedType, OneServer, KeptWork
<1>6. ASSUME NEW s \in Slots, task_tardy(s) PROVE WorkInv'
  BY <1>6, DropWork DEF task_tardy
<1>7. ASSUME NEW s \in Slots, task_gettrees(s) PROVE WorkInv'
  <2>1. CASE Drop(s)
    BY <2>1, DropWork
  <2>2. CASE /\ srv' = [srv EXCEPT ![s].cur = fr, ![s].state = "DOING_GETTREES"]
             /\ todo' = todo
    <3>1. srv[s] \in Server /\ fr \in 0 .. NFrames
      BY <1>7, TaskingFacts, FrameNumbers DEF task_gettrees
    <3> DEFINE a == [srv[s] EXCEPT !.cur = fr]
               b == [a EXCEPT !.state = "DOING_GETTREES"]
    <3>2. a \in Server /\ a.work = srv[s].work
      BY <3>1, ServerUpdate
    <3>3. srv' = [srv EXCEPT ![s] = b]
      BY <2>2
    <3> HIDE DEF a
    <3>4. b \in Server /\ b.work = srv[s].work
      BY <3>2, ServerUpdate DEF States
    <3> HIDE DEF b
    <3>5. QED BY <2>2, <3>3, <3>4, OneServer, KeptWork
  <2>3. QED BY <1>7, <2>1, <2>2 DEF task_gettrees
<1>8. QED BY <1>1, <1>2, <1>3, <1>4, <1>5, <1>6, <1>7, TaskLinesWork, TaskDroppedWork
          DEF Schedule

LEMMA FrameListApart ==
    ASSUME NEW seen \in SUBSET Pixels
    PROVE  ListApart(FrameList(seen))
<1> DEFINE list == ScanFrame(NPixels, seen)
<1>1. /\ FrameList(seen) = list
      /\ list \in Seq(SpanOfFrame)
      /\ \A i, j \in DOMAIN list : i < j => list[i].hi < list[j].lo
  BY ScanOfFrame DEF FrameList, SpanOfFrame
<1> HIDE DEF list
<1>2. DOMAIN list \subseteq Int
  BY <1>1, LenProperties
<1>3. ASSUME NEW i \in DOMAIN list, NEW j \in DOMAIN list, i # j
      PROVE  Apart(list[i], list[j])
  <2>1. /\ list[i].lo \in Int /\ list[i].hi \in Int
        /\ list[j].lo \in Int /\ list[j].hi \in Int
    BY <1>1, SpanNumbers
  <2>2. list[i].hi < list[j].lo \/ list[j].hi < list[i].lo
    BY <1>1, <1>2, <1>3
  <2>3. QED BY <2>1, <2>2 DEF Apart
<1>4. QED BY <1>1, <1>3 DEF ListApart

LEMMA RemrtRestartsWork ==
    ASSUME remrt_restarts
    PROVE  WorkInv'
<1>1. \A s \in Slots : Held'[s] = NoWork
  <2>1. \A s \in Slots : srv'[s].work = NoWork
    BY UnusedType DEF remrt_restarts
  <2>2. QED BY <2>1 DEF Held
<1>2. ASSUME NEW f \in Frames PROVE ListApart(todo'[f])
  <2>1. todo' = Rescanned
    BY DEF remrt_restarts
  <2>2. ListApart(FrameList({p \in Pixels : file[f][p] # 0})) /\ ListApart(<<>>)
    BY FrameListApart DEF ListApart
  <2>3. QED BY <2>1, <2>2 DEF Rescanned
<1>3. QED BY <1>1, <1>2, NoWorkType DEF WorkInv, Sound

LEMMA NextWork ==
    ASSUME TypeInv, TypeInv', WorkInv, [Next]_vars
    PROVE  WorkInv'
<1>1. CASE UNCHANGED memory
  BY <1>1, KeptWork DEF memory
<1>2. CASE Dispatcher
  BY <1>2, CheckInputWork, ScheduleWork DEF Dispatcher
<1>3. ASSUME NEW s \in Slots, Elapse(s) PROVE WorkInv'
  <2> DEFINE v == [srv[s] EXCEPT !.late = TRUE]
  <2>1. v \in Server /\ v.work = srv[s].work
    BY ServerUpdate DEF TypeInv, TypeOK, MemoryTypeOK
  <2>2. srv' = [srv EXCEPT ![s] = v] /\ todo' = todo
    BY <1>3 DEF Elapse
  <2> HIDE DEF v
  <2>3. QED BY <2>1, <2>2, OneServer, KeptWork
<1>4. ASSUME NEW s \in Slots,
             Worker(s) \/ crash(s) \/ hang(s) \/ slow(s) \/ hung_too_long(s)
      PROVE  UNCHANGED memory \/ Elapse(s)
  BY <1>4 DEF Worker, rtsrv_main, rtsrv_receive, rtsrv_work, crash, hang, slow, hung_too_long
<1>5. CASE call \/ call_command \/ exited \/ UNCHANGED vars
  BY <1>1, <1>5 DEF call, call_command, exited, vars
<1>6. QED BY <1>1, <1>2, <1>3, <1>4, <1>5, RemrtRestartsWork DEF Next

LEMMA InitWork == Init => WorkInv
<1> SUFFICES ASSUME Init PROVE WorkInv
  OBVIOUS
<1>1. \A s \in Slots : Held[s] = NoWork
  <2>1. \A s \in Slots : srv[s].work = NoWork
    BY UnusedType DEF Init
  <2>2. QED BY <2>1 DEF Held
<1>2. ASSUME NEW f \in Frames PROVE ListApart(todo[f])
  <2>1. todo[f] = FrameList(Prior[f]) /\ Prior[f] \in SUBSET Pixels
    BY SizesAssumption DEF Init
  <2>2. QED BY <2>1, FrameListApart
<1>3. QED BY <1>1, <1>2, NoWorkType DEF WorkInv, Sound

LEMMA WorkIsApart == WorkInv => NoDoubleWork
<1> SUFFICES ASSUME WorkInv PROVE NoDoubleWork
  OBVIOUS
<1>1. \A s \in Slots : Held[s] = srv[s].work
  BY DEF Held
<1>2. ASSUME NEW s \in Slots, NEW t \in Slots, s # t,
             NEW job \in JobsOf(srv[s].work) \cap JobsOf(srv[t].work)
      PROVE  FALSE
  <2>1. /\ srv[s].work.frame # 0 /\ job[1] = srv[s].work.frame
        /\ job[1] = srv[t].work.frame
        /\ job[2] \in srv[s].work.lo .. srv[s].work.hi
        /\ job[2] \in srv[t].work.lo .. srv[t].work.hi
    BY <1>2 DEF JobsOf
  <2>2. QED BY <1>1, <1>2, <2>1 DEF WorkInv, Sound, Apart
<1>3. ASSUME NEW s \in Slots, NEW job \in JobsOf(srv[s].work) \cap Waiting
      PROVE  FALSE
  <2>1. /\ srv[s].work.frame # 0 /\ job[1] = srv[s].work.frame
        /\ job[2] \in srv[s].work.lo .. srv[s].work.hi
    BY <1>3 DEF JobsOf
  <2>2. PICK f \in Frames : job \in {f} \X SpanPixels(todo[f])
    BY <1>3 DEF Waiting
  <2>3. PICK i \in DOMAIN todo[f] : job[2] \in todo[f][i].lo .. todo[f][i].hi
    BY <2>2 DEF SpanPixels
  <2>4. job[1] = f
    BY <2>2
  <2>5. QED BY <1>1, <2>1, <2>3, <2>4 DEF WorkInv, Sound, AwayFrom, Apart
<1>4. QED BY <1>2, <1>3 DEF NoDoubleWork

(* No pixel is assigned to two servers, and none that is assigned waits to *)
(* be assigned again: however servers fail, are dropped or are restarted,  *)
(* and however often work is cut off a list (task_server, send_do_lines)   *)
(* and put back (drop_server).                                             *)
THEOREM NoWorkTwice == Spec => []NoDoubleWork
<1>1. TypeInv /\ TypeInv' /\ WorkInv /\ [Next]_vars => WorkInv'
  BY NextWork
<1>2. TypeInv /\ [Next]_vars => TypeInv'
  BY NextType
<1>3. QED BY InitType, InitWork, WorkIsApart, <1>1, <1>2, PTL DEF Spec

-----------------------------------------------------------------------------
(* What becomes of a pixel: nothing that is in a file is computed again.   *)
(* Each step of remrt is one of a few moves of work; the theorem, and      *)
(* those of part 2, are inductions over the moves.                         *)

(* A pixel is due when it waits on its frame's list or is assigned.        *)

OnList(p, list) == \E i \in DOMAIN list : p \in list[i].lo .. list[i].hi

OfWork(f, p, w) == w.frame = f /\ p \in w.lo .. w.hi

Due(f, p) == OnList(p, todo[f]) \/ \E s \in Slots : OfWork(f, p, srv[s].work)

LEMMA OnFront ==
    ASSUME NEW list \in Seq(SpanOfFrame), NEW x \in SpanOfFrame, NEW p
    PROVE  OnList(p, <<x>> \o list) <=> p \in x.lo .. x.hi \/ OnList(p, list)
<1> DEFINE both == <<x>> \o list
<1>1. <<x>> \in Seq(SpanOfFrame) /\ Len(<<x>>) = 1 /\ <<x>>[1] = x
  OBVIOUS
<1>2. /\ both \in Seq(SpanOfFrame)
      /\ Len(both) = 1 + Len(list)
      /\ \A i \in 1 .. 1 + Len(list) : both[i] = IF i <= 1 THEN <<x>>[i] ELSE list[i - 1]
  BY <1>1, ConcatProperties
<1>3. Len(list) \in Nat /\ DOMAIN list = 1 .. Len(list) /\ DOMAIN both = 1 .. 1 + Len(list)
  BY <1>2, LenProperties
<1> HIDE DEF both
<1>4. ASSUME NEW i \in DOMAIN both
      PROVE  both[i] = x \/ (i - 1 \in DOMAIN list /\ both[i] = list[i - 1])
  BY <1>1, <1>2, <1>3
<1>5. 1 \in DOMAIN both /\ both[1] = x
  BY <1>1, <1>2, <1>3
<1>6. ASSUME NEW i \in DOMAIN list
      PROVE  i + 1 \in DOMAIN both /\ both[i + 1] = list[i]
  <2>1. i \in Nat /\ i + 1 \in 1 .. 1 + Len(list) /\ ~(i + 1 <= 1) /\ (i + 1) - 1 = i
    BY <1>3
  <2>2. QED BY <1>2, <1>3, <2>1
<1>7. OnList(p, both) <=> p \in x.lo .. x.hi \/ OnList(p, list)
  BY <1>4, <1>5, <1>6 DEF OnList
<1>8. QED BY <1>7 DEF both

LEMMA OnRest ==
    ASSUME NEW list \in Seq(SpanOfFrame), list # <<>>, NEW p
    PROVE  OnList(p, list) <=> p \in Head(list).lo .. Head(list).hi \/ OnList(p, Tail(list))
<1>1. Head(list) \in SpanOfFrame /\ Tail(list) \in Seq(SpanOfFrame)
      /\ list = <<Head(list)>> \o Tail(list)
  BY HeadTailProperties
<1>2. QED BY <1>1, OnFront

LEMMA OnRequeued ==
    ASSUME NEW td \in Lists, NEW v \in Server, NEW f \in Frames, NEW p
    PROVE  OnList(p, Requeued(td, v)[f])
              <=> OnList(p, td[f]) \/ (Holds(v) /\ OfWork(f, p, v.work))
<1>1. f # 0 /\ td[f] \in Seq(SpanOfFrame)
  BY SizesInNat DEF Frames, Lists
<1>2. CASE Holds(v) /\ Busy(v)
  <2> DEFINE x == Span(v.work.lo, v.work.hi)
  <2>1. v.work \in [frame : Frames, lo : Pixels, hi : Pixels]
    BY <1>2 DEF Busy, Server, Work, NoWork
  <2>2. x \in SpanOfFrame /\ x.lo = v.work.lo /\ x.hi = v.work.hi
    BY <2>1 DEF Span, SpanOfFrame
  <2>3. Requeued(td, v) = [td EXCEPT ![v.work.frame] = <<x>> \o td[v.work.frame]]
    BY <1>2 DEF Requeued
  <2> HIDE DEF x
  <2>4. CASE f = v.work.frame
    <3>1. Requeued(td, v)[f] = <<x>> \o td[f]
      BY <2>3, <2>4 DEF Lists
    <3>2. QED BY <1>1, <1>2, <2>2, <2>4, <3>1, OnFront DEF OfWork
  <2>5. CASE f # v.work.frame
    BY <2>3, <2>5 DEF OfWork, Lists
  <2>6. QED BY <2>4, <2>5
<1>3. CASE ~(Holds(v) /\ Busy(v))
  BY <1>1, <1>3 DEF Requeued, Busy, OfWork
<1>4. QED BY <1>2, <1>3

LEMMA OnWithout ==
    ASSUME TypeInv, fr \in Frames, todo[fr] # <<>>, NEW lump \in Lumps,
           NEW f \in Frames, NEW p
    PROVE  OnList(p, todo[f])
              <=> OnList(p, Without(Portion(lump))[f]) \/ OfWork(f, p, Portion(lump))
<1> DEFINE list == todo[fr]
           first == Head(todo[fr])
           rest == Tail(todo[fr])
           w == Portion(lump)
           new == IF w.hi = first.hi THEN rest ELSE <<Span(w.hi + 1, first.hi)>> \o rest
<1>1. /\ list \in Seq(SpanOfFrame) /\ list # <<>>
      /\ first \in SpanOfFrame /\ rest \in Seq(SpanOfFrame)
  <2>1. list \in Seq(SpanOfFrame) /\ list # <<>>
    BY DEF TypeInv, TypeOK, MemoryTypeOK
  <2>2. QED BY <2>1, HeadTailProperties
<1>2. OnList(p, list) <=> p \in first.lo .. first.hi \/ OnList(p, rest)
  BY <1>1, OnRest
<1>3. first.lo \in Pixels /\ first.hi \in Pixels /\ lump \in Nat \ {0}
  BY <1>1, SizesAssumption DEF SpanOfFrame
<1>4. /\ w.frame = fr /\ w.lo = first.lo
      /\ w.hi = IF first.lo + lump - 1 >= first.hi THEN first.hi
                                                   ELSE first.lo + lump - 1
  BY DEF Portion
<1>5. Without(w) = [todo EXCEPT ![fr] = new]
  BY DEF Without
<1> HIDE DEF first, rest, w
<1>6. /\ first.lo \in Int /\ first.hi \in Int /\ w.lo \in Int /\ w.hi \in Int
      /\ w.hi <= first.hi
      /\ (w.hi # first.hi => w.hi + 1 \in Pixels /\ w.lo <= w.hi + 1)
  BY <1>3, <1>4, SizesInNat DEF Pixels
<1>7. OnList(p, list) <=> OnList(p, new) \/ p \in w.lo .. w.hi
  <2>1. CASE w.hi = first.hi
    BY <1>2, <1>4, <2>1
  <2>2. CASE w.hi # first.hi
    <3> DEFINE x == Span(w.hi + 1, first.hi)
    <3>1. x \in SpanOfFrame /\ x.lo = w.hi + 1 /\ x.hi = first.hi
      BY <1>3, <1>6, <2>2 DEF Span, SpanOfFrame
    <3>2. new = <<x>> \o rest
      BY <2>2
    <3>3. OnList(p, new) <=> p \in w.hi + 1 .. first.hi \/ OnList(p, rest)
      BY <1>1, <3>1, <3>2, OnFront
    <3>4. p \in first.lo .. first.hi <=> p \in w.lo .. w.hi \/ p \in w.hi + 1 .. first.hi
      BY <1>4, <1>6, <2>2
    <3>5. QED BY <1>2, <3>3, <3>4
  <2>3. QED BY <2>1, <2>2
<1> HIDE DEF new
<1>8. todo \in Lists
  BY DEF TypeInv, TypeOK, MemoryTypeOK, Lists
<1>9. CASE f = fr
  <2>1. Without(w)[f] = new /\ (OfWork(f, p, w) <=> p \in w.lo .. w.hi)
    BY <1>4, <1>5, <1>8, <1>9 DEF OfWork, Lists
  <2>2. QED BY <1>7, <1>9, <2>1 DEF w
<1>10. CASE f # fr
  <2>1. Without(w)[f] = todo[f] /\ ~OfWork(f, p, w)
    BY <1>4, <1>5, <1>8, <1>10 DEF OfWork, Lists
  <2>2. QED BY <2>1 DEF w
<1>11. QED BY <1>9, <1>10

-----------------------------------------------------------------------------
(* The moves of work, and which step makes which.                          *)

(* A slot keeps its assignment; one that drop_server would not put back    *)
(* may also be forgotten.                                                  *)
KeepsWork(t) ==
    \/ srv'[t].work = srv[t].work
    \/ srv'[t].work = NoWork /\ ~Holds(srv[t])

OthersKeep(s) == \A t \in Slots \ {s} : KeepsWork(t)

Idle ==
    /\ UNCHANGED <<todo, file, frames>>
    /\ \A t \in Slots : KeepsWork(t)

(* drop_server                                                             *)
Returned(s) ==
    /\ todo' = Requeued(todo, srv[s])
    /\ srv'[s].work \in {srv[s].work, NoWork}
    /\ Holds(srv[s]) => srv'[s].work = NoWork
    /\ OthersKeep(s)
    /\ UNCHANGED frames

(* The pixels of the assignment up to hi are in the file.                  *)
WrittenUpTo(s, hi) ==
    \E view \in Frames : file' = Painted(srv[s].work, hi, view)

Written(s) ==
    /\ Busy(srv[s]) /\ WrittenUpTo(s, srv[s].work.hi)
    /\ srv'[s].work = NoWork
    /\ OthersKeep(s)
    /\ UNCHANGED <<todo, frames>>

HalfWritten(s) ==
    /\ "write" \in Faults /\ Busy(srv[s])
    /\ \E last \in srv[s].work.lo - 1 .. srv[s].work.hi - 1,
          view \in Frames, part \in {0, Torn} :
          file' = Half(Painted(srv[s].work, last, view), srv[s].work, last, part)

Assigned(s) ==
    /\ fr \in Frames /\ todo[fr] # <<>> /\ ~Busy(srv[s])
    /\ \E lump \in Lumps : /\ todo' = Without(Portion(lump))
                           /\ srv'[s].work = Portion(lump)
    /\ OthersKeep(s)
    /\ UNCHANGED <<file, frames>>

(* Assigned, but the sending has failed.                                   *)
Refused(s) ==
    /\ fr \in Frames /\ todo[fr] # <<>> /\ ~Busy(srv[s])
    /\ \E lump \in Lumps, v \in Server :
          /\ Holds(v) /\ v.work = Portion(lump)
          /\ todo' = Requeued(Without(Portion(lump)), v)
          /\ srv'[s].work = NoWork
    /\ OthersKeep(s)
    /\ UNCHANGED <<file, frames>>

Finished(f) ==
    /\ ThisFrameDone(f)
    /\ frames' = frames \ {f}
    /\ \A t \in Slots : srv'[t].work = srv[t].work
    /\ UNCHANGED <<todo, file>>

Restarted ==
    /\ "remrt" \in Faults
    /\ todo' = Rescanned
    /\ \A t \in Slots : srv'[t].work = NoWork
    /\ UNCHANGED <<file, frames>>

(* The failures and commands that may forget work, and those that leave an *)
(* assignment with a server that has been dropped.                         *)
NothingLosesWork ==
    /\ "open" \notin Faults
    /\ "MATRIX" \in FailingSends => NeedTree = Frames
    /\ \A c \in Commands : c.cmd # "restart"

Forgotten ==
    /\ \/ ~NothingLosesWork
       \/ \E s \in Slots : /\ Receiving(s, "CMD") /\ Holds(srv[s])
    /\ \/ todo' = todo
       \/ \E s \in Slots : /\ todo' = Requeued(todo, srv[s])
                           /\ Holds(srv[s]) => srv'[s].work = NoWork
    /\ \A t \in Slots : srv'[t].work \in {srv[t].work, NoWork}
    /\ UNCHANGED <<file, frames>>

Move ==
    \/ Idle
    \/ \E s \in Slots : Returned(s) /\ UNCHANGED file
    \/ \E s \in Slots : Returned(s) /\ HalfWritten(s)
    \/ \E s \in Slots : Written(s) \/ Assigned(s) \/ Refused(s)
    \/ \E f \in frames : Finished(f)
    \/ Restarted
    \/ Forgotten

LEMMA DropMove ==
    ASSUME TypeInv, NEW s \in Slots, Drop(s), UNCHANGED frames
    PROVE  Returned(s)
<1>1. srv' = [srv EXCEPT ![s] = Dropped(srv[s])] /\ todo' = Requeued(todo, srv[s])
  BY DEF Drop
<1>2. srv[s] \in Server /\ srv \in [Slots -> Server]
  BY DEF TypeInv, TypeOK, MemoryTypeOK
<1>3. srv'[s] = Dropped(srv[s]) /\ \A t \in Slots \ {s} : srv'[t] = srv[t]
  BY <1>1, <1>2
<1>4. QED BY <1>1, <1>2, <1>3, DroppedType DEF Returned, OthersKeep, KeepsWork

LEMMA StateMove ==
    ASSUME TypeInv, NEW s \in Slots, NEW x \in States,
           srv' = [srv EXCEPT ![s].state = x], UNCHANGED <<todo, file, frames>>
    PROVE  Idle
<1> DEFINE v == [srv[s] EXCEPT !.state = x]
<1>1. v.work = srv[s].work
  BY ServerUpdate DEF TypeInv, TypeOK, MemoryTypeOK
<1>2. srv' = [srv EXCEPT ![s] = v] /\ srv \in [Slots -> Server]
  BY DEF TypeInv, TypeOK, MemoryTypeOK
<1> HIDE DEF v
<1>3. QED BY <1>1, <1>2 DEF Idle, KeepsWork

LEMMA PhPixelsMove ==
    ASSUME TypeInv, NEW s \in Slots, ph_pixels(s)
    PROVE  Move
<1> DEFINE w == srv[s].work
           view == Head(buf[s]).view
<1>1. Receiving(s, "PIXELS") /\ UNCHANGED frames /\ view \in Frames
  <2>1. Receiving(s, "PIXELS") /\ UNCHANGED frames
    BY DEF ph_pixels
  <2>2. QED BY <2>1, ReceivingType DEF Report
<1>2. CASE UNCHANGED <<srv, todo, running, file>>
  BY <1>1, <1>2 DEF Move, Idle, KeepsWork
<1>3. CASE Drop(s) /\ UNCHANGED <<running, file>>
  BY <1>1, <1>3, DropMove DEF Move
<1>4. ASSUME srv' = [srv EXCEPT ![s].work = NoWork, ![s].late = FALSE]
      PROVE  srv'[s].work = NoWork /\ OthersKeep(s)
  <2> DEFINE a == [srv[s] EXCEPT !.work = NoWork]
             b == [a EXCEPT !.late = FALSE]
  <2>1. srv[s] \in Server /\ srv \in [Slots -> Server]
    BY DEF TypeInv, TypeOK, MemoryTypeOK
  <2>2. a \in Server /\ a.work = NoWork
    BY <2>1, ServerUpdate, NoWorkType
  <2>3. srv' = [srv EXCEPT ![s] = b]
    BY <1>4, <2>1
  <2> HIDE DEF a
  <2>4. b.work = NoWork
    BY <2>2, ServerUpdate
  <2> HIDE DEF b
  <2>5. QED BY <2>1, <2>3, <2>4 DEF OthersKeep, KeepsWork
<1>5. CASE FilePixels(s, w, view) /\ Busy(srv[s])
  <2>1. Written(s)
    BY <1>1, <1>4, <1>5 DEF FilePixels, Written, WrittenUpTo
  <2>2. QED BY <2>1 DEF Move
<1>6. CASE CannotOpen(s)
  <2>1. \A t \in Slots : srv'[t].work \in {srv[t].work, NoWork}
    BY <1>4, <1>6 DEF CannotOpen, OthersKeep, KeepsWork
  <2>2. Forgotten
    BY <1>1, <1>6, <2>1 DEF CannotOpen, Forgotten, NothingLosesWork
  <2>3. QED BY <2>2 DEF Move
<1>7. CASE CannotWrite(s, w, view) /\ Busy(srv[s])
  <2>1. HalfWritten(s)
    BY <1>1, <1>7 DEF CannotWrite, HalfWritten
  <2>2. QED BY <1>1, <1>7, <2>1, DropMove DEF CannotWrite, Move
<1>8. QED BY <1>2, <1>3, <1>5, <1>6, <1>7 DEF ph_pixels

LEMMA CdDropMove ==
    ASSUME TypeInv, NEW s \in Slots, cd_drop(s)
    PROVE  Move
<1>1. /\ Receiving(s, "CMD") /\ Head(buf[s]).command.cmd = "drop"
      /\ UNCHANGED <<file, frames>>
  BY DEF cd_drop
<1>2. PICK d \in Slots : d = Head(buf[s]).command.slot
  BY <1>1, ReceivingType, CommandsAssumption DEF Report
<1>3. CASE ~Occupied(d)
  BY <1>1, <1>2, <1>3, DropMove DEF cd_drop, Move
<1>4. CASE Occupied(d)
  <2>1. srv' = [r \in Slots |-> IF r \in {s, d} THEN Dropped(srv[r]) ELSE srv[r]]
        /\ todo' = Requeued(todo, srv[d])
    BY <1>2, <1>4 DEF cd_drop
  <2>2. srv'[s] = Dropped(srv[s]) /\ srv'[d] = Dropped(srv[d])
        /\ \A r \in Slots \ {s, d} : srv'[r] = srv[r]
    BY <2>1
  <2>3. srv[s] \in Server /\ srv[d] \in Server
    BY DEF TypeInv, TypeOK, MemoryTypeOK
  <2>4. /\ srv'[s].work \in {srv[s].work, NoWork}
        /\ srv'[d].work \in {srv[d].work, NoWork}
        /\ Holds(srv[d]) => srv'[d].work = NoWork
    BY <2>2, <2>3, DroppedType
  <2>5. CASE s = d \/ ~Holds(srv[s])
    <3>1. OthersKeep(d)
      BY <2>2, <2>4, <2>5 DEF OthersKeep, KeepsWork
    <3>2. Returned(d)
      BY <1>1, <2>1, <2>4, <3>1 DEF Returned
    <3>3. QED BY <1>1, <3>2 DEF Move
  <2>6. CASE Holds(srv[s])
    <3>1. \A r \in Slots : srv'[r].work \in {srv[r].work, NoWork}
      BY <2>2, <2>4
    <3>2. Forgotten
      BY <1>1, <2>1, <2>4, <2>6, <3>1 DEF Forgotten
    <3>3. QED BY <3>2 DEF Move
  <2>7. QED BY <2>5, <2>6
<1>5. QED BY <1>3, <1>4

LEMMA CdRestartMove ==
    ASSUME TypeInv, NEW s \in Slots, cd_restart(s)
    PROVE  Move
<1> DEFINE t == Head(buf[s]).command.slot
           After(v) == [[srv EXCEPT ![t] = [v EXCEPT !.state = "RESTART"]]
                            EXCEPT ![s] = Dropped(@)]
<1>1. /\ Receiving(s, "CMD") /\ Head(buf[s]).command.cmd = "restart"
      /\ UNCHANGED <<file, frames>>
  BY DEF cd_restart
<1>2. t \in Slots /\ ~NothingLosesWork
  <2>1. Head(buf[s]).command \in Commands
    BY <1>1, ReceivingType DEF Report
  <2>2. QED BY <1>1, <2>1, CommandsAssumption DEF NothingLosesWork
<1>3. CASE ~Occupied(t)
  BY <1>1, <1>3, DropMove DEF cd_restart, Move
<1>4. CASE Occupied(t)
  <2>1. \/ srv' = After(srv[t]) /\ todo' = todo
        \/ srv' = After(Dropped(srv[t])) /\ todo' = Requeued(todo, srv[t])
    BY <1>4 DEF cd_restart
  <2> HIDE DEF t
  <2>2. /\ srv[t] \in Server /\ Dropped(srv[t]) \in Server
        /\ Dropped(srv[t]).work \in {srv[t].work, NoWork}
        /\ Holds(srv[t]) => Dropped(srv[t]).work = NoWork
    BY <1>2, DroppedType DEF TypeInv, TypeOK, MemoryTypeOK
  <2>3. ASSUME NEW u \in Server, u.work \in {srv[t].work, NoWork}, srv' = After(u)
        PROVE  /\ \A r \in Slots : srv'[r].work \in {srv[r].work, NoWork}
               /\ srv'[t].work \in {u.work, NoWork}
    <3> DEFINE v == [u EXCEPT !.state = "RESTART"]
               mid == [srv EXCEPT ![t] = v]
    <3>1. v \in Server /\ v.work = u.work
      BY <2>3, ServerUpdate DEF States
    <3>2. srv' = [mid EXCEPT ![s] = Dropped(mid[s])]
      BY <2>3
    <3> HIDE DEF v
    <3>3. /\ mid \in [Slots -> Server] /\ mid[t].work = u.work
          /\ \A r \in Slots : mid[r].work \in {srv[r].work, NoWork}
      BY <1>2, <2>3, <3>1 DEF TypeInv, TypeOK, MemoryTypeOK
    <3> HIDE DEF mid, After
    <3>4. Dropped(mid[s]).work \in {mid[s].work, NoWork}
      BY <3>3, DroppedType
    <3>5. QED BY <1>2, <3>2, <3>3, <3>4
  <2> HIDE DEF After
  <2>4. /\ \A r \in Slots : srv'[r].work \in {srv[r].work, NoWork}
        /\ \/ todo' = todo
           \/ todo' = Requeued(todo, srv[t]) /\ (Holds(srv[t]) => srv'[t].work = NoWork)
    BY <2>1, <2>2, <2>3
  <2>5. QED BY <1>1, <1>2, <2>4 DEF Move, Forgotten
<1>5. QED BY <1>3, <1>4

LEMMA ReceiveMove ==
    ASSUME TypeInv, Receive
    PROVE  Move
<1>1. ASSUME NEW s \in Slots, ph_version(s) \/ ph_dirbuild_reply(s) \/ ph_gettrees_reply(s)
      PROVE  Move
  <2>1. UNCHANGED <<file, frames>>
    BY <1>1 DEF ph_version, ph_dirbuild_reply, ph_gettrees_reply
  <2>2. CASE Drop(s)
    BY <2>1, <2>2, DropMove DEF Move
  <2>3. CASE /\ \E x \in {"VERSOK", "NEED_TREE", "READY"} : srv' = [srv EXCEPT ![s].state = x]
             /\ todo' = todo
    BY <2>1, <2>3, StateMove DEF States, Move
  <2>4. QED BY <1>1, <2>2, <2>3 DEF ph_version, ph_dirbuild_reply, ph_gettrees_reply
<1>2. ASSUME NEW s \in Slots, cd_stop_go(s) PROVE Move
  BY <1>2, DropMove DEF cd_stop_go, Move
<1>3. QED BY <1>1, <1>2, PhPixelsMove, CdDropMove, CdRestartMove DEF Receive

LEMMA CheckInputMove ==
    ASSUME TypeInv, CheckInput
    PROVE  Move
<1>1. CASE ReceivedAll \/ SuckedAll
  BY <1>1 DEF ReceivedAll, SuckedAll, memory, Move, Idle, KeepsWork
<1>2. CASE select
  <2> DEFINE new == [Unused EXCEPT !.state = "NEW", !.polled = TRUE]
  <2>1. new.work = NoWork
    BY UnusedType
  <2>2. UNCHANGED <<todo, file, frames>>
        /\ (srv' = srv \/ (Free # {} /\ srv' = [srv EXCEPT ![Min(Free)] = new]))
    BY <1>2 DEF select
  <2> HIDE DEF new
  <2>3. Free # {} => Min(Free) \in Free
    <3>1. Free \subseteq Nat
      BY DEF Free, Slots
    <3>2. QED BY <3>1, MinOfNaturals
  <2>4. \A t \in Free : ~Holds(srv[t])
    BY DEF Free, Occupied, Holds
  <2>5. \A t \in Slots : KeepsWork(t)
    BY <2>1, <2>2, <2>3, <2>4 DEF TypeInv, TypeOK, MemoryTypeOK, KeepsWork
  <2>6. QED BY <2>2, <2>5 DEF Idle, Move
<1>3. ASSUME NEW s \in Slots, suckin(s) PROVE Move
  BY <1>3, DropMove DEF suckin, Move, Idle, KeepsWork
<1>4. QED BY <1>1, <1>2, <1>3, ReceiveMove DEF CheckInput

LEMMA TaskLinesMove ==
    ASSUME TypeInv, NEW s \in Slots, task_lines(s)
    PROVE  Move
<1>1. /\ fr \in Frames /\ todo[fr] # <<>> /\ ~Busy(srv[s]) /\ srv[s] \in Server
      /\ Holds(srv[s]) /\ UNCHANGED <<file, frames>>
  <2>1. Wants(s)
    BY DEF task_lines
  <2>2. s \in Hungry
    <3>1. Hungry \subseteq Nat /\ Hungry # {} /\ s = Min(Hungry)
      BY <2>1 DEF Wants, Tasking, Hungry, Slots
    <3>2. QED BY <3>1, MinOfNaturals
  <2>3. QED BY <2>1, <2>2, TaskingFacts DEF Wants, Tasking, Hungry
<1> DEFINE Given(w) == [srv[s] EXCEPT !.cur = fr, !.work = w, !.late = FALSE]
<1>2. PICK lump \in Lumps :
        LET w == Portion(lump)
        IN  \/ /\ srv' = [srv EXCEPT ![s] = Given(w)]
               /\ todo' = Without(w)
            \/ /\ srv' = [srv EXCEPT ![s] = Dropped(Given(w))]
               /\ todo' = Requeued(Without(w), Given(w))
  BY DEF task_lines
<1> DEFINE w == Portion(lump)
<1>3. w \in Work
  BY <1>1, PortionType
<1> HIDE DEF w
<1>4. fr \in 0 .. NFrames
  BY <1>1, FrameNumbers
<1>5. Given(w) \in Server /\ Given(w).work = w /\ Holds(Given(w))
  <2> DEFINE a == [srv[s] EXCEPT !.cur = fr]
             b == [a EXCEPT !.work = w]
             c == [b EXCEPT !.late = FALSE]
  <2>1. Given(w) = c
    OBVIOUS
  <2>2. a \in Server /\ a.state = srv[s].state
    BY <1>1, <1>4, ServerUpdate DEF Server
  <2> HIDE DEF a, Given
  <2>3. b \in Server /\ b.work = w /\ b.state = srv[s].state
    BY <1>3, <2>2, ServerUpdate DEF Server
  <2> HIDE DEF b
  <2>4. c \in Server /\ c.work = w /\ c.state = srv[s].state
    BY <2>3, ServerUpdate DEF Server
  <2>5. QED BY <1>1, <2>1, <2>4 DEF Holds
<1> HIDE DEF Given
<1>6. srv \in [Slots -> Server]
  BY DEF TypeInv, TypeOK, MemoryTypeOK
<1>7. CASE srv' = [srv EXCEPT ![s] = Given(w)] /\ todo' = Without(w)
  <2>1. srv'[s].work = Portion(lump) /\ todo' = Without(Portion(lump)) /\ OthersKeep(s)
    BY <1>5, <1>6, <1>7 DEF w, OthersKeep, KeepsWork
  <2>2. Assigned(s)
    BY <1>1, <2>1 DEF Assigned
  <2>3. QED BY <2>2 DEF Move
<1>8. CASE /\ srv' = [srv EXCEPT ![s] = Dropped(Given(w))]
           /\ todo' = Requeued(Without(w), Given(w))
  <2>1. Dropped(Given(w)).work = NoWork
    BY <1>5, DroppedType
  <2>2. srv'[s].work = NoWork /\ OthersKeep(s)
    BY <1>6, <1>8, <2>1 DEF OthersKeep, KeepsWork
  <2>3. Given(w).work = Portion(lump) /\ todo' = Requeued(Without(Portion(lump)), Given(w))
    BY <1>5, <1>8 DEF w
  <2>4. Refused(s)
    BY <1>1, <1>5, <2>2, <2>3 DEF Refused
  <2>5. QED BY <2>4 DEF Move
<1>9. QED BY <1>2, <1>7, <1>8 DEF w

LEMMA TaskDroppedMove ==
    ASSUME TypeInv, NEW s \in Slots, task_dropped(s)
    PROVE  Assigned(s) /\ ~NothingLosesWork
<1>1. /\ fr \in Frames /\ todo[fr] # <<>> /\ ~Busy(srv[s]) /\ srv[s] \in Server
      /\ UNCHANGED <<file, frames>>
  BY TaskingFacts DEF task_dropped, Wants, Tasking
<1>2. ~NothingLosesWork
  BY <1>1 DEF task_dropped, CanFail, NothingLosesWork
<1> DEFINE Given(w) == [Dropped(srv[s]) EXCEPT !.work = w, !.late = FALSE]
<1>3. PICK lump \in Lumps : LET w == Portion(lump)
                            IN  srv' = [srv EXCEPT ![s] = Given(w)] /\ todo' = Without(w)
  BY DEF task_dropped, TypeInv, TypeOK, MemoryTypeOK
<1> DEFINE w == Portion(lump)
<1>4. w \in Work
  BY <1>1, PortionType
<1> HIDE DEF w
<1>5. Given(w).work = w
  <2> DEFINE a == [Dropped(srv[s]) EXCEPT !.work = w]
             b == [a EXCEPT !.late = FALSE]
  <2>1. Given(w) = b
    OBVIOUS
  <2>2. a \in Server /\ a.work = w
    BY <1>1, <1>4, DroppedType, ServerUpdate
  <2> HIDE DEF a, Given
  <2>3. QED BY <2>1, <2>2, ServerUpdate
<1> HIDE DEF Given
<1>6. srv' = [srv EXCEPT ![s] = Given(w)] /\ todo' = Without(w)
  BY <1>3 DEF w
<1>7. srv'[s].work = Portion(lump) /\ todo' = Without(Portion(lump)) /\ OthersKeep(s)
  BY <1>5, <1>6 DEF w, OthersKeep, KeepsWork, TypeInv, TypeOK, MemoryTypeOK
<1>8. QED BY <1>1, <1>2, <1>7 DEF Assigned

LEMMA ScheduleMove ==
    ASSUME TypeInv, Schedule
    PROVE  Move
<1>1. CASE AttendedAll \/ ReapedAll \/ NothingWaits \/ PassEnds
  BY <1>1 DEF AttendedAll, ReapedAll, NothingWaits, PassEnds, memory, Move, Idle, KeepsWork
<1>2. CASE frame_is_done
  <2>1. \A s \in Slots : [srv[s] EXCEPT !.cur = 0].work = srv[s].work
    BY ServerUpdate, SizesInNat DEF TypeInv, TypeOK, MemoryTypeOK
  <2> DEFINE f == Min(DoneFrames)
  <2>2. f \in DoneFrames
    <3>1. DoneFrames \subseteq Nat /\ DoneFrames # {}
      BY <1>2 DEF frame_is_done, DoneFrames, Frames, TypeInv, TypeOK, MemoryTypeOK
    <3>2. QED BY <3>1, MinOfNaturals
  <2>3. /\ srv' = [s \in Slots |-> IF srv[s].cur = f THEN [srv[s] EXCEPT !.cur = 0]
                                                     ELSE srv[s]]
        /\ frames' = frames \ {f} /\ UNCHANGED <<todo, file>>
    BY <1>2 DEF frame_is_done
  <2>4. f \in frames /\ ThisFrameDone(f)
    BY <2>2 DEF DoneFrames
  <2> HIDE DEF f
  <2>5. \A s \in Slots : srv'[s].work = srv[s].work
    BY <2>1, <2>3
  <2>6. Finished(f)
    BY <2>3, <2>4, <2>5 DEF Finished
  <2>7. QED BY <2>4, <2>6 DEF Move
<1>3. ASSUME NEW s \in Slots,
             task_none_left(s) \/ task_other_frame(s) \/ task_reserved(s)
      PROVE  Move
  BY <1>3 DEF task_none_left, task_other_frame, task_reserved, Wants, Tasking,
              Move, Idle, KeepsWork
<1>4. ASSUME NEW s \in Slots, send_dirbuild(s) PROVE Move
  BY <1>4, StateMove, DropMove DEF send_dirbuild, Attending, States, Move
<1>5. ASSUME NEW s \in Slots, final_close(s) PROVE Move
  <2>1. /\ srv' = [srv EXCEPT ![s] = Unused] /\ UNCHANGED <<todo, file, frames>>
        /\ ~Holds(srv[s])
    BY <1>5 DEF final_close, Attending, Holds
  <2>2. \A t \in Slots : KeepsWork(t)
    BY <2>1, UnusedType DEF KeepsWork, TypeInv, TypeOK, MemoryTypeOK
  <2>3. QED BY <2>1, <2>2 DEF Move, Idle
<1>6. ASSUME NEW s \in Slots, task_tardy(s) PROVE Move
  BY <1>6, DropMove DEF task_tardy, Tasking, Move
<1>7. ASSUME NEW s \in Slots, task_gettrees(s) PROVE Move
  <2>1. UNCHANGED <<file, frames>>
    BY <1>7 DEF task_gettrees, Wants, Tasking
  <2>2. CASE Drop(s)
    BY <2>1, <2>2, DropMove DEF Move
  <2>3. CASE /\ srv' = [srv EXCEPT ![s].cur = fr, ![s].state = "DOING_GETTREES"]
             /\ todo' = todo
    <3>1. srv[s] \in Server /\ fr \in 0 .. NFrames
      BY <1>7, TaskingFacts, FrameNumbers DEF task_gettrees
    <3> DEFINE a == [srv[s] EXCEPT !.cur = fr]
               b == [a EXCEPT !.state = "DOING_GETTREES"]
    <3>2. a \in Server /\ a.work = srv[s].work
      BY <3>1, ServerUpdate
    <3>3. srv' = [srv EXCEPT ![s] = b] /\ srv \in [Slots -> Server]
      BY <2>3 DEF TypeInv, TypeOK, MemoryTypeOK
    <3> HIDE DEF a
    <3>4. b.work = srv[s].work
      BY <3>2, ServerUpdate DEF States
    <3> HIDE DEF b
    <3>5. QED BY <2>1, <2>3, <3>3, <3>4 DEF Move, Idle, KeepsWork
  <2>4. QED BY <1>7, <2>2, <2>3 DEF task_gettrees
<1>8. ASSUME NEW s \in Slots, task_dropped(s) PROVE Move
  BY <1>8, TaskDroppedMove DEF Move
<1>9. QED BY <1>1, <1>2, <1>3, <1>4, <1>5, <1>6, <1>7, <1>8, TaskLinesMove DEF Schedule

LEMMA NextMove ==
    ASSUME TypeInv, [Next]_vars
    PROVE  Move
<1>1. CASE UNCHANGED memory
  BY <1>1 DEF memory, Move, Idle, KeepsWork
<1>2. CASE Dispatcher
  BY <1>2, CheckInputMove, ScheduleMove DEF Dispatcher
<1>3. ASSUME NEW s \in Slots, Elapse(s) PROVE Move
  <2> DEFINE v == [srv[s] EXCEPT !.late = TRUE]
  <2>1. v.work = srv[s].work /\ srv \in [Slots -> Server]
    BY ServerUpdate DEF TypeInv, TypeOK, MemoryTypeOK
  <2>2. srv' = [srv EXCEPT ![s] = v] /\ UNCHANGED <<todo, file, frames>>
    BY <1>3 DEF Elapse
  <2> HIDE DEF v
  <2>3. QED BY <2>1, <2>2 DEF Move, Idle, KeepsWork
<1>4. ASSUME NEW s \in Slots,
             Worker(s) \/ crash(s) \/ hang(s) \/ slow(s) \/ hung_too_long(s)
      PROVE  UNCHANGED memory \/ Elapse(s)
  BY <1>4 DEF Worker, rtsrv_main, rtsrv_receive, rtsrv_work, crash, hang, slow, hung_too_long
<1>5. CASE call \/ call_command \/ exited \/ UNCHANGED vars
  BY <1>1, <1>5 DEF call, call_command, exited, vars
<1>6. CASE remrt_restarts
  BY <1>6, UnusedType DEF remrt_restarts, Move, Restarted
<1>7. QED BY <1>1, <1>2, <1>3, <1>4, <1>5, <1>6 DEF Next

-----------------------------------------------------------------------------
(* Nothing that is in a file is computed again.                            *)

Fresh == \A f \in Frames : \A p \in Pixels : file[f][p] # 0 => ~Due(f, p)

LEMMA NoPixelOfNoWork ==
    ASSUME NEW f \in Frames, NEW p
    PROVE  ~OfWork(f, p, NoWork)
BY NoWorkType, SizesInNat DEF OfWork, Frames

(* Servers keep their assignments or lose them, and what one loses goes    *)
(* back to its list or is forgotten: nothing becomes due.                  *)
LEMMA NothingBecomesDue ==
    ASSUME TypeInv, NEW f \in Frames, NEW p,
           \/ todo' = todo
           \/ \E s \in Slots : todo' = Requeued(todo, srv[s]),
           \A t \in Slots : srv'[t].work \in {srv[t].work, NoWork},
           Due(f, p)'
    PROVE  Due(f, p)
<1>1. todo \in Lists /\ \A s \in Slots : srv[s] \in Server
  BY HeldType DEF TypeInv, TypeOK, MemoryTypeOK
<1>2. CASE OnList(p, todo'[f])
  <2>1. CASE todo' = todo
    BY <1>2, <2>1 DEF Due
  <2>2. ASSUME NEW s \in Slots, todo' = Requeued(todo, srv[s])
        PROVE  Due(f, p)
    BY <1>1, <1>2, <2>2, OnRequeued DEF Due
  <2>3. QED BY <2>1, <2>2
<1>3. CASE \E t \in Slots : OfWork(f, p, srv'[t].work)
  BY <1>3, NoPixelOfNoWork DEF Due
<1>4. QED BY <1>2, <1>3 DEF Due

LEMMA AssignedDue ==
    ASSUME TypeInv, NEW s \in Slots, Assigned(s) \/ Refused(s),
           NEW f \in Frames, NEW p, Due(f, p)'
    PROVE  Due(f, p)
<1>1. fr \in Frames /\ todo[fr] # <<>>
  BY DEF Assigned, Refused
<1>2. ASSUME NEW t \in Slots, t # s, OfWork(f, p, srv'[t].work)
      PROVE  Due(f, p)
  BY <1>2, NoPixelOfNoWork DEF Due, Assigned, Refused, OthersKeep, KeepsWork
<1>3. ASSUME NEW lump \in Lumps, todo' = Without(Portion(lump)),
             srv'[s].work = Portion(lump)
      PROVE  Due(f, p)
  <2>1. CASE OnList(p, todo'[f]) \/ OfWork(f, p, srv'[s].work)
    BY <1>1, <1>3, <2>1, OnWithout DEF Due
  <2>2. QED BY <1>2, <2>1 DEF Due
<1>4. ASSUME NEW lump \in Lumps, NEW v \in Server, v.work = Portion(lump),
             todo' = Requeued(Without(Portion(lump)), v), srv'[s].work = NoWork
      PROVE  Due(f, p)
  <2>1. Without(Portion(lump)) \in Lists
    BY <1>1, PortionType DEF Lists
  <2>2. OnList(p, todo'[f]) => OnList(p, todo[f])
    BY <1>1, <1>4, <2>1, OnWithout, OnRequeued
  <2>3. QED BY <1>2, <1>4, <2>2, NoPixelOfNoWork DEF Due
<1>5. QED BY <1>3, <1>4 DEF Assigned, Refused

(* What has been written was assigned to one server only, and did not wait. *)
LEMMA WrittenNotDue ==
    ASSUME TypeInv, WorkInv, NEW s \in Slots, Written(s),
           NEW f \in Frames, NEW p, OfWork(f, p, srv[s].work)
    PROVE  ~Due(f, p)'
<1> DEFINE w == srv[s].work
<1>1. /\ Held[s] = w /\ w.frame = f /\ f # 0
      /\ todo' = todo /\ srv'[s].work = NoWork /\ OthersKeep(s)
      /\ \A t \in Slots : Held[t] = srv[t].work
  BY DEF Held, OfWork, Written, Busy
<1>2. ~OnList(p, todo'[f])
  <2>1. AwayFrom(w, todo[f])
    BY <1>1 DEF WorkInv, Sound
  <2>2. QED BY <1>1, <2>1 DEF OnList, AwayFrom, Apart, OfWork
<1>3. ASSUME NEW t \in Slots, OfWork(f, p, srv'[t].work) PROVE FALSE
  <2>1. t # s /\ OfWork(f, p, srv[t].work)
    BY <1>1, <1>3, NoPixelOfNoWork DEF OthersKeep, KeepsWork
  <2>2. srv[t].work.frame = f
    BY <2>1 DEF OfWork
  <2>3. Apart(w, srv[t].work)
    BY <1>1, <2>1, <2>2 DEF WorkInv, Sound
  <2>4. QED BY <2>1, <2>3 DEF Apart, OfWork
<1>4. QED BY <1>2, <1>3 DEF Due

LEMMA PaintedAt ==
    ASSUME TypeInv, NEW w \in Work, w.frame \in Frames, NEW last, NEW view,
           NEW f \in Frames, NEW p \in Pixels
    PROVE  Painted(w, last, view)[f][p] =
              IF f = w.frame /\ p \in w.lo .. last THEN view ELSE file[f][p]
BY DEF Painted, TypeInv, TypeOK, MemoryTypeOK

LEMMA RescannedAt ==
    ASSUME TypeInv, NEW f \in Frames, NEW p \in Pixels
    PROVE  OnList(p, Rescanned[f]) <=> f \in frames /\ file[f][p] = 0
<1> DEFINE seen == {q \in Pixels : file[f][q] # 0}
<1>1. Rescanned[f] = IF f \in frames THEN ScanFrame(NPixels, seen) ELSE <<>>
  BY DEF Rescanned, FrameList
<1>2. ~OnList(p, <<>>)
  BY DEF OnList
<1>3. SpanPixels(ScanFrame(NPixels, seen)) = Pixels \ seen
  BY ScanOfFrame
<1>4. OnList(p, ScanFrame(NPixels, seen)) <=> p \notin seen
  BY <1>3 DEF SpanPixels, OnList
<1>5. QED BY <1>1, <1>2, <1>4

LEMMA MoveFresh ==
    ASSUME TypeInv, WorkInv, Fresh, Move, "write" \notin Faults
    PROVE  Fresh'
<1> SUFFICES ASSUME NEW f \in Frames, NEW p \in Pixels, file'[f][p] # 0, Due(f, p)'
             PROVE  FALSE
  BY DEF Fresh
<1>1. CASE UNCHANGED file /\ Due(f, p)
  BY <1>1 DEF Fresh
<1>2. CASE Idle
  BY <1>1, <1>2, NothingBecomesDue DEF Idle, KeepsWork
<1>3. ASSUME NEW s \in Slots, Returned(s) /\ UNCHANGED file PROVE FALSE
  BY <1>1, <1>3, NothingBecomesDue DEF Returned, OthersKeep, KeepsWork
<1>4. ASSUME NEW s \in Slots, Written(s) PROVE FALSE
  <2>1. ~OfWork(f, p, srv[s].work)
    BY <1>4, WrittenNotDue
  <2>2. Due(f, p)
    BY <1>4, NothingBecomesDue DEF Written, OthersKeep, KeepsWork
  <2>3. srv[s].work \in Work /\ srv[s].work.frame \in Frames
    BY <1>4, WorkNumbers DEF Written, Busy, TypeInv, TypeOK, MemoryTypeOK, Server
  <2>4. file'[f][p] = file[f][p]
    BY <1>4, <2>1, <2>3, PaintedAt DEF Written, WrittenUpTo, OfWork
  <2>5. QED BY <2>2, <2>4 DEF Fresh
<1>5. ASSUME NEW s \in Slots, Assigned(s) \/ Refused(s) PROVE FALSE
  BY <1>1, <1>5, AssignedDue DEF Assigned, Refused
<1>6. ASSUME NEW g \in frames, Finished(g) PROVE FALSE
  BY <1>1, <1>6, NothingBecomesDue DEF Finished
<1>7. CASE Restarted
  <2>1. ~OnList(p, todo'[f])
    BY <1>7, RescannedAt DEF Restarted
  <2>2. QED BY <1>7, <2>1, NoPixelOfNoWork DEF Restarted, Due
<1>8. CASE Forgotten
  BY <1>1, <1>8, NothingBecomesDue DEF Forgotten
<1>9. QED BY <1>2, <1>3, <1>4, <1>5, <1>6, <1>7, <1>8 DEF Move, HalfWritten

LEMMA InitFresh == Init => Fresh
<1> SUFFICES ASSUME Init, NEW f \in Frames, NEW p \in Pixels, file[f][p] # 0
             PROVE  ~Due(f, p)
  BY DEF Fresh
<1>1. p \in Prior[f] /\ Prior[f] \in SUBSET Pixels
  BY SizesAssumption DEF Init
<1>2. SpanPixels(ScanFrame(NPixels, Prior[f])) = Pixels \ Prior[f]
  BY <1>1, ScanOfFrame
<1>3. todo[f] = ScanFrame(NPixels, Prior[f])
  BY DEF Init, FrameList
<1>4. ~OnList(p, todo[f])
  BY <1>1, <1>2, <1>3 DEF SpanPixels, OnList
<1>5. \A s \in Slots : srv[s].work = NoWork
  BY UnusedType DEF Init
<1>6. QED BY <1>4, <1>5, NoPixelOfNoWork DEF Due

(* A job is one of an assignment, or waits, exactly when its pixel is due. *)
LEMMA DueJobs ==
    ASSUME NEW f \in Frames, NEW p \in Pixels
    PROVE  /\ <<f, p>> \in Waiting <=> OnList(p, todo[f])
           /\ \A w : <<f, p>> \in JobsOf(w) <=> OfWork(f, p, w)
<1>1. <<f, p>> \in Waiting <=> OnList(p, todo[f])
  <2>1. <<f, p>> \in Waiting <=> p \in SpanPixels(todo[f])
    BY DEF Waiting
  <2>2. QED BY <2>1 DEF SpanPixels, OnList
<1>2. ASSUME NEW w PROVE <<f, p>> \in JobsOf(w) <=> OfWork(f, p, w)
  BY SizesInNat DEF JobsOf, OfWork, Frames
<1>3. QED BY <1>1, <1>2

LEMMA FreshIsNotTwice == Fresh => NothingTwice
<1> SUFFICES ASSUME Fresh, NEW job \in Filed,
                    job \in Waiting \cup UNION {JobsOf(srv[s].work) : s \in Slots}
             PROVE  FALSE
  BY DEF NothingTwice
<1>1. PICK f \in Frames, p \in Pixels : job = <<f, p>> /\ file[f][p] # 0
  BY DEF Filed, Jobs
<1>2. Due(f, p)
  BY <1>1, DueJobs DEF Due
<1>3. QED BY <1>1, <1>2 DEF Fresh

(* When the disk takes what is written to it, a pixel that is in its file, *)
(* from this run or an earlier one, is neither waiting nor assigned,       *)
(* whatever servers, commands and remrt itself do: ph_pixels takes it off  *)
(* the one assignment it is in, and a restarted remrt's                    *)
(* scan_frame_for_finished_pixels leaves it out.                           *)
THEOREM NothingIsRenderedTwice ==
    ASSUME "write" \notin Faults
    PROVE  Spec => []NothingTwice
<1>1. TypeInv /\ TypeInv' /\ WorkInv /\ [Next]_vars => WorkInv'
  BY NextWork
<1>2. TypeInv /\ [Next]_vars => TypeInv'
  BY NextType
<1>3. TypeInv /\ WorkInv /\ Fresh /\ [Next]_vars => Fresh'
  BY NextMove, MoveFresh
<1>4. QED BY InitType, InitWork, InitFresh, FreshIsNotTwice, <1>1, <1>2, <1>3, PTL DEF Spec

-----------------------------------------------------------------------------
(* 2.1. The opening of a connection.                                       *)

Opens(q) == \E i \in DOMAIN q : q[i].type \in {"VERSION", "CMD"}

Unspoken(p) == p.link = "open" /\ ~p.started

(* A connection on which nothing has been said yet but the opening.        *)
Opening(v, p, o, b, w) ==
    /\ v.state \in {"NEW", "CLOSING"}
    /\ o = <<>> /\ p.queue = <<>>
    /\ Unspoken(p) => b = <<>> /\ w = <<>>
    /\ Opens(b) => Len(b) = 1 /\ w = <<>>
    /\ Opens(w) => Len(w) = 1 /\ b = <<>>

(* v, p, o, b, w: a slot's server, peer, output, buffer and wire.          *)
Orderly(v, p, o, b, w) ==
    /\ Unspoken(p) \/ Opens(b) \/ Opens(w) => Opening(v, p, o, b, w)
    /\ v.state = "UNUSED" => o = <<>> /\ b = <<>> /\ w = <<>> /\ p.link # "open"
    /\ Busy(v) => Holds(v)

OrderlySlot(s) == Orderly(srv[s], peer[s], out[s], buf[s], wire[s])

OpeningInv == \A s \in Slots : OrderlySlot(s)

(* What a slot's connection holds has its type.                            *)
LEMMA SlotType ==
    ASSUME TypeInv, NEW s \in Slots
    PROVE  /\ srv[s] \in Server /\ peer[s] \in Peer /\ out[s] \in Seq(Order)
           /\ buf[s] \in Seq(Report) /\ wire[s] \in Seq(Report)
BY DEF TypeInv, TypeOK, MemoryTypeOK, NetTypeOK

(* Once more than the opening has been said nothing opens any more.        *)
Settled(p, b, w) == ~Unspoken(p) /\ ~Opens(b) /\ ~Opens(w)

LEMMA OpensEmpty == ~Opens(<<>>)
BY DEF Opens

LEMMA OpensHead ==
    ASSUME NEW q \in Seq(Report), q # <<>>, Head(q).type \in {"VERSION", "CMD"}
    PROVE  Opens(q)
<1>1. 1 \in DOMAIN q /\ q[1] = Head(q)
  BY LenProperties, EmptySeq
<1>2. QED BY <1>1 DEF Opens

LEMMA OpensTail ==
    ASSUME NEW q \in Seq(Report), q # <<>>
    PROVE  /\ Opens(Tail(q)) => Opens(q)
           /\ Len(q) = 1 => Tail(q) = <<>>
<1>1. /\ Tail(q) \in Seq(Report) /\ Len(Tail(q)) = Len(q) - 1
      /\ \A i \in 1 .. Len(Tail(q)) : Tail(q)[i] = q[i + 1]
  BY HeadTailProperties
<1>2. /\ Len(q) \in Nat /\ DOMAIN q = 1 .. Len(q)
      /\ DOMAIN Tail(q) = 1 .. Len(q) - 1
  BY <1>1, LenProperties
<1>3. Opens(Tail(q)) => Opens(q)
  <2>1. ASSUME NEW i \in DOMAIN Tail(q), Tail(q)[i].type \in {"VERSION", "CMD"}
        PROVE  i + 1 \in DOMAIN q /\ q[i + 1].type \in {"VERSION", "CMD"}
    BY <1>1, <1>2, <2>1
  <2>2. QED BY <2>1 DEF Opens
<1>4. Len(q) = 1 => Tail(q) = <<>>
  BY <1>1, <1>2, EmptySeq
<1>5. QED BY <1>3, <1>4

LEMMA OpensBoth ==
    ASSUME NEW q \in Seq(Report), NEW r \in Seq(Report), Opens(q \o r)
    PROVE  Opens(q) \/ Opens(r)
<1> DEFINE both == q \o r
<1>1. /\ both \in Seq(Report)
      /\ Len(both) = Len(q) + Len(r)
      /\ \A i \in 1 .. Len(q) + Len(r) : both[i] = IF i <= Len(q) THEN q[i] ELSE r[i - Len(q)]
  BY ConcatProperties
<1>2. /\ Len(q) \in Nat /\ DOMAIN q = 1 .. Len(q)
      /\ Len(r) \in Nat /\ DOMAIN r = 1 .. Len(r)
      /\ DOMAIN both = 1 .. Len(q) + Len(r)
  BY <1>1, LenProperties
<1> HIDE DEF both
<1>3. PICK i \in DOMAIN both : both[i].type \in {"VERSION", "CMD"}
  BY DEF Opens, both
<1>4. CASE i <= Len(q)
  <2>1. i \in DOMAIN q /\ q[i] = both[i]
    BY <1>1, <1>2, <1>4
  <2>2. QED BY <1>3, <2>1 DEF Opens
<1>5. CASE ~(i <= Len(q))
  <2>1. i - Len(q) \in DOMAIN r /\ r[i - Len(q)] = both[i]
    BY <1>1, <1>2, <1>5
  <2>2. QED BY <1>3, <2>1 DEF Opens
<1>6. QED BY <1>4, <1>5

LEMMA SettledIsOrderly ==
    ASSUME NEW v, NEW p, NEW o, NEW b, NEW w, Settled(p, b, w),
           v.state # "UNUSED", Busy(v) => Holds(v)
    PROVE  Orderly(v, p, o, b, w)
BY DEF Settled, Orderly

LEMMA OrderlyIsSettled ==
    ASSUME NEW v, NEW p, NEW o, NEW b, NEW w, Orderly(v, p, o, b, w),
           v.state \notin {"NEW", "CLOSING"} \/ o # <<>> \/ p.queue # <<>>
    PROVE  Settled(p, b, w)
BY DEF Settled, Orderly, Opening

(* A server that is dropped, and one whose state and work stay.            *)
LEMMA OrderlyDropped ==
    ASSUME NEW v \in Server, NEW p, NEW o, NEW b, NEW w, Orderly(v, p, o, b, w)
    PROVE  Orderly(Dropped(v), p, o, b, w) /\ Dropped(v).state = "CLOSING"
<1>1. Dropped(v).state = "CLOSING"
  BY DEF Dropped, Server
<1>2. Busy(Dropped(v)) => Holds(Dropped(v))
  BY DroppedType, NoWorkType DEF Busy, Orderly
<1>3. QED BY <1>1, <1>2 DEF Orderly, Opening

LEMMA OrderlySame ==
    ASSUME NEW v, NEW u, NEW p, NEW o, NEW b, NEW w, Orderly(v, p, o, b, w),
           u.state = v.state, u.work = v.work \/ u.work = NoWork
    PROVE  Orderly(u, p, o, b, w)
BY NoWorkType DEF Orderly, Opening, Busy, Holds

LEMMA OrderlyConsumed ==
    ASSUME NEW v, NEW p, NEW o, NEW b \in Seq(Report), NEW w, b # <<>>,
           Orderly(v, p, o, b, w)
    PROVE  Orderly(v, p, o, Tail(b), w)
<1>1. Opens(Tail(b)) => Opens(b)
  BY OpensTail
<1>2. ~Opens(Tail(b))
  BY <1>1, OpensTail, OpensEmpty DEF Orderly, Opening
<1>3. ~Unspoken(p)
  BY DEF Orderly, Opening
<1>4. ~Opens(w)
  BY DEF Orderly, Opening
<1>5. QED BY <1>2, <1>3, <1>4 DEF Orderly

LEMMA OrderlyMoved ==      \* from the wire to the buffer
    ASSUME NEW v, NEW p, NEW o, NEW b \in Seq(Report), NEW w \in Seq(Report),
           Orderly(v, p, o, b, w)
    PROVE  Orderly(v, p, o, b \o w, <<>>)
<1>1. CASE ~Opens(b) /\ ~Opens(w)
  <2>1. ~Opens(b \o w)
    BY <1>1, OpensBoth
  <2>2. Unspoken(p) => b \o w = <<>>
    BY DEF Orderly, Opening
  <2>3. QED BY <1>1, <2>1, <2>2, OpensEmpty DEF Orderly, Opening
<1>2. CASE Opens(b)
  <2>1. w = <<>> /\ b \o w = b
    BY <1>2, ConcatEmptySeq DEF Orderly, Opening
  <2>2. QED BY <1>2, <2>1 DEF Orderly, Opening
<1>3. CASE Opens(w)
  <2>1. b = <<>> /\ b \o w = w /\ ~Unspoken(p) /\ Len(w) = 1
    <3>1. b = <<>> /\ Len(w) = 1
      BY <1>3 DEF Orderly, Opening
    <3>2. w # <<>>
      BY <1>3, OpensEmpty
    <3>3. QED BY <1>3, <3>1, <3>2, ConcatEmptySeq DEF Orderly, Opening
  <2>2. QED BY <1>3, <2>1, OpensEmpty DEF Orderly, Opening
<1>4. QED BY <1>1, <1>2, <1>3

LEMMA OrderlyUnused == Orderly(Unused, NoPeer, <<>>, <<>>, <<>>)
<1>1. Unused.state = "UNUSED" /\ ~Busy(Unused)
  BY DEF Unused, Busy, NoWork
<1>2. NoPeer.link = "none"
  BY DEF NoPeer, NewPeer
<1>3. QED BY <1>1, <1>2, OpensEmpty DEF Orderly, Unspoken

LEMMA OrderlyNew ==
    ASSUME NEW job \in {"render", "command"}
    PROVE  Orderly([Unused EXCEPT !.state = "NEW", !.polled = TRUE],
                   NewPeer(job), <<>>, <<>>, <<>>)
<1> DEFINE v == [Unused EXCEPT !.state = "NEW", !.polled = TRUE]
<1>1. v.state = "NEW" /\ ~Busy(v)
  BY DEF Unused, Busy, NoWork
<1>2. NewPeer(job).queue = <<>>
  BY DEF NewPeer
<1> HIDE DEF v
<1>3. Orderly(v, NewPeer(job), <<>>, <<>>, <<>>)
  BY <1>1, <1>2, OpensEmpty DEF Orderly, Opening
<1>4. QED BY <1>3 DEF v

-----------------------------------------------------------------------------
(* 2.2. Every step leaves the connections orderly.                         *)

Elsewhere(s) ==
    \A t \in Slots \ {s} : /\ srv'[t] = srv[t] /\ peer'[t] = peer[t]
                           /\ out'[t] = out[t] /\ buf'[t] = buf[t] /\ wire'[t] = wire[t]

LEMMA OneSlot ==
    ASSUME OpeningInv, NEW s \in Slots, Elsewhere(s),
           Orderly(srv'[s], peer'[s], out'[s], buf'[s], wire'[s])
    PROVE  OpeningInv'
<1>1. ASSUME NEW t \in Slots
      PROVE  Orderly(srv'[t], peer'[t], out'[t], buf'[t], wire'[t])
  <2>1. CASE t # s
    <3>1. Orderly(srv[t], peer[t], out[t], buf[t], wire[t])
      BY DEF OpeningInv, OrderlySlot
    <3>2. QED BY <2>1, <3>1 DEF Elsewhere
  <2>2. QED BY <2>1
<1>2. QED BY <1>1 DEF OpeningInv, OrderlySlot, Orderly, Opening

LEMMA SlotIsOrderly ==
    ASSUME OpeningInv, NEW s \in Slots
    PROVE  Orderly(srv[s], peer[s], out[s], buf[s], wire[s])
BY DEF OpeningInv, OrderlySlot

LEMMA NoSlotChanges ==
    ASSUME OpeningInv, UNCHANGED <<srv, peer, out, buf, wire>>
    PROVE  OpeningInv'
<1>1. ASSUME NEW t \in Slots
      PROVE  Orderly(srv'[t], peer'[t], out'[t], buf'[t], wire'[t])
  BY SlotIsOrderly
<1>2. QED BY <1>1 DEF OpeningInv, OrderlySlot, Orderly, Opening

LEMMA ServerChanges ==
    ASSUME TypeInv, OpeningInv, NEW s \in Slots, NEW v, srv' = [srv EXCEPT ![s] = v],
           UNCHANGED <<peer, out, buf, wire>>,
           Orderly(v, peer[s], out[s], buf[s], wire[s])
    PROVE  OpeningInv'
<1>1. Elsewhere(s) /\ srv'[s] = v
  BY DEF Elsewhere, TypeInv, TypeOK, MemoryTypeOK
<1>2. QED BY <1>1, OneSlot

LEMMA DropIsOrderly ==
    ASSUME TypeInv, OpeningInv, NEW s \in Slots, Drop(s), UNCHANGED <<peer, out, buf, wire>>
    PROVE  OpeningInv'
<1>1. srv' = [srv EXCEPT ![s] = Dropped(srv[s])]
  BY DEF Drop
<1>2. Orderly(Dropped(srv[s]), peer[s], out[s], buf[s], wire[s])
  BY SlotType, SlotIsOrderly, OrderlyDropped
<1>3. QED BY <1>1, <1>2, ServerChanges

(* A handler: the package is taken from the buffer.                        *)
LEMMA Handled ==
    ASSUME TypeInv, OpeningInv, NEW s \in Slots, Consume(s), NEW v,
           srv' = [srv EXCEPT ![s] = v],
           Orderly(v, peer[s], out[s], Tail(buf[s]), wire[s])
    PROVE  OpeningInv'
<1>1. /\ srv'[s] = v /\ buf'[s] = Tail(buf[s]) /\ peer' = peer /\ out' = out /\ wire' = wire
      /\ Elsewhere(s)
  BY DEF Consume, Elsewhere, TypeInv, TypeOK, MemoryTypeOK, NetTypeOK
<1>2. QED BY <1>1, OneSlot

LEMMA HandledByDrop ==
    ASSUME TypeInv, OpeningInv, NEW s \in Slots, NEW type, Receiving(s, type),
           Consume(s), Drop(s)
    PROVE  OpeningInv'
<1>1. srv' = [srv EXCEPT ![s] = Dropped(srv[s])]
  BY DEF Drop
<1>2. buf[s] # <<>>
  BY ReceivingType
<1>3. Orderly(Dropped(srv[s]), peer[s], out[s], buf[s], wire[s])
  BY SlotType, SlotIsOrderly, OrderlyDropped
<1>4. Orderly(Dropped(srv[s]), peer[s], out[s], Tail(buf[s]), wire[s])
  BY <1>2, <1>3, SlotType, OrderlyConsumed
<1>5. QED BY <1>1, <1>4, Handled

LEMMA PhVersionOrderly ==
    ASSUME TypeInv, OpeningInv, NEW s \in Slots, ph_version(s)
    PROVE  OpeningInv'
<1>1. Receiving(s, "VERSION") /\ Consume(s) /\ buf[s] # <<>>
      /\ Head(buf[s]).type = "VERSION"
  BY ReceivingType DEF ph_version
<1>2. CASE ~Head(buf[s]).same
  BY <1>1, <1>2, HandledByDrop DEF ph_version
<1>3. CASE Head(buf[s]).same
  <2> DEFINE v == [srv[s] EXCEPT !.state = "VERSOK"]
  <2>1. Opens(buf[s])
    BY <1>1, SlotType, OpensHead
  <2>2. Opening(srv[s], peer[s], out[s], buf[s], wire[s]) /\ (Busy(srv[s]) => Holds(srv[s]))
    BY <2>1, SlotIsOrderly DEF Orderly
  <2>3. Tail(buf[s]) = <<>> /\ wire[s] = <<>> /\ ~Unspoken(peer[s])
    BY <1>1, <2>1, <2>2, SlotType, OpensTail DEF Opening
  <2>4. v.state = "VERSOK" /\ v.work = srv[s].work
    BY SlotType DEF Server
  <2>5. srv' = [srv EXCEPT ![s] = v]
    BY <1>3 DEF ph_version
  <2> HIDE DEF v
  <2>6. ~Busy(v)
    BY <2>2, <2>4 DEF Opening, Busy, Holds
  <2>7. Orderly(v, peer[s], out[s], Tail(buf[s]), wire[s])
    BY <2>3, <2>4, <2>6, OpensEmpty, SettledIsOrderly DEF Settled
  <2>8. QED BY <1>1, <2>5, <2>7, Handled
<1>4. QED BY <1>2, <1>3

(* The answer to an order that is expected: the state goes on.             *)
LEMMA ReplyOrderly ==
    ASSUME TypeInv, OpeningInv, NEW s \in Slots, NEW type, Receiving(s, type), Consume(s),
           srv[s].state \in {"DOING_DIRBUILD", "DOING_GETTREES"},
           NEW x \in {"NEED_TREE", "READY"}, srv' = [srv EXCEPT ![s].state = x]
    PROVE  OpeningInv'
<1> DEFINE v == [srv[s] EXCEPT !.state = x]
<1>1. Settled(peer[s], buf[s], wire[s])
  BY SlotIsOrderly, OrderlyIsSettled
<1>2. Settled(peer[s], Tail(buf[s]), wire[s])
  <2>1. buf[s] # <<>>
    BY ReceivingType
  <2>2. QED BY <1>1, <2>1, SlotType, OpensTail DEF Settled
<1>3. v.state = x /\ Holds(v)
  BY SlotType DEF Server, Holds
<1>4. srv' = [srv EXCEPT ![s] = v]
  OBVIOUS
<1> HIDE DEF v
<1>5. Orderly(v, peer[s], out[s], Tail(buf[s]), wire[s])
  BY <1>2, <1>3, SettledIsOrderly
<1>6. QED BY <1>4, <1>5, Handled

LEMMA PhPixelsOrderly ==
    ASSUME TypeInv, OpeningInv, NEW s \in Slots, ph_pixels(s)
    PROVE  OpeningInv'
<1>1. Receiving(s, "PIXELS") /\ Consume(s) /\ buf[s] # <<>>
  BY ReceivingType DEF ph_pixels
<1>2. CASE Drop(s)
  BY <1>1, <1>2, HandledByDrop
<1>3. ASSUME NEW v, v.state = srv[s].state, v.work \in {srv[s].work, NoWork},
             srv' = [srv EXCEPT ![s] = v]
      PROVE  OpeningInv'
  <2>1. Orderly(srv[s], peer[s], out[s], Tail(buf[s]), wire[s])
    BY <1>1, SlotType, SlotIsOrderly, OrderlyConsumed
  <2>2. Orderly(v, peer[s], out[s], Tail(buf[s]), wire[s])
    BY <1>3, <2>1, OrderlySame
  <2>3. QED BY <1>1, <1>3, <2>2, Handled
<1>4. CASE srv' = srv
  <2>1. srv' = [srv EXCEPT ![s] = srv[s]]
    BY <1>4 DEF TypeInv, TypeOK, MemoryTypeOK
  <2>2. QED BY <1>3, <2>1
<1>5. CASE srv' = [srv EXCEPT ![s].work = NoWork, ![s].late = FALSE]
  <2> DEFINE v == [srv[s] EXCEPT !.work = NoWork, !.late = FALSE]
  <2>1. srv' = [srv EXCEPT ![s] = v]
    BY <1>5 DEF TypeInv, TypeOK, MemoryTypeOK
  <2>2. v.state = srv[s].state /\ v.work = NoWork
    BY SlotType DEF Server
  <2> HIDE DEF v
  <2>3. QED BY <1>3, <2>1, <2>2
<1>6. QED BY <1>2, <1>4, <1>5 DEF ph_pixels, FilePixels, CannotOpen, CannotWrite

LEMMA CdDropOrderly ==
    ASSUME TypeInv, OpeningInv, NEW s \in Slots, cd_drop(s)
    PROVE  OpeningInv'
<1>1. Receiving(s, "CMD") /\ Consume(s) /\ buf[s] # <<>>
  BY ReceivingType DEF cd_drop
<1>2. CASE Drop(s)
  BY <1>1, <1>2, HandledByDrop
<1>3. ASSUME NEW d, srv' = [r \in Slots |-> IF r \in {s, d} THEN Dropped(srv[r]) ELSE srv[r]]
      PROVE  OpeningInv'
  <2>1. ASSUME NEW t \in Slots
        PROVE  Orderly(srv'[t], peer'[t], out'[t], buf'[t], wire'[t])
    <3>1. /\ srv'[t] \in {srv[t], Dropped(srv[t])} /\ peer'[t] = peer[t]
          /\ out'[t] = out[t] /\ wire'[t] = wire[t]
      BY <1>1, <1>3 DEF Consume
    <3>2. Orderly(srv'[t], peer[t], out[t], buf[t], wire[t])
      BY <3>1, SlotType, SlotIsOrderly, OrderlyDropped
    <3>3. CASE t = s
      <4>1. buf'[t] = Tail(buf[t])
        BY <1>1, <3>3 DEF Consume, TypeInv, TypeOK, NetTypeOK
      <4>2. QED BY <1>1, <3>1, <3>2, <3>3, <4>1, SlotType, OrderlyConsumed
    <3>4. CASE t # s
      <4>1. buf'[t] = buf[t]
        BY <1>1, <3>4 DEF Consume, TypeInv, TypeOK, NetTypeOK
      <4>2. QED BY <3>1, <3>2, <4>1
    <3>5. QED BY <3>3, <3>4
  <2>2. QED BY <2>1 DEF OpeningInv, OrderlySlot, Orderly, Opening
<1>4. QED BY <1>2, <1>3 DEF cd_drop

LEMMA ReceiveOrderly ==
    ASSUME TypeInv, OpeningInv, NothingLosesWork, Receive
    PROVE  OpeningInv'
<1>1. ASSUME NEW s \in Slots, ph_dirbuild_reply(s) \/ ph_gettrees_reply(s)
      PROVE  OpeningInv'
  BY <1>1, HandledByDrop, ReplyOrderly DEF ph_dirbuild_reply, ph_gettrees_reply
<1>2. ASSUME NEW s \in Slots, cd_stop_go(s) PROVE OpeningInv'
  BY <1>2, HandledByDrop DEF cd_stop_go
<1>3. ASSUME NEW s \in Slots, cd_restart(s) PROVE OpeningInv'
  <2>1. Receiving(s, "CMD") /\ Head(buf[s]).command.cmd = "restart"
    BY <1>3 DEF cd_restart
  <2>2. Head(buf[s]).command \in Commands
    BY <2>1, ReceivingType DEF Report
  <2>3. QED BY <2>1, <2>2 DEF NothingLosesWork
<1>4. QED BY <1>1, <1>2, <1>3, PhVersionOrderly, PhPixelsOrderly, CdDropOrderly DEF Receive

LEMMA CheckInputOrderly ==
    ASSUME TypeInv, OpeningInv, NothingLosesWork, CheckInput
    PROVE  OpeningInv'
<1>1. CASE ReceivedAll \/ SuckedAll
  BY <1>1, NoSlotChanges DEF ReceivedAll, SuckedAll, memory, net
<1>2. CASE select
  <2>1. CASE ~(backlog # "none" /\ Free # {})
    BY <1>2, <2>1, NoSlotChanges DEF select
  <2>2. CASE backlog # "none" /\ Free # {}
    <3> DEFINE new == [Unused EXCEPT !.state = "NEW", !.polled = TRUE]
    <3>1. Free \subseteq Nat
      BY DEF Free, Slots
    <3>2. PICK s \in Free : s = Min(Free)
      BY <2>2, <3>1, MinOfNaturals
    <3>3. /\ srv' = [srv EXCEPT ![s] = new] /\ peer' = [peer EXCEPT ![s] = NewPeer(backlog)]
          /\ UNCHANGED <<out, buf, wire>>
      BY <1>2, <2>2, <3>2 DEF select
    <3>4. s \in Slots /\ srv[s].state = "UNUSED" /\ backlog \in {"render", "command"}
      BY <2>2 DEF Free, Occupied, TypeInv, TypeOK, EnvironmentTypeOK
    <3>5. out[s] = <<>> /\ buf[s] = <<>> /\ wire[s] = <<>>
      BY <3>4, SlotIsOrderly DEF Orderly
    <3>6. Orderly(new, NewPeer(backlog), <<>>, <<>>, <<>>)
      BY <3>4, OrderlyNew
    <3> HIDE DEF new
    <3>7. srv'[s] = new /\ peer'[s] = NewPeer(backlog) /\ Elsewhere(s)
      BY <3>3, <3>4 DEF Elsewhere, TypeInv, TypeOK, MemoryTypeOK, NetTypeOK
    <3>8. QED BY <3>3, <3>4, <3>5, <3>6, <3>7, OneSlot
  <2>3. QED BY <2>1, <2>2
<1>3. ASSUME NEW s \in Slots, suckin(s) PROVE OpeningInv'
  <2>1. CASE wire[s] = <<>>
    BY <1>3, <2>1, DropIsOrderly DEF suckin
  <2>2. CASE wire[s] # <<>>
    <3>1. /\ buf' = [buf EXCEPT ![s] = buf[s] \o wire[s]] /\ wire' = [wire EXCEPT ![s] = <<>>]
          /\ UNCHANGED <<srv, out, peer>>
      BY <1>3, <2>2 DEF suckin
    <3>2. buf'[s] = buf[s] \o wire[s] /\ wire'[s] = <<>> /\ Elsewhere(s)
      BY <3>1 DEF Elsewhere, TypeInv, TypeOK, NetTypeOK
    <3>3. Orderly(srv[s], peer[s], out[s], buf[s] \o wire[s], <<>>)
      BY SlotType, SlotIsOrderly, OrderlyMoved
    <3>4. QED BY <3>1, <3>2, <3>3, OneSlot
  <2>3. QED BY <2>1, <2>2
<1>4. QED BY <1>1, <1>2, <1>3, ReceiveOrderly DEF CheckInput

(* A message to a server: the connection has been opened long ago.         *)
LEMMA Transmitted ==
    ASSUME TypeInv, OpeningInv, NEW s \in Slots, NEW messages, Transmit(s, messages),
           UNCHANGED peer, srv[s].state \notin {"NEW", "CLOSING"},
           NEW v, srv' = [srv EXCEPT ![s] = v],
           v.state # "UNUSED", Busy(v) => Holds(v)
    PROVE  OpeningInv'
<1>1. /\ srv'[s] = v /\ peer' = peer /\ buf'[s] = buf[s] \o wire[s] /\ wire'[s] = <<>>
      /\ Elsewhere(s)
  BY DEF Transmit, Elsewhere, TypeInv, TypeOK, MemoryTypeOK, NetTypeOK
<1>2. Settled(peer[s], buf[s], wire[s])
  BY SlotIsOrderly, OrderlyIsSettled
<1>3. Settled(peer[s], buf[s] \o wire[s], <<>>)
  BY <1>2, SlotType, OpensBoth, OpensEmpty DEF Settled
<1>4. Orderly(v, peer[s], out'[s], buf[s] \o wire[s], <<>>)
  BY <1>3, SettledIsOrderly
<1>5. QED BY <1>1, <1>4, OneSlot

LEMMA TransmittedByDrop ==
    ASSUME TypeInv, OpeningInv, NEW s \in Slots, NEW messages, Transmit(s, messages),
           UNCHANGED peer, srv[s].state \notin {"NEW", "CLOSING"},
           NEW u \in Server, srv' = [srv EXCEPT ![s] = Dropped(u)],
           Busy(u) => Holds(u)
    PROVE  OpeningInv'
<1>1. Dropped(u).state = "CLOSING"
  BY DEF Dropped, Server
<1>2. ~Busy(Dropped(u))
  BY DroppedType, NoWorkType DEF Busy
<1>3. QED BY <1>1, <1>2, Transmitted

LEMMA HungryHolds ==
    ASSUME NEW s \in Slots, Tasking(s)
    PROVE  Holds(srv[s])
<1>1. Hungry \subseteq Nat /\ Hungry # {} /\ s = Min(Hungry)
  BY DEF Tasking, Hungry, Slots
<1>2. s \in Hungry
  BY <1>1, MinOfNaturals
<1>3. QED BY <1>2 DEF Hungry

LEMMA SendDirbuildOrderly ==
    ASSUME TypeInv, OpeningInv, NEW s \in Slots, send_dirbuild(s)
    PROVE  OpeningInv'
<1>1. /\ Transmit(s, <<[type |-> "DIRBUILD"]>>) /\ UNCHANGED peer
      /\ srv[s].state = "VERSOK"
  BY DEF send_dirbuild
<1>2. ~Busy(srv[s])
  BY <1>1, SlotIsOrderly DEF Orderly, Holds
<1>3. CASE Drop(s)
  BY <1>1, <1>2, <1>3, SlotType, TransmittedByDrop DEF Drop
<1>4. CASE srv' = [srv EXCEPT ![s].state = "DOING_DIRBUILD"]
  <2> DEFINE v == [srv[s] EXCEPT !.state = "DOING_DIRBUILD"]
  <2>1. srv' = [srv EXCEPT ![s] = v]
    BY <1>4
  <2>2. v.state = "DOING_DIRBUILD" /\ ~Busy(v)
    BY <1>2, SlotType DEF Server, Busy
  <2> HIDE DEF v
  <2>3. QED BY <1>1, <2>1, <2>2, Transmitted
<1>5. QED BY <1>3, <1>4 DEF send_dirbuild

LEMMA TaskGettreesOrderly ==
    ASSUME TypeInv, OpeningInv, NEW s \in Slots, task_gettrees(s)
    PROVE  OpeningInv'
<1>1. /\ Wants(s) /\ Tasking(s) /\ UNCHANGED peer
      /\ Transmit(s, <<MATRIX, [type |-> "GETTREES"]>>)
  BY DEF task_gettrees, Wants, Tasking
<1>2. Holds(srv[s]) /\ ~Busy(srv[s]) /\ srv[s].state \notin {"NEW", "CLOSING"}
  BY <1>1, HungryHolds DEF Wants, Holds
<1>3. CASE Drop(s)
  BY <1>1, <1>2, <1>3, SlotType, TransmittedByDrop DEF Drop
<1>4. CASE srv' = [srv EXCEPT ![s].cur = fr, ![s].state = "DOING_GETTREES"]
  <2> DEFINE v == [srv[s] EXCEPT !.cur = fr, !.state = "DOING_GETTREES"]
  <2>1. srv' = [srv EXCEPT ![s] = v]
    BY <1>4 DEF TypeInv, TypeOK, MemoryTypeOK
  <2>2. v.state = "DOING_GETTREES" /\ ~Busy(v)
    BY <1>2, SlotType DEF Server, Busy
  <2> HIDE DEF v
  <2>3. QED BY <1>1, <1>2, <2>1, <2>2, Transmitted
<1>5. QED BY <1>3, <1>4 DEF task_gettrees

LEMMA TaskLinesOrderly ==
    ASSUME TypeInv, OpeningInv, NEW s \in Slots, task_lines(s)
    PROVE  OpeningInv'
<1> DEFINE Given(w) == [srv[s] EXCEPT !.cur = fr, !.work = w, !.late = FALSE]
<1>1. Wants(s) /\ Tasking(s) /\ UNCHANGED peer
  BY DEF task_lines, Wants, Tasking
<1>2. Holds(srv[s]) /\ srv[s].state \notin {"NEW", "CLOSING"}
  BY <1>1, HungryHolds DEF Holds
<1>3. PICK lump \in Lumps :
        /\ \E messages : Transmit(s, messages)
        /\ \/ srv' = [srv EXCEPT ![s] = Given(Portion(lump))]
           \/ srv' = [srv EXCEPT ![s] = Dropped(Given(Portion(lump)))]
  BY DEF task_lines
<1> DEFINE v == Given(Portion(lump))
<1>4. v \in Server /\ Holds(v) /\ v.state # "UNUSED"
  <2>1. Portion(lump) \in Work /\ fr \in 0 .. NFrames
    BY <1>1, TaskingFacts, PortionType, FrameNumbers
  <2>2. QED BY <1>2, <2>1, SlotType DEF Server, Holds
<1> HIDE DEF v
<1>5. srv' = [srv EXCEPT ![s] = v] \/ srv' = [srv EXCEPT ![s] = Dropped(v)]
  BY <1>3 DEF v
<1>6. QED BY <1>1, <1>2, <1>3, <1>4, <1>5, Transmitted, TransmittedByDrop

LEMMA ScheduleOrderly ==
    ASSUME TypeInv, OpeningInv, NothingLosesWork, Schedule
    PROVE  OpeningInv'
<1>1. CASE AttendedAll \/ ReapedAll \/ NothingWaits \/ PassEnds
  BY <1>1, NoSlotChanges DEF AttendedAll, ReapedAll, NothingWaits, PassEnds, memory, net
<1>2. CASE frame_is_done
  <2>1. UNCHANGED net
    BY <1>2 DEF frame_is_done
  <2>2. ASSUME NEW t \in Slots
        PROVE  Orderly(srv'[t], peer'[t], out'[t], buf'[t], wire'[t])
    <3>1. srv'[t] \in {srv[t], [srv[t] EXCEPT !.cur = 0]}
      BY <1>2 DEF frame_is_done
    <3>2. srv'[t].state = srv[t].state /\ srv'[t].work = srv[t].work
      BY <3>1, SlotType DEF Server
    <3>3. QED BY <2>1, <3>2, SlotIsOrderly, OrderlySame DEF net
  <2>3. QED BY <2>2 DEF OpeningInv, OrderlySlot, Orderly, Opening
<1>3. ASSUME NEW s \in Slots,
             task_none_left(s) \/ task_other_frame(s) \/ task_reserved(s)
      PROVE  OpeningInv'
  BY <1>3, NoSlotChanges DEF task_none_left, task_other_frame, task_reserved, Wants, Tasking
<1>4. ASSUME NEW s \in Slots, final_close(s) PROVE OpeningInv'
  <2>1. /\ srv'[s] = Unused /\ peer'[s] = NoPeer
        /\ out'[s] = <<>> /\ buf'[s] = <<>> /\ wire'[s] = <<>> /\ Elsewhere(s)
    BY <1>4 DEF final_close, Elsewhere, TypeInv, TypeOK, MemoryTypeOK, NetTypeOK
  <2>2. QED BY <2>1, OrderlyUnused, OneSlot
<1>5. ASSUME NEW s \in Slots, task_tardy(s) PROVE OpeningInv'
  BY <1>5, DropIsOrderly DEF task_tardy, Tasking
<1>6. ASSUME NEW s \in Slots, task_dropped(s) PROVE OpeningInv'
  BY <1>6, TaskDroppedMove
<1>7. QED BY <1>1, <1>2, <1>3, <1>4, <1>5, <1>6, SendDirbuildOrderly,
             TaskGettreesOrderly, TaskLinesOrderly DEF Schedule

LEMMA RtsrvMainOrderly ==
    ASSUME TypeInv, OpeningInv, NEW s \in Slots, rtsrv_main(s)
    PROVE  OpeningInv'
<1>1. UNCHANGED <<srv, out, buf>> /\ Unspoken(peer[s])
  BY DEF rtsrv_main, memory, Awake, Unspoken
<1>2. /\ Opening(srv[s], peer[s], out[s], buf[s], wire[s])
      /\ buf[s] = <<>> /\ wire[s] = <<>> /\ out[s] = <<>>
      /\ srv[s].state # "UNUSED" /\ (Busy(srv[s]) => Holds(srv[s]))
  BY <1>1, SlotIsOrderly DEF Orderly, Opening
<1>3. PICK m \in Report : wire' = [wire EXCEPT ![s] = wire[s] \o <<m>>]
  BY DEF rtsrv_main, Reply, Report
<1>4. PICK p : /\ peer' = [peer EXCEPT ![s] = p]
               /\ ~Unspoken(p) /\ p.queue = <<>>
  <2>1. peer[s].queue = <<>>
    BY <1>2 DEF Opening
  <2>2. /\ ~Unspoken([peer[s] EXCEPT !.started = TRUE])
        /\ [peer[s] EXCEPT !.started = TRUE].queue = <<>>
    BY <2>1, SlotType DEF Unspoken, Peer
  <2>3. ~Unspoken(Gone(peer[s])) /\ Gone(peer[s]).queue = <<>>
    BY DEF Unspoken, Gone, NewPeer
  <2>4. QED BY <2>2, <2>3 DEF rtsrv_main
<1>5. wire'[s] = <<m>> /\ peer'[s] = p /\ Elsewhere(s)
  <2>1. wire[s] \o <<m>> = <<m>>
    BY <1>2, ConcatEmptySeq
  <2>2. QED BY <1>1, <1>3, <1>4, <2>1 DEF Elsewhere, TypeInv, TypeOK, NetTypeOK
<1>6. Len(<<m>>) = 1
  OBVIOUS
<1>7. Orderly(srv[s], p, <<>>, <<>>, <<m>>)
  BY <1>2, <1>4, <1>6, OpensEmpty DEF Orderly, Opening
<1>8. QED BY <1>1, <1>2, <1>5, <1>7, OneSlot

(* A step of the worker of s after its first: it sends no opening.         *)
Answers(s) ==
    /\ UNCHANGED <<srv, buf>> /\ Elsewhere(s) /\ ~Unspoken(peer'[s])
    /\ \E q \in Seq(Report) : ~Opens(q) /\ wire'[s] = wire[s] \o q

LEMMA AnswersWith ==
    ASSUME TypeInv, NEW s \in Slots, UNCHANGED <<srv, buf>>,
           \A t \in Slots \ {s} : out'[t] = out[t],
           NEW p, peer' = [peer EXCEPT ![s] = p], ~Unspoken(p),
           \/ wire' = wire
           \/ \E q \in Seq(Report) : ~Opens(q) /\ Reply(s, q)
    PROVE  Answers(s)
<1>1. peer'[s] = p /\ Elsewhere(s)
  BY DEF Elsewhere, Reply, TypeInv, TypeOK, NetTypeOK
<1>2. <<>> \in Seq(Report) /\ ~Opens(<<>>) /\ wire[s] \o <<>> = wire[s]
  BY SlotType, EmptySeq, OpensEmpty, ConcatEmptySeq
<1>3. \E q \in Seq(Report) : ~Opens(q) /\ wire'[s] = wire[s] \o q
  BY <1>2 DEF Reply, TypeInv, TypeOK, NetTypeOK
<1>4. QED BY <1>1, <1>3 DEF Answers

LEMMA OpensOne ==
    ASSUME NEW m \in Report, m.type \notin {"VERSION", "CMD"}
    PROVE  <<m>> \in Seq(Report) /\ ~Opens(<<m>>)
BY DEF Opens

LEMMA RtsrvReceiveAnswers ==
    ASSUME TypeInv, NEW s \in Slots, rtsrv_receive(s)
    PROVE  Answers(s)
<1>1. /\ out[s] # <<>> /\ peer[s].link = "open" /\ peer[s].started
      /\ UNCHANGED <<srv, buf>> /\ \A t \in Slots \ {s} : out'[t] = out[t]
  BY DEF rtsrv_receive, Awake, memory, TypeInv, TypeOK, NetTypeOK
<1>2. <<>> \in Seq(Report) /\ ~Opens(<<>>)
  BY EmptySeq, OpensEmpty
<1>3. CASE Head(out[s]).type = "DIRBUILD"
  <2> DEFINE p == [peer[s] EXCEPT !.dirbuilt = TRUE]
             m == [type |-> "DIRBUILD_REPLY"]
  <2>1. /\ peer' = [peer EXCEPT ![s] = p]
        /\ Reply(s, IF peer[s].dirbuilt THEN <<>> ELSE <<m>>)
    BY <1>3 DEF rtsrv_receive
  <2>2. ~Unspoken(p)
    BY <1>1, SlotType DEF Unspoken, Peer
  <2>3. m \in Report /\ m.type \notin {"VERSION", "CMD"}
    BY DEF Report
  <2> HIDE DEF p, m
  <2>4. \E q \in Seq(Report) : ~Opens(q) /\ Reply(s, q)
    BY <1>2, <2>1, <2>3, OpensOne
  <2>5. QED BY <1>1, <2>1, <2>2, <2>4, AnswersWith
<1>4. CASE Head(out[s]).type = "RESTART"
  <2>1. peer' = [peer EXCEPT ![s] = Gone(peer[s])] /\ wire' = wire
    BY <1>4 DEF rtsrv_receive
  <2>2. ~Unspoken(Gone(peer[s]))
    BY DEF Unspoken, Gone, NewPeer
  <2>3. QED BY <1>1, <2>1, <2>2, AnswersWith
<1>5. CASE Head(out[s]).type \notin {"DIRBUILD", "RESTART"}
  <2> DEFINE p == [peer[s] EXCEPT !.queue = Append(peer[s].queue, Head(out[s]))]
  <2>1. peer' = [peer EXCEPT ![s] = p] /\ wire' = wire
    BY <1>5 DEF rtsrv_receive
  <2>2. ~Unspoken(p)
    BY <1>1, SlotType DEF Unspoken, Peer
  <2> HIDE DEF p
  <2>3. QED BY <1>1, <2>1, <2>2, AnswersWith
<1>6. QED BY <1>3, <1>4, <1>5

LEMMA RtsrvWorkAnswers ==
    ASSUME TypeInv, NEW s \in Slots, rtsrv_work(s), ~Unspoken(peer[s])
    PROVE  Answers(s)
<1> DEFINE p == [peer[s] EXCEPT !.queue = Tail(peer[s].queue)]
           m == Head(peer[s].queue)
<1>1. /\ peer[s].queue # <<>> /\ peer[s].link = "open"
      /\ UNCHANGED <<srv, buf>> /\ \A t \in Slots \ {s} : out'[t] = out[t]
  BY DEF rtsrv_work, Awake, memory
<1>2. peer[s].started
  BY <1>1 DEF Unspoken
<1>3. ~Unspoken(p) /\ p.link = "open" /\ p.started /\ p.grid = peer[s].grid
  BY <1>1, <1>2, SlotType DEF Unspoken, Peer
<1>4. <<>> \in Seq(Report) /\ ~Opens(<<>>)
  BY EmptySeq, OpensEmpty
<1>5. CASE m.type = "MATRIX"
  <2> DEFINE q == [p EXCEPT !.view = m.frame]
  <2>1. peer' = [peer EXCEPT ![s] = q] /\ wire' = wire
    BY <1>5 DEF rtsrv_work
  <2>2. ~Unspoken(q)
    BY <1>1, <1>2, SlotType DEF Unspoken, Peer
  <2> HIDE DEF q
  <2>3. QED BY <1>1, <2>1, <2>2, AnswersWith
<1>6. CASE m.type = "GETTREES"
  <2> DEFINE q == [p EXCEPT !.grid = p.view]
             answer == [type |-> "GETTREES_REPLY"]
  <2>1. peer' = [peer EXCEPT ![s] = q] /\ Reply(s, <<answer>>)
    BY <1>6 DEF rtsrv_work
  <2>2. ~Unspoken(q)
    BY <1>1, <1>2, SlotType DEF Unspoken, Peer
  <2>3. answer \in Report /\ answer.type \notin {"VERSION", "CMD"}
    BY DEF Report
  <2> HIDE DEF q, answer
  <2>4. QED BY <1>1, <2>1, <2>2, <2>3, OpensOne, AnswersWith
<1>7. CASE m.type \notin {"MATRIX", "GETTREES"}
  <2> DEFINE answer == [type |-> "PIXELS", work |-> m.work, view |-> p.grid]
  <2>1. peer' = [peer EXCEPT ![s] = p]
        /\ Reply(s, IF p.grid = 0 \/ p.view = 0 THEN <<>> ELSE <<answer>>)
    BY <1>7 DEF rtsrv_work
  <2>2. p.grid # 0 => answer \in Report /\ answer.type \notin {"VERSION", "CMD"}
    <3>1. m \in Queued
      BY <1>1, SlotType, HeadTailProperties DEF Peer
    <3>2. m.work \in Work
      BY <1>7, <3>1 DEF Queued
    <3>3. p.grid \in 0 .. NFrames
      BY <1>3, SlotType DEF Peer
    <3> HIDE DEF m, p
    <3>4. p.grid # 0 => p.grid \in Frames
      BY <3>3, SizesInNat DEF Frames
    <3>5. QED BY <3>2, <3>4 DEF Report
  <2> HIDE DEF answer
  <2>3. \E q \in Seq(Report) : ~Opens(q) /\ Reply(s, q)
    BY <1>4, <2>1, <2>2, OpensOne
  <2> HIDE DEF p
  <2>4. QED BY <1>1, <1>3, <2>1, <2>3, AnswersWith
<1>8. QED BY <1>5, <1>6, <1>7

LEMMA AnswersOrderly ==
    ASSUME TypeInv, OpeningInv, NEW s \in Slots, rtsrv_receive(s) \/ rtsrv_work(s)
    PROVE  OpeningInv'
<1>1. Settled(peer[s], buf[s], wire[s]) /\ peer[s].link = "open"
  BY SlotIsOrderly, OrderlyIsSettled DEF rtsrv_receive, rtsrv_work, Awake
<1>2. Answers(s)
  BY <1>1, RtsrvReceiveAnswers, RtsrvWorkAnswers DEF Settled
<1>3. srv[s].state # "UNUSED" /\ (Busy(srv[s]) => Holds(srv[s]))
  BY <1>1, SlotIsOrderly DEF Orderly
<1>4. Settled(peer'[s], buf'[s], wire'[s])
  BY <1>1, <1>2, SlotType, OpensBoth DEF Settled, Answers
<1>5. Orderly(srv'[s], peer'[s], out'[s], buf'[s], wire'[s])
  BY <1>2, <1>3, <1>4, SettledIsOrderly DEF Answers
<1>6. QED BY <1>2, <1>5, OneSlot DEF Answers

LEMMA FaultsOrderly ==
    ASSUME TypeInv, OpeningInv, NEW s \in Slots,
           crash(s) \/ hang(s) \/ slow(s) \/ hung_too_long(s)
    PROVE  OpeningInv'
<1>1. CASE crash(s)
  <2>1. /\ srv'[s] = srv[s] /\ peer'[s] = Gone(peer[s]) /\ out'[s] = <<>>
        /\ buf'[s] = buf[s] /\ wire'[s] \in {wire[s], <<>>} /\ Elsewhere(s)
    BY <1>1 DEF crash, memory, Elsewhere, TypeInv, TypeOK, NetTypeOK
  <2>2. ~Unspoken(Gone(peer[s])) /\ Gone(peer[s]).queue = <<>>
        /\ Gone(peer[s]).link = "shut"
    BY DEF Unspoken, Gone, NewPeer
  <2>3. Orderly(srv[s], Gone(peer[s]), <<>>, buf[s], wire'[s])
    BY <2>1, <2>2, SlotIsOrderly, OpensEmpty DEF Orderly, Opening
  <2>4. QED BY <2>1, <2>3, OneSlot
<1>2. CASE hang(s)
  <2> DEFINE p == [peer[s] EXCEPT !.hung = TRUE]
  <2>1. peer' = [peer EXCEPT ![s] = p] /\ UNCHANGED <<srv, out, buf, wire>>
    BY <1>2 DEF hang, memory
  <2>2. p.link = peer[s].link /\ p.started = peer[s].started /\ p.queue = peer[s].queue
    BY SlotType DEF Peer
  <2> HIDE DEF p
  <2>3. peer'[s] = p /\ Elsewhere(s)
    BY <2>1 DEF Elsewhere, TypeInv, TypeOK, NetTypeOK
  <2>4. Orderly(srv[s], p, out[s], buf[s], wire[s])
    BY <2>2, SlotIsOrderly DEF Orderly, Opening, Unspoken
  <2>5. QED BY <2>1, <2>3, <2>4, OneSlot
<1>3. CASE Elapse(s)
  <2> DEFINE v == [srv[s] EXCEPT !.late = TRUE]
  <2>1. srv' = [srv EXCEPT ![s] = v] /\ UNCHANGED <<peer, out, buf, wire>>
    BY <1>3 DEF Elapse, net
  <2>2. v.state = srv[s].state /\ v.work = srv[s].work
    BY SlotType DEF Server
  <2> HIDE DEF v
  <2>3. QED BY <2>1, <2>2, SlotIsOrderly, OrderlySame, ServerChanges
<1>4. QED BY <1>1, <1>2, <1>3 DEF slow, hung_too_long

LEMMA NextOrderly ==
    ASSUME TypeInv, OpeningInv, NothingLosesWork, [Next]_vars
    PROVE  OpeningInv'
<1>1. CASE Dispatcher
  BY <1>1, CheckInputOrderly, ScheduleOrderly DEF Dispatcher
<1>2. ASSUME NEW s \in Slots, Worker(s) PROVE OpeningInv'
  BY <1>2, RtsrvMainOrderly, AnswersOrderly DEF Worker
<1>3. CASE call \/ call_command \/ exited \/ UNCHANGED vars
  BY <1>3, NoSlotChanges DEF call, call_command, exited, vars, memory, net
<1>4. CASE remrt_restarts
  <2>1. ASSUME NEW t \in Slots
        PROVE  Orderly(srv'[t], peer'[t], out'[t], buf'[t], wire'[t])
    BY <1>4, OrderlyUnused DEF remrt_restarts
  <2>2. QED BY <2>1 DEF OpeningInv, OrderlySlot, Orderly, Opening
<1>5. QED BY <1>1, <1>2, <1>3, <1>4, FaultsOrderly DEF Next

LEMMA InitOrderly == Init => OpeningInv
<1> SUFFICES ASSUME Init, NEW s \in Slots
             PROVE  Orderly(srv[s], peer[s], out[s], buf[s], wire[s])
  BY DEF OpeningInv, OrderlySlot
<1>1. QED BY OrderlyUnused DEF Init

-----------------------------------------------------------------------------
(* 2.3. What has not been done is due.                                     *)

(* A pixel that is not to be left as it is: a restarted remrt would take a *)
(* torn one for rendered.                                                  *)
Unfinished == IF "remrt" \in Faults THEN {0} ELSE {0, Torn}

UnfinishedIsDue ==
    /\ \A f \in Frames, p \in Pixels : file[f][p] \in Unfinished => Due(f, p)
    /\ \A f \in Frames \ frames, p \in Pixels : file[f][p] \notin Unfinished

LEMMA FrameIsNotUnfinished == \A f \in Frames : f \notin Unfinished
BY SizesInNat DEF Unfinished, Frames, Torn

LEMMA BusyHolds ==
    ASSUME OpeningInv, NEW s \in Slots, NEW f \in Frames, NEW p, OfWork(f, p, srv[s].work)
    PROVE  Holds(srv[s])
<1>1. Busy(srv[s]) => Holds(srv[s])
  BY SlotIsOrderly DEF Orderly
<1>2. QED BY <1>1, SizesInNat DEF OfWork, Busy, Frames

LEMMA KeptStaysDue ==
    ASSUME OpeningInv, NEW t \in Slots, KeepsWork(t), NEW f \in Frames, NEW p,
           OfWork(f, p, srv[t].work)
    PROVE  Due(f, p)'
<1>1. srv'[t].work = srv[t].work
  BY BusyHolds DEF KeepsWork
<1>2. QED BY <1>1 DEF Due

LEMMA ReturnedStaysDue ==
    ASSUME TypeInv, OpeningInv, NEW s \in Slots, Returned(s), NEW f \in Frames, NEW p,
           Due(f, p)
    PROVE  Due(f, p)'
<1>1. todo \in Lists /\ srv[s] \in Server
  BY HeldType, SlotType
<1>2. CASE OnList(p, todo[f])
  BY <1>1, <1>2, OnRequeued DEF Returned, Due
<1>3. CASE OfWork(f, p, srv[s].work)
  BY <1>1, <1>3, BusyHolds, OnRequeued DEF Returned, Due
<1>4. ASSUME NEW t \in Slots, t # s, OfWork(f, p, srv[t].work) PROVE Due(f, p)'
  BY <1>4, KeptStaysDue DEF Returned, OthersKeep
<1>5. QED BY <1>2, <1>3, <1>4 DEF Due

LEMMA WrittenStaysDue ==
    ASSUME TypeInv, OpeningInv, NEW s \in Slots, Written(s), NEW f \in Frames, NEW p,
           Due(f, p), ~OfWork(f, p, srv[s].work)
    PROVE  Due(f, p)'
<1>1. CASE OnList(p, todo[f])
  BY <1>1 DEF Written, Due
<1>2. ASSUME NEW t \in Slots, t # s, OfWork(f, p, srv[t].work) PROVE Due(f, p)'
  BY <1>2, KeptStaysDue DEF Written, OthersKeep
<1>3. QED BY <1>1, <1>2 DEF Due

LEMMA AssignedStaysDue ==
    ASSUME TypeInv, OpeningInv, NEW s \in Slots, Assigned(s) \/ Refused(s),
           NEW f \in Frames, NEW p, Due(f, p)
    PROVE  Due(f, p)'
<1>1. fr \in Frames /\ todo[fr] # <<>> /\ ~Busy(srv[s])
  BY DEF Assigned, Refused
<1>2. CASE OnList(p, todo[f])
  <2>1. ASSUME NEW lump \in Lumps, todo' = Without(Portion(lump)),
               srv'[s].work = Portion(lump)
        PROVE  Due(f, p)'
    BY <1>1, <1>2, <2>1, OnWithout DEF Due
  <2>2. ASSUME NEW lump \in Lumps, NEW v \in Server, Holds(v), v.work = Portion(lump),
               todo' = Requeued(Without(Portion(lump)), v)
        PROVE  Due(f, p)'
    <3>1. Without(Portion(lump)) \in Lists
      BY <1>1, PortionType DEF Lists
    <3>2. OnList(p, todo'[f])
      BY <1>1, <1>2, <2>2, <3>1, OnWithout, OnRequeued
    <3>3. QED BY <3>2 DEF Due
  <2>3. QED BY <2>1, <2>2 DEF Assigned, Refused
<1>3. ASSUME NEW t \in Slots, OfWork(f, p, srv[t].work) PROVE Due(f, p)'
  <2>1. t # s
    BY <1>1, <1>3, SizesInNat DEF OfWork, Busy, Frames
  <2>2. QED BY <1>3, <2>1, KeptStaysDue DEF Assigned, Refused, OthersKeep
<1>4. QED BY <1>2, <1>3 DEF Due

(* Only by a step of this kind does a pixel change.                        *)
LEMMA HalfAt ==
    ASSUME TypeInv, NEW s \in Slots, HalfWritten(s), NEW f \in Frames, NEW p \in Pixels
    PROVE  /\ file'[f][p] # file[f][p] => OfWork(f, p, srv[s].work)
           /\ file'[f][p] = 0 => file[f][p] = 0
           /\ file'[f][p] \in Unfinished => file[f][p] \in Unfinished
<1> DEFINE w == srv[s].work
<1>1. w.frame \in Frames /\ w \in Work /\ w.lo \in Int /\ w.hi \in Int
  BY SlotType, WorkNumbers DEF HalfWritten, Busy, Server
<1>2. PICK last \in w.lo - 1 .. w.hi - 1, view \in Frames, part \in {0, Torn} :
         file' = Half(Painted(w, last, view), w, last, part)
  BY DEF HalfWritten
<1> DEFINE before == Painted(w, last, view)
<1>3. before[f][p] = IF f = w.frame /\ p \in w.lo .. last THEN view ELSE file[f][p]
  BY <1>1, PaintedAt
<1>4. before \in [Frames -> [Pixels -> 0 .. Torn]]
  <2>1. view \in 0 .. Torn
    BY SizesInNat DEF Frames, Torn
  <2>2. file \in [Frames -> [Pixels -> 0 .. Torn]]
    BY DEF TypeInv, TypeOK, MemoryTypeOK
  <2>3. [q \in Pixels |-> IF q \in w.lo .. last THEN view ELSE file[w.frame][q]]
           \in [Pixels -> 0 .. Torn]
    BY <1>1, <2>1, <2>2
  <2>4. QED BY <1>1, <2>2, <2>3 DEF Painted
<1>5. last \in Int /\ w.lo <= last + 1 /\ last + 1 <= w.hi
  BY <1>1, <1>2
<1> HIDE DEF before
<1>6. file'[f][p] = IF f = w.frame /\ p = last + 1 /\ before[f][p] = 0
                    THEN part ELSE before[f][p]
  BY <1>1, <1>2, <1>4 DEF Half, before
<1>7. f = w.frame /\ (p \in w.lo .. last \/ p = last + 1) => OfWork(f, p, w)
  BY <1>1, <1>5 DEF OfWork, Pixels
<1>8. view \notin Unfinished /\ view # 0
  BY FrameIsNotUnfinished DEF Unfinished
<1>9. file'[f][p] # file[f][p] => OfWork(f, p, w)
  BY <1>3, <1>6, <1>7
<1>10. /\ file'[f][p] = 0 => file[f][p] = 0
       /\ file'[f][p] \in Unfinished => file[f][p] \in Unfinished
  <2>1. 0 \in Unfinished
    BY DEF Unfinished
  <2>2. before[f][p] \in {view, file[f][p]}
    BY <1>3
  <2>3. file'[f][p] = before[f][p] \/ before[f][p] = 0
    BY <1>6
  <2>4. before[f][p] = 0 => file[f][p] = 0
    BY <1>8, <2>2
  <2>5. file'[f][p] \in Unfinished => file[f][p] \in Unfinished
    BY <1>8, <2>1, <2>2, <2>3, <2>4
  <2>6. file'[f][p] = 0 => before[f][p] = 0
    BY <2>3
  <2>7. QED BY <2>4, <2>5, <2>6
<1>11. QED BY <1>9, <1>10

LEMMA WrittenAt ==
    ASSUME TypeInv, NEW s \in Slots, Written(s), NEW f \in Frames, NEW p \in Pixels
    PROVE  /\ OfWork(f, p, srv[s].work) => file'[f][p] \in Frames
           /\ ~OfWork(f, p, srv[s].work) => file'[f][p] = file[f][p]
<1>1. srv[s].work \in Work /\ srv[s].work.frame \in Frames
  BY SlotType, WorkNumbers DEF Written, Busy, Server
<1>2. QED BY <1>1, PaintedAt DEF Written, WrittenUpTo, OfWork

LEMMA ForgottenNever ==
    ASSUME TypeInv, OpeningInv, NothingLosesWork, Forgotten
    PROVE  FALSE
<1>1. PICK s \in Slots : Receiving(s, "CMD") /\ Holds(srv[s])
  BY DEF Forgotten
<1>2. buf[s] # <<>> /\ Head(buf[s]).type = "CMD"
  BY <1>1, ReceivingType
<1>3. Opens(buf[s])
  BY <1>2, SlotType, OpensHead
<1>4. QED BY <1>1, <1>3, SlotIsOrderly DEF Orderly, Opening, Holds

LEMMA MoveUnfinished ==
    ASSUME TypeInv, OpeningInv, NothingLosesWork, UnfinishedIsDue, Move
    PROVE  UnfinishedIsDue'
<1>1. ASSUME NEW f \in Frames, NEW p \in Pixels, file'[f][p] \in Unfinished
      PROVE  file[f][p] \in Unfinished
  <2>1. CASE UNCHANGED file
    BY <1>1, <2>1
  <2>2. ASSUME NEW s \in Slots, HalfWritten(s) PROVE file[f][p] \in Unfinished
    BY <1>1, <2>2, HalfAt
  <2>3. ASSUME NEW s \in Slots, Written(s) PROVE file[f][p] \in Unfinished
    BY <1>1, <2>3, WrittenAt, FrameIsNotUnfinished
  <2>4. QED BY <2>1, <2>2, <2>3
            DEF Move, Idle, Assigned, Refused, Finished, Restarted, Forgotten
<1>2. ASSUME NEW f \in Frames, NEW p \in Pixels, file'[f][p] \in Unfinished
      PROVE  Due(f, p)'
  <2>1. file[f][p] \in Unfinished /\ Due(f, p) /\ f \in frames
    BY <1>1, <1>2 DEF UnfinishedIsDue
  <2>2. CASE Idle
    BY <2>1, <2>2, KeptStaysDue DEF Idle, Due
  <2>3. ASSUME NEW s \in Slots, Returned(s) PROVE Due(f, p)'
    BY <2>1, <2>3, ReturnedStaysDue
  <2>4. ASSUME NEW s \in Slots, Written(s) PROVE Due(f, p)'
    BY <1>2, <2>1, <2>4, WrittenAt, WrittenStaysDue, FrameIsNotUnfinished
  <2>5. ASSUME NEW s \in Slots, Assigned(s) \/ Refused(s) PROVE Due(f, p)'
    BY <2>1, <2>5, AssignedStaysDue
  <2>6. ASSUME NEW g \in frames, Finished(g) PROVE Due(f, p)'
    BY <2>1, <2>6 DEF Finished, Due
  <2>7. CASE Restarted
    <3>1. file[f][p] = 0
      BY <2>1, <2>7 DEF Restarted, Unfinished
    <3>2. QED BY <2>1, <2>7, <3>1, RescannedAt DEF Restarted, Due
  <2>8. QED BY <2>2, <2>3, <2>4, <2>5, <2>6, <2>7, ForgottenNever DEF Move
<1>3. ASSUME NEW f \in Frames \ frames', NEW p \in Pixels
      PROVE  file'[f][p] \notin Unfinished
  <2>1. CASE f \notin frames
    BY <1>1, <2>1 DEF UnfinishedIsDue
  <2>2. ASSUME f \in frames, NEW g \in frames, Finished(g)
        PROVE  file'[f][p] \notin Unfinished
    <3>1. f = g /\ todo[f] = <<>> /\ \A s \in Slots : srv[s].work.frame # f
      BY <1>3, <2>2 DEF Finished, ThisFrameDone
    <3>2. ~Due(f, p)
      BY <3>1 DEF Due, OnList, OfWork
    <3>3. file[f][p] \notin Unfinished
      BY <3>2 DEF UnfinishedIsDue
    <3>4. QED BY <1>1, <3>3
  <2>3. QED BY <1>3, <2>1, <2>2
            DEF Move, Idle, Returned, Written, Assigned, Refused, Restarted, Forgotten
<1>4. QED BY <1>2, <1>3 DEF UnfinishedIsDue

LEMMA InitUnfinished == Init => UnfinishedIsDue
<1> SUFFICES ASSUME Init, NEW f \in Frames, NEW p \in Pixels, file[f][p] \in Unfinished
             PROVE  Due(f, p)
  BY DEF UnfinishedIsDue, Init
<1>1. p \notin Prior[f] /\ Prior[f] \in SUBSET Pixels
  BY FrameIsNotUnfinished, SizesAssumption DEF Init
<1>2. SpanPixels(ScanFrame(NPixels, Prior[f])) = Pixels \ Prior[f]
  BY <1>1, ScanOfFrame
<1>3. todo[f] = ScanFrame(NPixels, Prior[f])
  BY DEF Init, FrameList
<1>4. OnList(p, todo[f])
  BY <1>1, <1>2, <1>3 DEF SpanPixels, OnList
<1>5. QED BY <1>4 DEF Due

LossInv == TypeInv /\ OpeningInv /\ UnfinishedIsDue

LEMMA LossInvariant == NothingLosesWork => (Spec => []LossInv)
<1>1. TypeInv /\ [Next]_vars => TypeInv'
  BY NextType
<1>2. TypeInv /\ OpeningInv /\ NothingLosesWork /\ [Next]_vars => OpeningInv'
  BY NextOrderly
<1>3. /\ TypeInv /\ OpeningInv /\ NothingLosesWork /\ UnfinishedIsDue /\ [Next]_vars
      => UnfinishedIsDue'
  BY NextMove, MoveUnfinished
<1>4. NothingLosesWork => (Init => LossInv) /\ (LossInv /\ [Next]_vars => LossInv')
  BY InitType, InitOrderly, InitUnfinished, <1>1, <1>2, <1>3 DEF LossInv
<1>5. ASSUME NothingLosesWork PROVE Spec => []LossInv
  <2>1. (Init => LossInv) /\ (LossInv /\ [Next]_vars => LossInv')
    BY <1>4, <1>5
  <2>2. QED BY <2>1, PTL DEF Spec
<1>6. QED BY <1>5

(* A due pixel waits, or a drop of the server that has it puts it back.    *)
LEMMA DueIsKept ==
    ASSUME OpeningInv, NEW f \in Frames, NEW p \in Pixels, Due(f, p)
    PROVE  <<f, p>> \in Waiting \cup Recoverable
<1>1. CASE OnList(p, todo[f])
  BY <1>1, DueJobs
<1>2. ASSUME NEW s \in Slots, OfWork(f, p, srv[s].work)
      PROVE  <<f, p>> \in Recoverable
  <2>1. Holds(srv[s]) /\ <<f, p>> \in JobsOf(srv[s].work)
    BY <1>2, BusyHolds, DueJobs
  <2>2. QED BY <2>1 DEF Recoverable
<1>3. QED BY <1>1, <1>2 DEF Due

(* When no file fails to open, no restart is asked for and a failed send   *)
(* of the view always loses the trees too, no pixel of the script is lost, *)
(* whatever workers, disk and remrt itself do: one that is not in its file *)
(* is on its frame's list or on a work list that drop_server puts back.    *)
THEOREM NothingIsLost ==
    ASSUME NothingLosesWork
    PROVE  Spec => []NoPixelLost
<1>1. LossInv => NoPixelLost
  <2> SUFFICES ASSUME LossInv, NEW f \in Frames, NEW p \in Pixels
               PROVE  <<f, p>> \in Waiting \cup Recoverable \cup Filed
    BY DEF NoPixelLost, Jobs
  <2>1. CASE file[f][p] = 0
    <3>1. Due(f, p)
      BY <2>1 DEF LossInv, UnfinishedIsDue, Unfinished
    <3>2. QED BY <3>1, DueIsKept DEF LossInv
  <2>2. CASE file[f][p] # 0
    BY <2>2 DEF Filed, Jobs
  <2>3. QED BY <2>1, <2>2
<1>2. QED BY LossInvariant, <1>1, PTL

(* Under the same condition, a frame that has left the list, its file      *)
(* write-protected (frame_is_done), has every pixel: an assignment that is *)
(* out keeps its frame on the list until it is written or made again.      *)
THEOREM FinishedFramesAreComplete ==
    ASSUME NothingLosesWork
    PROVE  Spec => []FinishedComplete
<1>1. LossInv => FinishedComplete
  BY DEF LossInv, UnfinishedIsDue, Unfinished, FinishedComplete
<1>2. QED BY LossInvariant, <1>1, PTL

(* Under the same condition, and when remrt is not started again, a pixel  *)
(* of which the disk has taken a part only is written again (ph_pixels'    *)
(* drop_server after a failed write).                                      *)
THEOREM TornPixelsAreRedone ==
    ASSUME NothingLosesWork, "remrt" \notin Faults
    PROVE  Spec => []TornIsRedone
<1>1. LossInv => TornIsRedone
  <2> SUFFICES ASSUME LossInv, NEW f \in Frames, NEW p \in Pixels, file[f][p] = Torn
               PROVE  <<f, p>> \in Waiting \cup Recoverable
    BY DEF TornIsRedone, Jobs
  <2>1. Due(f, p)
    BY DEF LossInv, UnfinishedIsDue, Unfinished
  <2>2. QED BY <2>1, DueIsKept DEF LossInv
<1>2. QED BY LossInvariant, <1>1, PTL

-----------------------------------------------------------------------------
(* 2.4. Each move is a step of RenderFarm, or leaves its state alone.      *)

FarmHeld == [s \in Slots |-> JobsOf(srv[s].work)]

FarmDone == Frames \ frames

LEMMA JobSets ==
    ASSUME TypeInv
    PROVE  /\ Waiting \subseteq Jobs /\ Filed \subseteq Jobs
           /\ \A s \in Slots : JobsOf(srv[s].work) \subseteq Jobs
<1>1. Waiting \subseteq Jobs
  <2>1. ASSUME NEW f \in Frames, NEW p \in SpanPixels(todo[f]) PROVE p \in Pixels
    <3>1. PICK i \in DOMAIN todo[f] : p \in todo[f][i].lo .. todo[f][i].hi
      BY <2>1 DEF SpanPixels
    <3>2. todo[f] \in Seq(SpanOfFrame)
      BY DEF TypeInv, TypeOK, MemoryTypeOK
    <3>3. todo[f][i] \in SpanOfFrame
      BY <3>1, <3>2, SpanNumbers
    <3>4. QED BY <3>1, <3>3, SizesInNat DEF SpanOfFrame, Pixels
  <2>2. QED BY <2>1 DEF Waiting, Jobs
<1>2. ASSUME NEW s \in Slots PROVE JobsOf(srv[s].work) \subseteq Jobs
  <2>1. srv[s].work \in Work
    BY SlotType DEF Server
  <2>2. QED BY <2>1, SizesInNat DEF JobsOf, Work, NoWork, Jobs, Pixels, Frames
<1>3. QED BY <1>1, <1>2 DEF Filed

LEMMA WaitingNext ==
    ASSUME NEW f \in Frames, NEW p \in Pixels
    PROVE  <<f, p>> \in Waiting' <=> OnList(p, todo'[f])
BY DEF Waiting, SpanPixels, OnList

LEMMA SameJobs ==
    ASSUME NEW X \in SUBSET Jobs, NEW Y \in SUBSET Jobs,
           \A f \in Frames, p \in Pixels : <<f, p>> \in X <=> <<f, p>> \in Y
    PROVE  X = Y
BY DEF Jobs

LEMMA KeepsJobs ==
    ASSUME OpeningInv, NEW t \in Slots, KeepsWork(t)
    PROVE  JobsOf(srv'[t].work) = JobsOf(srv[t].work)
<1>1. Busy(srv[t]) => Holds(srv[t])
  BY SlotIsOrderly DEF Orderly
<1>2. QED BY <1>1, NoWorkType DEF KeepsWork, JobsOf, Busy

LEMMA OneHolding ==
    ASSUME OpeningInv, NEW s \in Slots, OthersKeep(s)
    PROVE  FarmHeld' = [FarmHeld EXCEPT ![s] = JobsOf(srv'[s].work)]
<1>1. \A t \in Slots \ {s} : JobsOf(srv'[t].work) = JobsOf(srv[t].work)
  BY KeepsJobs DEF OthersKeep
<1>2. FarmHeld' = [t \in Slots |-> JobsOf(srv'[t].work)]
  BY DEF FarmHeld, JobsOf
<1>3. QED BY <1>1, <1>2 DEF FarmHeld

FarmStays ==
    /\ Waiting' = Waiting /\ Filed' = Filed
    /\ FarmHeld' = FarmHeld /\ FarmDone' = FarmDone

FarmStep == [Farm!Next]_(Farm!vars)

LEMMA StaysIsStep ==
    ASSUME FarmStays
    PROVE  FarmStep
BY DEF FarmStep, FarmStays, FarmHeld, FarmDone, Farm!vars

LEMMA ReturnedFarm ==
    ASSUME TypeInv, TypeInv', OpeningInv, NEW s \in Slots, Returned(s),
           UNCHANGED file \/ HalfWritten(s)
    PROVE  FarmStep
<1> DEFINE held == JobsOf(srv[s].work)
<1>1. todo \in Lists /\ srv[s] \in Server
  BY HeldType, SlotType
<1>2. Waiting' = Waiting \cup held
  <2>1. ASSUME NEW f \in Frames, NEW p \in Pixels
        PROVE  <<f, p>> \in Waiting' <=> <<f, p>> \in Waiting \cup held
    <3>1. <<f, p>> \in Waiting' <=> OnList(p, todo'[f])
      BY WaitingNext
    <3>2. OnList(p, todo'[f]) <=> OnList(p, todo[f]) \/ OfWork(f, p, srv[s].work)
      BY <1>1, BusyHolds, OnRequeued DEF Returned
    <3>3. QED BY <3>1, <3>2, DueJobs
  <2>2. Waiting' \subseteq Jobs
    <3>1. (Waiting \subseteq Jobs)'
      BY JobSets, PTL
    <3>2. QED BY <3>1 DEF Jobs
  <2>3. Waiting \cup held \subseteq Jobs
    BY JobSets
  <2> HIDE DEF held
  <2>4. QED BY <2>1, <2>2, <2>3 DEF Jobs
<1>3. JobsOf(srv'[s].work) = {}
  <2>1. Busy(srv[s]) => Holds(srv[s])
    BY SlotIsOrderly DEF Orderly
  <2>2. QED BY <2>1, NoWorkType DEF Returned, JobsOf, Busy
<1>4. FarmHeld' = [FarmHeld EXCEPT ![s] = {}] /\ FarmHeld[s] = held
  BY <1>3, OneHolding DEF Returned, FarmHeld
<1>5. FarmDone' = FarmDone
  BY DEF Returned, FarmDone
<1>6. Filed \subseteq Filed' /\ Filed' \ Filed \subseteq held
  <2>1. CASE UNCHANGED file
    BY <2>1 DEF Filed, Jobs
  <2>2. CASE HalfWritten(s)
    <3>1. ASSUME NEW f \in Frames, NEW p \in Pixels
          PROVE  /\ file'[f][p] # file[f][p] => <<f, p>> \in held
                 /\ file'[f][p] = 0 => file[f][p] = 0
      BY <2>2, HalfAt, DueJobs
    <3> HIDE DEF held
    <3>2. QED BY <3>1 DEF Filed, Jobs
  <2>3. QED BY <2>1, <2>2
<1>7. CASE held = {}
  <2>1. FarmHeld' = FarmHeld
    BY <1>4, <1>7 DEF FarmHeld
  <2>2. QED BY <1>2, <1>5, <1>6, <1>7, <2>1, StaysIsStep DEF FarmStays
<1>8. CASE held # {}
  <2> HIDE DEF held
  <2>1. Filed' = Filed \cup (Filed' \ Filed) /\ Filed' \ Filed \in SUBSET held
    BY <1>6
  <2>2. Farm!Requeue(s)
    BY <1>2, <1>4, <1>5, <1>8, <2>1 DEF Farm!Requeue, FarmHeld, FarmDone
  <2>3. QED BY <2>2 DEF FarmStep, Farm!Next
<1>9. QED BY <1>7, <1>8

LEMMA WrittenFarm ==
    ASSUME TypeInv, TypeInv', OpeningInv, NEW s \in Slots, Written(s)
    PROVE  FarmStep
<1> DEFINE held == JobsOf(srv[s].work)
<1>1. Waiting' = Waiting /\ FarmDone' = FarmDone
  BY DEF Written, Waiting, FarmDone
<1>2. JobsOf(srv'[s].work) = {}
  BY NoWorkType DEF Written, JobsOf
<1>3. FarmHeld' = [FarmHeld EXCEPT ![s] = {}] /\ FarmHeld[s] = held
  BY <1>2, OneHolding DEF Written, FarmHeld
<1>4. Filed' = Filed \cup held
  <2>1. ASSUME NEW f \in Frames, NEW p \in Pixels
        PROVE  file'[f][p] # 0 <=> file[f][p] # 0 \/ <<f, p>> \in held
    BY WrittenAt, DueJobs, SizesInNat DEF Frames
  <2>2. held \subseteq Jobs
    BY JobSets
  <2> HIDE DEF held
  <2>3. QED BY <2>1, <2>2 DEF Filed, Jobs
<1>5. CASE held = {}
  <2>1. FarmHeld' = FarmHeld
    BY <1>3, <1>5 DEF FarmHeld
  <2>2. QED BY <1>1, <1>4, <1>5, <2>1, StaysIsStep DEF FarmStays
<1>6. CASE held # {}
  <2> HIDE DEF held
  <2>1. Farm!File(s)
    BY <1>1, <1>3, <1>4, <1>6 DEF Farm!File, FarmHeld, FarmDone
  <2>2. QED BY <2>1 DEF FarmStep, Farm!Next
<1>7. QED BY <1>5, <1>6

LEMMA AssignedFarm ==
    ASSUME TypeInv, TypeInv', WorkInv', OpeningInv, NEW s \in Slots, Assigned(s)
    PROVE  FarmStep
<1>1. /\ fr \in Frames /\ todo[fr] # <<>> /\ ~Busy(srv[s])
      /\ UNCHANGED <<file, frames>> /\ OthersKeep(s)
  BY DEF Assigned
<1>2. PICK lump \in Lumps : /\ todo' = Without(Portion(lump))
                           /\ srv'[s].work = Portion(lump)
  BY DEF Assigned
<1> DEFINE w == Portion(lump)
           P == JobsOf(w)
<1>3. w \in Work /\ w.frame = fr /\ fr # 0
  BY <1>1, PortionType, SizesInNat DEF Frames
<1>4. JobsOf(srv[s].work) = {} /\ srv'[s].work = w
  BY <1>1, <1>2 DEF JobsOf, Busy
<1>5. P \subseteq Waiting /\ P \subseteq {fr} \X Pixels /\ Waiting' = Waiting \ P
  <2>1. ASSUME NEW f \in Frames, NEW p \in Pixels
        PROVE  /\ <<f, p>> \in P => <<f, p>> \in Waiting
               /\ <<f, p>> \in Waiting' <=> <<f, p>> \in Waiting \ P
    <3>1. <<f, p>> \in Waiting' <=> OnList(p, todo'[f])
      BY WaitingNext
    <3>2. OnList(p, todo[f]) <=> OnList(p, todo'[f]) \/ OfWork(f, p, w)
      BY <1>1, <1>2, OnWithout
    <3>3. ~(OnList(p, todo'[f]) /\ OfWork(f, p, w))
      <4>1. Held' = [t \in Slots |-> srv'[t].work]
        BY DEF Held
      <4>2. AwayFrom(w, todo'[fr])
        BY <1>3, <1>4, <4>1 DEF WorkInv, Sound, AwayFrom, Apart
      <4>3. QED BY <1>3, <4>2 DEF AwayFrom, Apart, OnList, OfWork
    <3>4. (<<f, p>> \in P <=> OfWork(f, p, w)) /\ (<<f, p>> \in Waiting <=> OnList(p, todo[f]))
      BY DueJobs
    <3>5. QED BY <3>1, <3>2, <3>3, <3>4
  <2>2. P \subseteq {fr} \X Pixels
    BY <1>3, SizesInNat DEF JobsOf, Work, NoWork, Pixels
  <2>3. P \subseteq Jobs /\ Waiting \subseteq Jobs /\ Waiting' \subseteq Jobs
    <3>1. (Waiting \subseteq Jobs)'
      BY JobSets, PTL
    <3>2. QED BY <1>1, <2>2, <3>1, JobSets DEF Jobs
  <2> HIDE DEF P
  <2>4. Waiting' = Waiting \ P
    BY <2>1, <2>3 DEF Jobs
  <2>5. P \subseteq Waiting
    BY <2>1, <2>3 DEF Jobs
  <2>6. QED BY <2>2, <2>4, <2>5
<1>6. FarmHeld' = [FarmHeld EXCEPT ![s] = P] /\ FarmHeld[s] = {}
  BY <1>1, <1>4, OneHolding DEF FarmHeld
<1>7. Filed' = Filed /\ FarmDone' = FarmDone
  BY <1>1 DEF Filed, FarmDone
<1> HIDE DEF P
<1>8. CASE P = {}
  <2>1. FarmHeld' = FarmHeld
    BY <1>6, <1>8 DEF FarmHeld
  <2>2. QED BY <1>5, <1>7, <1>8, <2>1, StaysIsStep DEF FarmStays
<1>9. CASE P # {}
  <2>1. P \in SUBSET (Waiting \cap Farm!JobsOf(fr))
    BY <1>5 DEF Farm!JobsOf
  <2>2. Farm!Assign(s, fr)
    BY <1>5, <1>6, <1>7, <1>9, <2>1 DEF Farm!Assign, FarmHeld, FarmDone
  <2>3. QED BY <1>1, <2>2 DEF FarmStep, Farm!Next
<1>10. QED BY <1>8, <1>9

LEMMA RefusedFarm ==
    ASSUME TypeInv, TypeInv', OpeningInv, NEW s \in Slots, Refused(s)
    PROVE  FarmStep
<1>1. /\ fr \in Frames /\ todo[fr] # <<>> /\ ~Busy(srv[s])
      /\ UNCHANGED <<file, frames>> /\ OthersKeep(s) /\ srv'[s].work = NoWork
  BY DEF Refused
<1>2. PICK lump \in Lumps, v \in Server :
         /\ Holds(v) /\ v.work = Portion(lump)
         /\ todo' = Requeued(Without(Portion(lump)), v)
  BY DEF Refused
<1>3. Without(Portion(lump)) \in Lists
  BY <1>1, PortionType DEF Lists
<1>4. Waiting' = Waiting
  <2>1. ASSUME NEW f \in Frames, NEW p \in Pixels
        PROVE  <<f, p>> \in Waiting' <=> <<f, p>> \in Waiting
    <3>1. <<f, p>> \in Waiting' <=> OnList(p, todo'[f])
      BY WaitingNext
    <3>2. OnList(p, todo'[f]) <=> OnList(p, todo[f])
      BY <1>1, <1>2, <1>3, OnWithout, OnRequeued
    <3>3. QED BY <3>1, <3>2, DueJobs
  <2>2. Waiting' \subseteq Jobs
    <3>1. (Waiting \subseteq Jobs)'
      BY JobSets, PTL
    <3>2. QED BY <3>1 DEF Jobs
  <2>3. QED BY <2>1, <2>2, JobSets, SameJobs
<1>5. JobsOf(srv'[s].work) = {} /\ FarmHeld[s] = {}
  BY <1>1, NoWorkType DEF JobsOf, Busy, FarmHeld
<1>6. FarmHeld' = FarmHeld
  BY <1>1, <1>5, OneHolding DEF FarmHeld
<1>7. QED BY <1>1, <1>4, <1>6, StaysIsStep DEF FarmStays, Filed, FarmDone

LEMMA FinishedFarm ==
    ASSUME TypeInv, NEW f \in frames, Finished(f)
    PROVE  FarmStep
<1>1. /\ todo[f] = <<>> /\ \A s \in Slots : srv[s].work.frame # f
      /\ frames' = frames \ {f} /\ UNCHANGED <<todo, file>>
      /\ \A t \in Slots : srv'[t].work = srv[t].work
  BY DEF Finished, ThisFrameDone
<1>2. f \in Frames /\ FarmDone' = FarmDone \cup {f} /\ f \notin FarmDone
  BY <1>1 DEF FarmDone, TypeInv, TypeOK, MemoryTypeOK
<1>3. Waiting' = Waiting /\ Filed' = Filed
  BY <1>1 DEF Waiting, Filed
<1>4. FarmHeld' = FarmHeld
  BY <1>1 DEF FarmHeld
<1>5. Farm!JobsOf(f) \cap Waiting = {}
  <2>1. ASSUME NEW p \in Pixels PROVE <<f, p>> \notin Waiting
    BY <1>1, <1>2, DueJobs DEF OnList
  <2>2. QED BY <2>1 DEF Farm!JobsOf
<1>6. Farm!JobsOf(f) \cap UNION {FarmHeld[s] : s \in Slots} = {}
  BY <1>1 DEF Farm!JobsOf, FarmHeld, JobsOf
<1>7. Farm!Finish(f)
  BY <1>2, <1>3, <1>4, <1>5, <1>6 DEF Farm!Finish, Farm!AllHeld, FarmHeld, FarmDone
<1>8. QED BY <1>2, <1>7 DEF FarmStep, Farm!Next

LEMMA RestartedFarm ==
    ASSUME TypeInv, TypeInv', Restarted
    PROVE  FarmStep
<1>1. /\ todo' = Rescanned /\ UNCHANGED <<file, frames>>
      /\ \A t \in Slots : srv'[t].work = NoWork
  BY DEF Restarted
<1>2. Filed' = Filed /\ FarmDone' = FarmDone
  BY <1>1 DEF Filed, FarmDone
<1>3. FarmHeld' = [s \in Slots |-> {}]
  BY <1>1, NoWorkType DEF FarmHeld, JobsOf
<1>4. Waiting' = (Jobs \ Filed) \ (FarmDone \X Pixels)
  <2>1. ASSUME NEW f \in Frames, NEW p \in Pixels
        PROVE  <<f, p>> \in Waiting' <=> <<f, p>> \in (Jobs \ Filed) \ (FarmDone \X Pixels)
    <3>1. <<f, p>> \in Waiting' <=> OnList(p, todo'[f])
      BY WaitingNext
    <3>2. OnList(p, todo'[f]) <=> f \in frames /\ file[f][p] = 0
      BY <1>1, RescannedAt
    <3>3. QED BY <3>1, <3>2 DEF Filed, Jobs, FarmDone
  <2>2. Waiting' \subseteq Jobs
    <3>1. (Waiting \subseteq Jobs)'
      BY JobSets, PTL
    <3>2. QED BY <3>1 DEF Jobs
  <2>3. QED BY <2>1, <2>2 DEF Jobs
<1>5. Farm!Restart
  BY <1>2, <1>3, <1>4 DEF Farm!Restart, Farm!Jobs, Jobs, FarmHeld, FarmDone
<1>6. QED BY <1>5 DEF FarmStep, Farm!Next

LEMMA MoveFarm ==
    ASSUME TypeInv, TypeInv', WorkInv', OpeningInv, NothingLosesWork, Move
    PROVE  FarmStep
<1>1. CASE Idle
  <2>1. \A t \in Slots : JobsOf(srv'[t].work) = JobsOf(srv[t].work)
    BY <1>1, KeepsJobs DEF Idle
  <2>2. FarmHeld' = [t \in Slots |-> JobsOf(srv'[t].work)]
    BY DEF FarmHeld, JobsOf
  <2>3. FarmStays
    BY <1>1, <2>1, <2>2 DEF Idle, FarmStays, Waiting, Filed, FarmHeld, FarmDone
  <2>4. QED BY <2>3, StaysIsStep
<1>2. QED BY <1>1, ReturnedFarm, WrittenFarm, AssignedFarm, RefusedFarm, FinishedFarm,
             RestartedFarm, ForgottenNever DEF Move

LEMMA InitFarm == Init => Farm!Init
<1> SUFFICES ASSUME Init PROVE Farm!Init
  OBVIOUS
<1> DEFINE rendered == UNION {{f} \X Prior[f] : f \in Frames}
<1>1. \A f \in Frames : Prior[f] \subseteq Pixels /\ f # 0
  BY SizesAssumption, SizesInNat DEF Frames
<1>2. Filed = rendered
  <2>1. ASSUME NEW f \in Frames, NEW p \in Pixels
        PROVE  file[f][p] # 0 <=> p \in Prior[f]
    BY <1>1 DEF Init
  <2>2. QED BY <1>1, <2>1 DEF Filed, Jobs
<1>3. Waiting = Jobs \ rendered
  <2>1. ASSUME NEW f \in Frames PROVE SpanPixels(todo[f]) = Pixels \ Prior[f]
    BY <1>1, ScanOfFrame DEF Init, FrameList
  <2>2. QED BY <1>1, <2>1 DEF Waiting, Jobs
<1>4. FarmHeld = [s \in Slots |-> {}]
  BY UnusedType, NoWorkType DEF Init, FarmHeld, JobsOf
<1>5. FarmDone = {}
  BY DEF Init, FarmDone
<1>6. QED BY <1>2, <1>3, <1>4, <1>5 DEF Farm!Init, Farm!Jobs, Jobs, FarmHeld, FarmDone

(* When nothing loses work, remrt keeps the promises of RenderFarm: every  *)
(* step of it gives jobs of a frame to an idle server, files an answer,    *)
(* puts an assignment back, declares a frame done, begins again from the   *)
(* files, or changes nothing there.                                        *)
THEOREM ImplementsRenderFarm ==
    ASSUME NothingLosesWork
    PROVE  Spec => FarmSpec
<1>1. TypeInv /\ [Next]_vars => TypeInv'
  BY NextType
<1>2. TypeInv /\ TypeInv' /\ WorkInv /\ [Next]_vars => WorkInv'
  BY NextWork
<1>3. TypeInv /\ OpeningInv /\ [Next]_vars => OpeningInv'
  BY NextOrderly
<1>4. TypeInv /\ TypeInv' /\ WorkInv' /\ OpeningInv /\ [Next]_vars
         => [Farm!Next]_(Farm!vars)
  BY NextMove, MoveFarm DEF FarmStep
<1>5. QED BY InitType, InitWork, InitOrderly, InitFarm, <1>1, <1>2, <1>3, <1>4, PTL
             DEF Spec, FarmSpec, Farm!Spec

-----------------------------------------------------------------------------
(* 3.1. What a slot can be in each state.  p is its peer, o what has been  *)
(* sent to it, b and w what it has sent: buffer and wire.                  *)

Silent(b, w) == b = <<>> /\ w = <<>>

OneReport(b, w, m) == \/ b = <<m>> /\ w = <<>>
                      \/ b = <<>> /\ w = <<m>>

NoOrders(p, o) == p.queue = <<>> /\ o = <<>>

OneOrder(p, o, m) == \/ p.queue = <<m>> /\ o = <<>>
                     \/ p.queue = <<>> /\ o = <<m>>

TwoOrders(p, o, m, n) == \/ p.queue = <<m, n>> /\ o = <<>>
                         \/ p.queue = <<m>> /\ o = <<n>>
                         \/ p.queue = <<>> /\ o = <<m, n>>

DIRBUILD == [type |-> "DIRBUILD"]
DIRBUILD_REPLY == [type |-> "DIRBUILD_REPLY"]
MATRIX_OF(f) == [type |-> "MATRIX", frame |-> f]
GETTREES == [type |-> "GETTREES"]
GETTREES_REPLY == [type |-> "GETTREES_REPLY"]
LINES_OF(w) == [type |-> "LINES", work |-> w]
PIXELS_OF(w, view) == [type |-> "PIXELS", work |-> w, view |-> view]

(* The next that the worker does is to exit, or it has.                    *)
ToExit(p, o) ==
    /\ p.queue = <<>>
    /\ \/ p.link # "open" /\ o = <<>>
       \/ o # <<>> /\ Head(o).type = "RESTART"

(* Nothing has been said but the opening, and nothing ordered but to exit. *)
Greeting(v, p, o, b, w) ==
    /\ v.cur = 0 /\ ~Busy(v)
    /\ p.queue = <<>> /\ ~p.dirbuilt
    /\ o # <<>> => Head(o).type = "RESTART"
    /\ Unspoken(p) => Silent(b, w)
    /\ \/ Silent(b, w)
       \/ \E m \in Report : m.type \in {"VERSION", "CMD"} /\ OneReport(b, w, m)

(* The view x is that of the frame f the server is on, when each frame     *)
(* comes with its trees.                                                   *)
Matches(x, f) == NeedTree = Frames => f \in {0, x}

Equipped(v, p) ==
    p.link = "open" => p.view # 0 /\ p.grid # 0 /\ Matches(p.grid, v.cur)

BuildingDirectory(v, p, o, b, w) ==
    /\ v.cur = 0 /\ ~Busy(v)
    /\ \/ Silent(b, w) /\ ToExit(p, o)
       \/ Silent(b, w) /\ p.queue = <<>> /\ o = <<DIRBUILD>> /\ ~p.dirbuilt
       \/ OneReport(b, w, DIRBUILD_REPLY) /\ NoOrders(p, o)

GettingTrees(v, p, o, b, w) ==
    /\ ~Busy(v)
    /\ \/ Silent(b, w) /\ NoOrders(p, o) /\ p.link # "open"
       \/ /\ Silent(b, w)
          /\ \E f \in Frames : /\ TwoOrders(p, o, MATRIX_OF(f), GETTREES)
                               /\ Matches(f, v.cur)
       \/ /\ Silent(b, w) /\ OneOrder(p, o, GETTREES)
          /\ p.view # 0 /\ Matches(p.view, v.cur)
       \/ OneReport(b, w, GETTREES_REPLY) /\ NoOrders(p, o) /\ Equipped(v, p)

AtWork(v, p, o, b, w) ==
    /\ v.cur = v.work.frame
    /\ \/ Silent(b, w) /\ NoOrders(p, o) /\ p.link # "open"
       \/ /\ Silent(b, w) /\ NeedTree # Frames /\ p.grid # 0
          /\ TwoOrders(p, o, MATRIX_OF(v.cur), LINES_OF(v.work))
       \/ Silent(b, w) /\ OneOrder(p, o, LINES_OF(v.work)) /\ Equipped(v, p)
       \/ /\ \E view \in Frames : /\ OneReport(b, w, PIXELS_OF(v.work, view))
                                  /\ Matches(view, v.cur)
          /\ NoOrders(p, o) /\ Equipped(v, p)

(* What server, peer, orders and reports of a slot can be together.        *)
InStep(v, p, o, b, w) ==
    /\ v.state = "UNUSED" =>
          v = Unused /\ o = <<>> /\ Silent(b, w) /\ p.link # "open"
    /\ v.state = "NEW" => Greeting(v, p, o, b, w)
    /\ v.state = "RESTART" => \E c \in Commands : c.cmd = "restart"
    /\ v.state \in {"CLOSING", "RESTART"} =>
          Greeting(v, p, o, b, w) \/ Settled(p, b, w)
    /\ v.state \notin {"UNUSED", "NEW", "CLOSING", "RESTART"} => ~Unspoken(p)
    /\ v.state = "VERSOK" =>
          /\ v.cur = 0 /\ ~Busy(v) /\ Silent(b, w)
          /\ ToExit(p, o) \/ (NoOrders(p, o) /\ ~p.dirbuilt)
    /\ v.state = "DOING_DIRBUILD" => BuildingDirectory(v, p, o, b, w)
    /\ v.state = "NEED_TREE" =>
          v.cur = 0 /\ ~Busy(v) /\ Silent(b, w) /\ NoOrders(p, o)
    /\ v.state = "DOING_GETTREES" => GettingTrees(v, p, o, b, w)
    /\ v.state = "READY" =>
          IF Busy(v) THEN AtWork(v, p, o, b, w)
          ELSE Silent(b, w) /\ NoOrders(p, o) /\ Equipped(v, p)

ProtocolInv == \A s \in Slots : InStep(srv[s], peer[s], out[s], buf[s], wire[s])

(* What select has found readable is a connection.                         *)
Selected == pc = "suck" => \A s \in ifdset : Occupied(s)

-----------------------------------------------------------------------------
(* 3.2. Sequences of one and two messages.                                 *)

LEMMA OneMessage ==
    ASSUME NEW S, NEW m \in S
    PROVE  /\ <<m>> \in Seq(S) /\ <<m>> # <<>> /\ Head(<<m>>) = m /\ Tail(<<m>>) = <<>>
           /\ Len(<<m>>) = 1 /\ DOMAIN <<m>> = {1} /\ <<m>>[1] = m
OBVIOUS

LEMMA TwoMessages ==
    ASSUME NEW S, NEW m \in S, NEW n \in S
    PROVE  /\ <<m, n>> \in Seq(S) /\ <<m, n>> # <<>> /\ Head(<<m, n>>) = m
           /\ Tail(<<m, n>>) = <<n>>
           /\ Len(<<m, n>>) = 2 /\ DOMAIN <<m, n>> = {1, 2}
           /\ <<m, n>>[1] = m /\ <<m, n>>[2] = n
OBVIOUS

LEMMA MessageAdded ==
    ASSUME NEW S, NEW m \in S, NEW n \in S
    PROVE  Append(<<>>, m) = <<m>> /\ Append(<<m>>, n) = <<m, n>>
<1>1. Append(<<>>, m) = <<m>>
  OBVIOUS
<1>2. Append(<<m>>, n) = <<m, n>>
  <2> DEFINE q == Append(<<m>>, n)
             r == <<m, n>>
  <2>1. q \in Seq(S) /\ Len(q) = 2 /\ q[1] = m /\ q[2] = n
    BY OneMessage, AppendProperties
  <2>2. r \in Seq(S) /\ Len(r) = 2 /\ r[1] = m /\ r[2] = n
    BY TwoMessages
  <2> HIDE DEF q, r
  <2>3. \A i \in 1 .. Len(q) : q[i] = r[i]
    <3>1. Len(q) = 2 /\ q[1] = r[1] /\ q[2] = r[2]
      BY <2>1, <2>2
    <3>2. \A i \in 1 .. Len(q) : i = 1 \/ i = 2
      BY <3>1
    <3>3. QED BY <3>1, <3>2
  <2>4. q = r
    BY <2>1, <2>2, <2>3, SeqEqual
  <2>5. QED BY <2>4 DEF q, r
<1>3. QED BY <1>1, <1>2

LEMMA MessagesJoined ==
    ASSUME NEW S, NEW q \in Seq(S)
    PROVE  <<>> \o q = q /\ q \o <<>> = q
BY ConcatEmptySeq

(* Messages behind those that wait: the first stays the first.             *)
LEMMA FirstStays ==
    ASSUME NEW S, NEW q \in Seq(S), NEW r \in Seq(S), q # <<>>
    PROVE  q \o r # <<>> /\ Head(q \o r) = Head(q)
<1>1. /\ q \o r \in Seq(S) /\ Len(q \o r) = Len(q) + Len(r)
      /\ \A i \in 1 .. Len(q) + Len(r) : (q \o r)[i] = IF i <= Len(q) THEN q[i] ELSE r[i - Len(q)]
  BY ConcatProperties
<1>2. Len(q) \in Nat \ {0} /\ Len(r) \in Nat
  BY LenProperties, EmptySeq
<1>3. (q \o r)[1] = q[1] /\ Len(q \o r) # 0
  BY <1>1, <1>2
<1>4. QED BY <1>1, <1>3, HeadTailProperties, EmptySeq

LEMMA ExitStays ==
    ASSUME NEW o \in Seq(Order), o # <<>> => Head(o).type = "RESTART"
    PROVE  /\ Append(o, [type |-> "RESTART"]) # <<>>
           /\ Head(Append(o, [type |-> "RESTART"])).type = "RESTART"
<1> DEFINE m == [type |-> "RESTART"]
<1>1. m \in Order /\ m.type = "RESTART"
  BY DEF Order
<1> HIDE DEF m
<1>2. Append(o, m) = o \o <<m>> /\ <<m>> \in Seq(Order)
  BY <1>1, AppendIsConcat
<1>3. CASE o = <<>>
  BY <1>1, <1>3, OneMessage, MessageAdded
<1>4. CASE o # <<>>
  BY <1>2, <1>4, FirstStays
<1>5. QED BY <1>3, <1>4 DEF m

(* What is said on a connection, by type.                                  *)
LEMMA MessageTypes ==
    /\ DIRBUILD \in Order /\ DIRBUILD.type = "DIRBUILD"
    /\ GETTREES \in Queued /\ GETTREES \in Order /\ GETTREES.type = "GETTREES"
    /\ \A f \in Frames : /\ MATRIX_OF(f) \in Queued /\ MATRIX_OF(f) \in Order
                         /\ MATRIX_OF(f).type = "MATRIX" /\ MATRIX_OF(f).frame = f
    /\ \A w \in Work : /\ LINES_OF(w) \in Queued /\ LINES_OF(w) \in Order
                       /\ LINES_OF(w).type = "LINES" /\ LINES_OF(w).work = w
    /\ DIRBUILD_REPLY \in Report /\ DIRBUILD_REPLY.type = "DIRBUILD_REPLY"
    /\ GETTREES_REPLY \in Report /\ GETTREES_REPLY.type = "GETTREES_REPLY"
    /\ \A w \in Work, f \in Frames :
          /\ PIXELS_OF(w, f) \in Report /\ PIXELS_OF(w, f).type = "PIXELS"
          /\ PIXELS_OF(w, f).work = w /\ PIXELS_OF(w, f).view = f
BY DEF DIRBUILD, GETTREES, MATRIX_OF, LINES_OF, DIRBUILD_REPLY, GETTREES_REPLY,
       PIXELS_OF, Order, Queued, Report

(* One report, wherever it is, and none.                                   *)
LEMMA OneReportMoved ==
    ASSUME NEW b \in Seq(Report), NEW w \in Seq(Report), NEW m \in Report
    PROVE  OneReport(b, w, m) => OneReport(b \o w, <<>>, m)
BY OneMessage, MessagesJoined DEF OneReport

LEMMA SilentMoved ==
    ASSUME NEW b \in Seq(Report), NEW w \in Seq(Report)
    PROVE  Silent(b, w) => Silent(b \o w, <<>>)
BY EmptySeq, MessagesJoined DEF Silent

LEMMA OneReportConsumed ==
    ASSUME NEW b \in Seq(Report), NEW w \in Seq(Report), NEW m \in Report,
           OneReport(b, w, m), b # <<>>
    PROVE  Head(b) = m /\ Silent(Tail(b), w)
BY OneMessage DEF OneReport, Silent

LEMMA OneReportSent ==
    ASSUME NEW b \in Seq(Report), NEW w \in Seq(Report), NEW m \in Report, Silent(b, w)
    PROVE  OneReport(b, w \o <<m>>, m)
BY OneMessage, MessagesJoined DEF OneReport, Silent

LEMMA OneReportCut ==
    ASSUME NEW b, NEW w, NEW x \in {w, <<>>}
    PROVE  /\ \A m : OneReport(b, w, m) => OneReport(b, x, m) \/ Silent(b, x)
           /\ Silent(b, w) => Silent(b, x)
BY DEF OneReport, Silent

LEMMA OneReportOpens ==
    ASSUME NEW m \in Report, m.type \notin {"VERSION", "CMD"}, NEW b, NEW w,
           OneReport(b, w, m)
    PROVE  ~Opens(b) /\ ~Opens(w)
BY OneMessage, OpensEmpty, OpensOne DEF OneReport

LEMMA SilentOpens ==
    ASSUME NEW b, NEW w, Silent(b, w)
    PROVE  ~Opens(b) /\ ~Opens(w)
BY OpensEmpty DEF Silent

(* The orders of a worker: one is fetched, and put on WorkHead ...         *)
Fetched(p, o) == [p EXCEPT !.queue = Append(@, Head(o))]

LEMMA OrdersFetched ==
    ASSUME NEW p \in Peer, NEW o \in Seq(Order), o # <<>>,
           NEW m \in Queued, NEW n \in Queued
    PROVE  /\ OneOrder(p, o, m) => OneOrder(Fetched(p, o), Tail(o), m)
           /\ TwoOrders(p, o, m, n) => TwoOrders(Fetched(p, o), Tail(o), m, n)
           /\ OneOrder(p, o, m) \/ TwoOrders(p, o, m, n) =>
                 Head(o).type \notin {"DIRBUILD", "RESTART"}
<1>1. m \in Order /\ n \in Order /\ {m.type, n.type} \cap {"DIRBUILD", "RESTART"} = {}
  BY DEF Order, Queued
<1>2. Fetched(p, o).queue = Append(p.queue, Head(o))
  BY DEF Fetched, Peer
<1>3. OneOrder(p, o, m) => OneOrder(Fetched(p, o), Tail(o), m) /\ Head(o) = m
  BY <1>1, <1>2, OneMessage, MessageAdded DEF OneOrder
<1>4. TwoOrders(p, o, m, n) =>
          TwoOrders(Fetched(p, o), Tail(o), m, n) /\ Head(o) \in {m, n}
  <2>1. CASE p.queue = <<m>> /\ o = <<n>>
    <3>1. Head(o) = n /\ Tail(o) = <<>> /\ Append(p.queue, n) = <<m, n>>
      BY <1>1, <2>1, OneMessage, MessageAdded
    <3>2. QED BY <1>2, <3>1 DEF TwoOrders
  <2>2. CASE p.queue = <<>> /\ o = <<m, n>>
    BY <1>1, <1>2, <2>2, TwoMessages, MessageAdded DEF TwoOrders
  <2>3. QED BY <2>1, <2>2 DEF TwoOrders
<1>5. QED BY <1>1, <1>3, <1>4

(* ... and the first of WorkHead is carried out.                           *)
Taken(p) == [p EXCEPT !.queue = Tail(@)]

LEMMA OrdersTaken ==
    ASSUME NEW p \in Peer, NEW o \in Seq(Order), p.queue # <<>>,
           NEW m \in Queued, NEW n \in Queued
    PROVE  /\ OneOrder(p, o, m) => Head(p.queue) = m /\ NoOrders(Taken(p), o)
           /\ TwoOrders(p, o, m, n) => Head(p.queue) = m /\ OneOrder(Taken(p), o, n)
<1>1. m \in Order /\ n \in Order
  BY DEF Order
<1>2. Taken(p).queue = Tail(p.queue)
  BY DEF Taken, Peer
<1>3. OneOrder(p, o, m) => Head(p.queue) = m /\ NoOrders(Taken(p), o)
  BY <1>1, <1>2, OneMessage DEF OneOrder, NoOrders
<1>4. TwoOrders(p, o, m, n) => Head(p.queue) = m /\ OneOrder(Taken(p), o, n)
  <2>1. CASE p.queue = <<m, n>> /\ o = <<>>
    BY <1>1, <1>2, <2>1, TwoMessages DEF OneOrder
  <2>2. CASE p.queue = <<m>> /\ o = <<n>>
    BY <1>1, <1>2, <2>2, OneMessage DEF OneOrder
  <2>3. QED BY <2>1, <2>2 DEF TwoOrders
<1>5. QED BY <1>3, <1>4

LEMMA OrdersSent ==
    ASSUME NEW p, NEW o \in Seq(Order), NoOrders(p, o), NEW m \in Order, NEW n \in Order
    PROVE  /\ OneOrder(p, o \o <<m>>, m)
           /\ TwoOrders(p, o \o <<m, n>>, m, n)
BY OneMessage, TwoMessages, MessagesJoined DEF NoOrders, OneOrder, TwoOrders

-----------------------------------------------------------------------------
(* 3.3. A slot in step stays in step.                                      *)

GivenUp(v, p, o, b, w) == Greeting(v, p, o, b, w) \/ Settled(p, b, w)

(* Whatever a server is waiting for, it may be given up.                   *)
LEMMA BusySettles ==
    ASSUME NEW v \in Server, NEW p, NEW o, NEW b, NEW w, InStep(v, p, o, b, w),
           v.state \in {"VERSOK", "DOING_DIRBUILD", "NEED_TREE", "DOING_GETTREES", "READY"}
    PROVE  Settled(p, b, w)
<1>1. ~Unspoken(p)
  BY DEF InStep
<1>2. CASE Silent(b, w)
  BY <1>1, <1>2, SilentOpens DEF Settled
<1>3. CASE ~Silent(b, w)
  <2>1. CASE v.state = "DOING_DIRBUILD"
    <3>1. OneReport(b, w, DIRBUILD_REPLY)
      BY <1>3, <2>1 DEF InStep, BuildingDirectory
    <3>2. QED BY <1>1, <3>1, OneReportOpens, MessageTypes DEF Settled
  <2>2. CASE v.state = "DOING_GETTREES"
    <3>1. OneReport(b, w, GETTREES_REPLY)
      BY <1>3, <2>2 DEF InStep, GettingTrees
    <3>2. QED BY <1>1, <3>1, OneReportOpens, MessageTypes DEF Settled
  <2>3. CASE v.state = "READY"
    <3>1. PICK view \in Frames : OneReport(b, w, PIXELS_OF(v.work, view))
      BY <1>3, <2>3 DEF InStep, AtWork
    <3>2. v.work \in Work
      BY DEF Server
    <3>3. QED BY <1>1, <3>1, <3>2, OneReportOpens, MessageTypes DEF Settled
  <2>4. QED BY <1>3, <2>1, <2>2, <2>3 DEF InStep
<1>4. QED BY <1>2, <1>3

LEMMA MayGiveUp ==
    ASSUME NEW v \in Server, NEW p, NEW o, NEW b, NEW w, InStep(v, p, o, b, w),
           v.state # "UNUSED"
    PROVE  GivenUp(v, p, o, b, w)
<1>1. CASE v.state \in {"NEW", "CLOSING", "RESTART"}
  BY <1>1 DEF InStep, GivenUp
<1>2. CASE v.state \notin {"NEW", "CLOSING", "RESTART"}
  <2>1. v.state \in States
    BY DEF Server
  <2>2. QED BY <1>2, <2>1, BusySettles DEF States, GivenUp
<1>3. QED BY <1>1, <1>2

(* Once it has been given up it is closing, or restarting.                 *)
LEMMA DroppedFields ==
    ASSUME NEW v \in Server
    PROVE  /\ Dropped(v) \in Server /\ Dropped(v).state = "CLOSING" /\ Dropped(v).cur = 0
           /\ ~Dropped(v).polled /\ (~Busy(v) => ~Busy(Dropped(v)))
<1>1. Dropped(v) \in Server
  BY DroppedType
<1>2. Dropped(v).state = "CLOSING" /\ Dropped(v).cur = 0 /\ ~Dropped(v).polled
  BY DEF Dropped, Server
<1>3. ~Busy(v) => ~Busy(Dropped(v))
  BY DroppedType, NoWorkType DEF Busy
<1>4. QED BY <1>1, <1>2, <1>3

LEMMA GivenUpDropped ==
    ASSUME NEW v \in Server, NEW p, NEW o, NEW b, NEW w, GivenUp(v, p, o, b, w)
    PROVE  GivenUp(Dropped(v), p, o, b, w)
BY DroppedFields DEF GivenUp, Greeting

LEMMA ClosingInStep ==
    ASSUME NEW v, NEW p, NEW o, NEW b, NEW w, GivenUp(v, p, o, b, w),
           v.state = "CLOSING"
    PROVE  InStep(v, p, o, b, w)
BY DEF InStep, GivenUp

LEMMA DroppedInStep ==
    ASSUME NEW v \in Server, NEW p, NEW o, NEW b, NEW w, GivenUp(v, p, o, b, w)
    PROVE  InStep(Dropped(v), p, o, b, w)
BY GivenUpDropped, ClosingInStep, DroppedFields

LEMMA RestartInStep ==
    ASSUME NEW v, NEW p, NEW o, NEW b, NEW w, GivenUp(v, p, o, b, w),
           v.state = "RESTART", \E c \in Commands : c.cmd = "restart"
    PROVE  InStep(v, p, o, b, w)
BY DEF InStep, GivenUp

(* What has arrived is moved to the libpkg buffer.                         *)
LEMMA GivenUpMoved ==
    ASSUME NEW v, NEW p, NEW o, NEW b \in Seq(Report), NEW w \in Seq(Report),
           GivenUp(v, p, o, b, w)
    PROVE  GivenUp(v, p, o, b \o w, <<>>)
<1>1. CASE Greeting(v, p, o, b, w)
  <2>1. /\ Silent(b, w) => Silent(b \o w, <<>>)
        /\ \A m \in Report : OneReport(b, w, m) => OneReport(b \o w, <<>>, m)
    BY OneReportMoved, SilentMoved
  <2>2. QED BY <1>1, <2>1 DEF Greeting, GivenUp
<1>2. CASE Settled(p, b, w)
  BY <1>2, OpensBoth, OpensEmpty DEF Settled, GivenUp
<1>3. QED BY <1>1, <1>2 DEF GivenUp

LEMMA MovedInStep ==
    ASSUME NEW v \in Server, NEW p, NEW o, NEW b \in Seq(Report), NEW w \in Seq(Report),
           InStep(v, p, o, b, w)
    PROVE  InStep(v, p, o, b \o w, <<>>)
<1>1. /\ Silent(b, w) => Silent(b \o w, <<>>)
      /\ \A m \in Report : OneReport(b, w, m) => OneReport(b \o w, <<>>, m)
  BY OneReportMoved, SilentMoved
<1>2. v.state \in {"NEW", "CLOSING", "RESTART"} => GivenUp(v, p, o, b \o w, <<>>)
  BY MayGiveUp, GivenUpMoved
<1>3. v.state = "NEW" => Greeting(v, p, o, b \o w, <<>>)
  BY <1>1 DEF InStep, Greeting
<1>4. v.state = "DOING_DIRBUILD" => BuildingDirectory(v, p, o, b \o w, <<>>)
  BY <1>1, MessageTypes DEF InStep, BuildingDirectory
<1>5. v.state = "DOING_GETTREES" => GettingTrees(v, p, o, b \o w, <<>>)
  BY <1>1, MessageTypes DEF InStep, GettingTrees
<1>6. v.state = "READY" /\ Busy(v) => AtWork(v, p, o, b \o w, <<>>)
  <2>1. \A view \in Frames : PIXELS_OF(v.work, view) \in Report
    BY MessageTypes DEF Server
  <2>2. QED BY <1>1, <2>1 DEF InStep, AtWork
<1>7. QED BY <1>1, <1>2, <1>3, <1>4, <1>5, <1>6 DEF InStep, GivenUp

(* A package is taken from the buffer: then nothing opens any more.        *)
LEMMA ConsumedSettles ==
    ASSUME NEW v \in Server, NEW p, NEW o, NEW b \in Seq(Report), NEW w \in Seq(Report),
           InStep(v, p, o, b, w), b # <<>>
    PROVE  Settled(p, Tail(b), w) /\ v.state # "UNUSED"
<1>1. v.state # "UNUSED"
  BY DEF InStep, Silent
<1>2. CASE Settled(p, b, w)
  BY <1>1, <1>2, OpensTail DEF Settled
<1>3. CASE Greeting(v, p, o, b, w)
  <2>1. ~Silent(b, w)
    BY DEF Silent
  <2>2. PICK m \in Report : OneReport(b, w, m)
    BY <1>3, <2>1 DEF Greeting
  <2>3. Silent(Tail(b), w)
    BY <2>2, OneReportConsumed
  <2>4. ~Unspoken(p)
    BY <1>3, <2>1 DEF Greeting
  <2>5. QED BY <1>1, <2>3, <2>4, SilentOpens DEF Settled
<1>4. QED BY <1>1, <1>2, <1>3, MayGiveUp DEF GivenUp

(* A message to the worker: what has arrived is moved first.               *)
Sent(p, o, messages) == IF p.link = "open" THEN o \o messages ELSE o

LEMMA HandledByDropInStep ==
    ASSUME NEW v \in Server, NEW p, NEW o, NEW b \in Seq(Report), NEW w \in Seq(Report),
           InStep(v, p, o, b, w), b # <<>>
    PROVE  InStep(Dropped(v), p, o, Tail(b), w)
BY ConsumedSettles, DroppedInStep DEF GivenUp

-----------------------------------------------------------------------------
(* 3.4. The steps of check_input.                                          *)

LEMMA SlotInStep ==
    ASSUME ProtocolInv, NEW s \in Slots
    PROVE  InStep(srv[s], peer[s], out[s], buf[s], wire[s])
BY DEF ProtocolInv

LEMMA AllInStep ==
    ASSUME \A s \in Slots : InStep(srv'[s], peer'[s], out'[s], buf'[s], wire'[s])
    PROVE  ProtocolInv'
BY DEF ProtocolInv

LEMMA OneStaysInStep ==
    ASSUME ProtocolInv, NEW s \in Slots, Elsewhere(s),
           InStep(srv'[s], peer'[s], out'[s], buf'[s], wire'[s])
    PROVE  ProtocolInv'
<1>1. ASSUME NEW t \in Slots
      PROVE  InStep(srv'[t], peer'[t], out'[t], buf'[t], wire'[t])
  <2>1. CASE t # s
    BY <2>1, SlotInStep DEF Elsewhere
  <2>2. QED BY <2>1
<1>2. QED BY <1>1, AllInStep

LEMMA NothingStepsOut ==
    ASSUME ProtocolInv, UNCHANGED <<srv, peer, out, buf, wire>>
    PROVE  ProtocolInv'
BY SlotInStep, AllInStep

LEMMA ServerStaysInStep ==
    ASSUME TypeInv, ProtocolInv, NEW s \in Slots, NEW v, srv' = [srv EXCEPT ![s] = v],
           UNCHANGED <<peer, out, buf, wire>>,
           InStep(v, peer[s], out[s], buf[s], wire[s])
    PROVE  ProtocolInv'
<1>1. Elsewhere(s) /\ srv'[s] = v
  BY DEF Elsewhere, TypeInv, TypeOK, MemoryTypeOK
<1>2. QED BY <1>1, OneStaysInStep

LEMMA HandledInStep ==
    ASSUME TypeInv, ProtocolInv, NEW s \in Slots, Consume(s), NEW v,
           srv' = [srv EXCEPT ![s] = v],
           InStep(v, peer[s], out[s], Tail(buf[s]), wire[s])
    PROVE  ProtocolInv'
<1>1. /\ srv'[s] = v /\ buf'[s] = Tail(buf[s]) /\ peer' = peer /\ out' = out /\ wire' = wire
      /\ Elsewhere(s)
  BY DEF Consume, Elsewhere, TypeInv, TypeOK, MemoryTypeOK, NetTypeOK
<1>2. QED BY <1>1, OneStaysInStep

LEMMA DropHandledInStep ==
    ASSUME TypeInv, ProtocolInv, NEW s \in Slots, NEW type, Receiving(s, type),
           Consume(s), Drop(s)
    PROVE  ProtocolInv'
<1>1. srv' = [srv EXCEPT ![s] = Dropped(srv[s])]
  BY DEF Drop
<1>2. buf[s] # <<>>
  BY ReceivingType
<1>3. InStep(Dropped(srv[s]), peer[s], out[s], Tail(buf[s]), wire[s])
  BY <1>2, SlotType, SlotInStep, HandledByDropInStep
<1>4. QED BY <1>1, <1>3, HandledInStep

LEMMA PhVersionInStep ==
    ASSUME TypeInv, ProtocolInv, NEW s \in Slots, ph_version(s)
    PROVE  ProtocolInv'
<1>1. Receiving(s, "VERSION") /\ Consume(s) /\ buf[s] # <<>>
      /\ Head(buf[s]).type = "VERSION"
  BY ReceivingType DEF ph_version
<1>2. CASE ~Head(buf[s]).same
  BY <1>1, <1>2, DropHandledInStep DEF ph_version
<1>3. CASE Head(buf[s]).same
  <2> DEFINE v == [srv[s] EXCEPT !.state = "VERSOK"]
  <2>1. srv[s].state # "UNUSED" /\ Settled(peer[s], Tail(buf[s]), wire[s])
    BY <1>1, SlotType, SlotInStep, ConsumedSettles
  <2>2. Greeting(srv[s], peer[s], out[s], buf[s], wire[s])
    <3>1. Opens(buf[s])
      BY <1>1, SlotType, OpensHead
    <3>2. QED BY <2>1, <3>1, SlotType, SlotInStep, MayGiveUp DEF GivenUp, Settled
  <2>3. Silent(Tail(buf[s]), wire[s])
    <3>1. ~Silent(buf[s], wire[s])
      BY <1>1 DEF Silent
    <3>2. PICK m \in Report : OneReport(buf[s], wire[s], m)
      BY <2>2, <3>1 DEF Greeting
    <3>3. QED BY <1>1, <3>2, SlotType, OneReportConsumed
  <2>4. v.state = "VERSOK" /\ v.cur = srv[s].cur /\ v.work = srv[s].work
    BY SlotType DEF Server
  <2>5. srv' = [srv EXCEPT ![s] = v]
    BY <1>3 DEF ph_version
  <2> HIDE DEF v
  <2>6. ToExit(peer[s], out[s]) \/ (NoOrders(peer[s], out[s]) /\ ~peer[s].dirbuilt)
    BY <2>2 DEF Greeting, ToExit, NoOrders
  <2>7. v.cur = 0 /\ ~Busy(v)
    BY <2>2, <2>4 DEF Greeting, Busy
  <2>8. InStep(v, peer[s], out[s], Tail(buf[s]), wire[s])
    BY <2>1, <2>3, <2>4, <2>6, <2>7 DEF InStep, Settled
  <2>9. QED BY <1>1, <2>5, <2>8, HandledInStep
<1>4. QED BY <1>2, <1>3

(* The answer to an order that was expected.                               *)
LEMMA PhDirbuildReplyInStep ==
    ASSUME TypeInv, ProtocolInv, NEW s \in Slots, ph_dirbuild_reply(s)
    PROVE  ProtocolInv'
<1>1. Receiving(s, "DIRBUILD_REPLY") /\ Consume(s) /\ buf[s] # <<>>
  BY ReceivingType DEF ph_dirbuild_reply
<1>2. CASE srv[s].state # "DOING_DIRBUILD"
  BY <1>1, <1>2, DropHandledInStep DEF ph_dirbuild_reply
<1>3. CASE srv[s].state = "DOING_DIRBUILD"
  <2> DEFINE v == [srv[s] EXCEPT !.state = "NEED_TREE"]
  <2>1. /\ BuildingDirectory(srv[s], peer[s], out[s], buf[s], wire[s])
        /\ ~Unspoken(peer[s])
    BY <1>3, SlotInStep DEF InStep
  <2>2. ~Silent(buf[s], wire[s])
    BY <1>1 DEF Silent
  <2>3. Silent(Tail(buf[s]), wire[s]) /\ NoOrders(peer[s], out[s])
    BY <1>1, <2>1, <2>2, SlotType, MessageTypes, OneReportConsumed DEF BuildingDirectory
  <2>4. v.state = "NEED_TREE" /\ v.cur = 0 /\ ~Busy(v)
    BY <2>1, SlotType DEF Server, BuildingDirectory, Busy
  <2>5. srv' = [srv EXCEPT ![s] = v]
    BY <1>3 DEF ph_dirbuild_reply
  <2> HIDE DEF v
  <2>6. InStep(v, peer[s], out[s], Tail(buf[s]), wire[s])
    BY <2>1, <2>3, <2>4 DEF InStep
  <2>7. QED BY <1>1, <2>5, <2>6, HandledInStep
<1>4. QED BY <1>2, <1>3

LEMMA PhGettreesReplyInStep ==
    ASSUME TypeInv, ProtocolInv, NEW s \in Slots, ph_gettrees_reply(s)
    PROVE  ProtocolInv'
<1>1. Receiving(s, "GETTREES_REPLY") /\ Consume(s) /\ buf[s] # <<>>
  BY ReceivingType DEF ph_gettrees_reply
<1>2. CASE srv[s].state # "DOING_GETTREES"
  BY <1>1, <1>2, DropHandledInStep DEF ph_gettrees_reply
<1>3. CASE srv[s].state = "DOING_GETTREES"
  <2> DEFINE v == [srv[s] EXCEPT !.state = "READY"]
  <2>1. /\ GettingTrees(srv[s], peer[s], out[s], buf[s], wire[s])
        /\ ~Unspoken(peer[s])
    BY <1>3, SlotInStep DEF InStep
  <2>2. ~Silent(buf[s], wire[s])
    BY <1>1 DEF Silent
  <2>3. /\ Silent(Tail(buf[s]), wire[s]) /\ NoOrders(peer[s], out[s])
        /\ Equipped(srv[s], peer[s])
    BY <1>1, <2>1, <2>2, SlotType, MessageTypes, OneReportConsumed DEF GettingTrees
  <2>4. v.state = "READY" /\ v.cur = srv[s].cur /\ ~Busy(v)
    BY <2>1, SlotType DEF Server, GettingTrees, Busy
  <2>5. srv' = [srv EXCEPT ![s] = v]
    BY <1>3 DEF ph_gettrees_reply
  <2> HIDE DEF v
  <2>6. Equipped(v, peer[s])
    BY <2>3, <2>4 DEF Equipped
  <2>7. InStep(v, peer[s], out[s], Tail(buf[s]), wire[s])
    BY <2>1, <2>3, <2>4, <2>6 DEF InStep
  <2>8. QED BY <1>1, <2>5, <2>7, HandledInStep
<1>4. QED BY <1>2, <1>3

(* PIXELS are handled where they are expected, or nothing is.              *)
LEMMA PixelsOfWork ==
    ASSUME TypeInv, ProtocolInv, NEW s \in Slots, Receiving(s, "PIXELS"), Busy(srv[s]),
           Listening(srv[s])
    PROVE  /\ srv[s].state = "READY" /\ Silent(Tail(buf[s]), wire[s])
           /\ NoOrders(peer[s], out[s]) /\ Equipped(srv[s], peer[s]) /\ ~Unspoken(peer[s])
           /\ Matches(Head(buf[s]).view, srv[s].work.frame)
<1>1. buf[s] # <<>> /\ ~Silent(buf[s], wire[s])
  BY ReceivingType DEF Silent
<1>2. srv[s].state = "READY" /\ AtWork(srv[s], peer[s], out[s], buf[s], wire[s])
      /\ ~Unspoken(peer[s])
  BY SlotInStep DEF InStep, Listening, GettingTrees
<1>3. PICK view \in Frames : /\ OneReport(buf[s], wire[s], PIXELS_OF(srv[s].work, view))
                             /\ Matches(view, srv[s].cur)
  BY <1>1, <1>2 DEF AtWork
<1>4. NoOrders(peer[s], out[s]) /\ Equipped(srv[s], peer[s])
  BY <1>1, <1>2 DEF AtWork
<1>5. PIXELS_OF(srv[s].work, view) \in Report /\ PIXELS_OF(srv[s].work, view).view = view
  BY SlotType, MessageTypes DEF Server
<1>6. Silent(Tail(buf[s]), wire[s]) /\ Head(buf[s]).view = view
  BY <1>1, <1>3, <1>5, SlotType, OneReportConsumed
<1>7. srv[s].cur = srv[s].work.frame
  BY <1>2 DEF AtWork
<1>8. QED BY <1>2, <1>3, <1>4, <1>6, <1>7

LEMMA PhPixelsInStep ==
    ASSUME TypeInv, ProtocolInv, NEW s \in Slots, ph_pixels(s)
    PROVE  ProtocolInv'
<1>1. Receiving(s, "PIXELS") /\ Consume(s) /\ buf[s] # <<>>
      /\ Head(buf[s]).type = "PIXELS"
  BY ReceivingType DEF ph_pixels
<1>2. CASE Drop(s)
  BY <1>1, <1>2, DropHandledInStep
<1>3. CASE ~Listening(srv[s])
  <2>1. srv' = [srv EXCEPT ![s] = srv[s]]
    BY <1>3 DEF ph_pixels, TypeInv, TypeOK, MemoryTypeOK
  <2>2. srv[s].state # "UNUSED" /\ Settled(peer[s], Tail(buf[s]), wire[s])
    BY <1>1, SlotType, SlotInStep, ConsumedSettles
  <2>3. ~Silent(buf[s], wire[s])
    BY <1>1 DEF Silent
  <2>4. srv[s].state # "VERSOK"
    BY <2>3, SlotInStep DEF InStep
  <2>5. srv[s].state # "DOING_DIRBUILD"
    BY <1>1, <2>3, SlotType, SlotInStep, MessageTypes, OneReportConsumed
       DEF InStep, BuildingDirectory
  <2>6. srv[s].state # "NEW"
    BY <1>1, <2>3, SlotType, SlotInStep, OneReportConsumed DEF InStep, Greeting
  <2>7. srv[s].state \in {"CLOSING", "RESTART"}
    BY <1>3, <2>2, <2>4, <2>5, <2>6, SlotType DEF Server, States, Listening
  <2>8. InStep(srv[s], peer[s], out[s], Tail(buf[s]), wire[s])
    BY <2>2, <2>7, SlotInStep DEF InStep
  <2>9. QED BY <1>1, <2>1, <2>8, HandledInStep
<1>4. CASE /\ Listening(srv[s]) /\ Busy(srv[s])
           /\ srv' = [srv EXCEPT ![s].work = NoWork, ![s].late = FALSE]
  <2> DEFINE v == [srv[s] EXCEPT !.work = NoWork, !.late = FALSE]
  <2>1. srv' = [srv EXCEPT ![s] = v]
    BY <1>4 DEF TypeInv, TypeOK, MemoryTypeOK
  <2>2. /\ srv[s].state = "READY" /\ Silent(Tail(buf[s]), wire[s])
        /\ NoOrders(peer[s], out[s]) /\ Equipped(srv[s], peer[s]) /\ ~Unspoken(peer[s])
    BY <1>1, <1>4, PixelsOfWork
  <2>3. v.state = "READY" /\ v.cur = srv[s].cur /\ ~Busy(v)
    BY <2>2, SlotType, NoWorkType DEF Server, Busy
  <2> HIDE DEF v
  <2>4. InStep(v, peer[s], out[s], Tail(buf[s]), wire[s])
    BY <2>2, <2>3 DEF InStep, Equipped
  <2>5. QED BY <1>1, <2>1, <2>4, HandledInStep
<1>5. QED BY <1>2, <1>3, <1>4 DEF ph_pixels, FilePixels, CannotOpen, CannotWrite

LEMMA CdDropInStep ==
    ASSUME TypeInv, ProtocolInv, NEW s \in Slots, cd_drop(s)
    PROVE  ProtocolInv'
<1>1. Receiving(s, "CMD") /\ Consume(s) /\ buf[s] # <<>>
  BY ReceivingType DEF cd_drop
<1>2. CASE Drop(s)
  BY <1>1, <1>2, DropHandledInStep
<1>3. ASSUME NEW d, Occupied(d),
             srv' = [r \in Slots |-> IF r \in {s, d} THEN Dropped(srv[r]) ELSE srv[r]]
      PROVE  ProtocolInv'
  <2>1. ASSUME NEW t \in Slots
        PROVE  InStep(srv'[t], peer'[t], out'[t], buf'[t], wire'[t])
    <3>1. /\ peer'[t] = peer[t] /\ out'[t] = out[t] /\ wire'[t] = wire[t]
          /\ InStep(srv[t], peer[t], out[t], buf[t], wire[t])
      BY <1>1, SlotInStep DEF Consume
    <3>2. CASE t = s
      <4>1. buf'[t] = Tail(buf[t]) /\ srv'[t] = Dropped(srv[t])
        BY <1>1, <1>3, <3>2 DEF Consume, TypeInv, TypeOK, NetTypeOK
      <4>2. QED BY <1>1, <3>1, <3>2, <4>1, SlotType, HandledByDropInStep
    <3>3. CASE t # s
      <4>1. buf'[t] = buf[t]
        BY <1>1, <3>3 DEF Consume, TypeInv, TypeOK, NetTypeOK
      <4>2. CASE t = d
        BY <1>3, <3>1, <4>1, <4>2, SlotType, MayGiveUp, DroppedInStep DEF Occupied
      <4>3. CASE t # d
        BY <1>3, <3>1, <3>3, <4>1, <4>3
      <4>4. QED BY <4>2, <4>3
    <3>4. QED BY <3>2, <3>3
  <2>2. QED BY <2>1, AllInStep
<1>4. QED BY <1>2, <1>3 DEF cd_drop

RESTART == [type |-> "RESTART"]

LEMMA RestartGivenUp ==
    ASSUME NEW v \in Server, NEW p, NEW o \in Seq(Order), NEW b, NEW w,
           GivenUp(v, p, o, b, w)
    PROVE  /\ GivenUp(v, p, IF p.link = "open" THEN Append(o, RESTART) ELSE o, b, w)
           /\ GivenUp([v EXCEPT !.state = "RESTART"], p, o, b, w)
<1> DEFINE x == IF p.link = "open" THEN Append(o, RESTART) ELSE o
           u == [v EXCEPT !.state = "RESTART"]
<1>1. u.cur = v.cur /\ (~Busy(v) => ~Busy(u))
  BY DEF Server, Busy
<1>2. (o # <<>> => Head(o).type = "RESTART") => (x # <<>> => Head(x).type = "RESTART")
  BY ExitStays DEF RESTART
<1> HIDE DEF x, u
<1>3. GivenUp(v, p, x, b, w)
  BY <1>2 DEF GivenUp, Greeting
<1>4. GivenUp(u, p, o, b, w)
  BY <1>1 DEF GivenUp, Greeting
<1>5. QED BY <1>3, <1>4 DEF x, u

LEMMA CdRestartInStep ==
    ASSUME TypeInv, ProtocolInv, NEW s \in Slots, cd_restart(s)
    PROVE  ProtocolInv'
<1> DEFINE t == Head(buf[s]).command.slot
           Restarting(u) == [u EXCEPT !.state = "RESTART"]
<1>1. /\ Receiving(s, "CMD") /\ buf[s] # <<>> /\ Head(buf[s]) \in Report
      /\ Head(buf[s]).type = "CMD" /\ Head(buf[s]).command.cmd = "restart"
  BY ReceivingType DEF cd_restart
<1>2. \E c \in Commands : c.cmd = "restart"
  BY <1>1 DEF Report, Queued
<1>3. CASE ~Occupied(t)
  BY <1>1, <1>3, DropHandledInStep DEF cd_restart
<1>4. CASE Occupied(t)
  <2>1. PICK u \in {srv[t], Dropped(srv[t])} :
          srv' = [[srv EXCEPT ![t] = Restarting(u)] EXCEPT ![s] = Dropped(@)]
    BY <1>4 DEF cd_restart
  <2>2. /\ peer' = peer /\ wire' = [wire EXCEPT ![t] = <<>>]
        /\ buf' = [[buf EXCEPT ![s] = Tail(@)] EXCEPT ![t] = @ \o wire[t]]
        /\ out' = [out EXCEPT ![t] = IF peer[t].link = "open" THEN Append(@, RESTART) ELSE @]
    BY <1>4 DEF cd_restart, RESTART
  <2> HIDE DEF t
  <2>3. ASSUME NEW r \in Slots
        PROVE  InStep(srv'[r], peer'[r], out'[r], buf'[r], wire'[r])
    <3> DEFINE o == IF peer[r].link = "open" THEN Append(out[r], RESTART) ELSE out[r]
    <3>1. /\ srv \in [Slots -> Server] /\ buf \in [Slots -> Seq(Report)]
          /\ wire \in [Slots -> Seq(Report)] /\ out \in [Slots -> Seq(Order)]
      BY DEF TypeInv, TypeOK, MemoryTypeOK, NetTypeOK
    <3>2. InStep(srv[r], peer[r], out[r], buf[r], wire[r])
      BY SlotInStep
    <3>3. CASE r # s /\ r # t
      BY <2>1, <2>2, <3>1, <3>2, <3>3
    <3>4. CASE r = s /\ r # t
      <4>1. /\ srv'[r] = Dropped(srv[r]) /\ buf'[r] = Tail(buf[r])
            /\ peer'[r] = peer[r] /\ out'[r] = out[r] /\ wire'[r] = wire[r]
        BY <2>1, <2>2, <3>1, <3>4
      <4>2. QED BY <1>1, <3>1, <3>2, <3>4, <4>1, HandledByDropInStep
    <3>5. CASE r = t /\ r # s
      <4>1. /\ srv'[r] = Restarting(u) /\ buf'[r] = buf[r] \o wire[r]
            /\ peer'[r] = peer[r] /\ out'[r] = o /\ wire'[r] = <<>>
        BY <2>1, <2>2, <3>1, <3>5
      <4>2. u \in Server
        BY <2>1, <3>1, <3>5, DroppedType
      <4>3. GivenUp(u, peer[r], out[r], buf[r], wire[r])
        BY <1>4, <2>1, <3>1, <3>2, <3>5, MayGiveUp, GivenUpDropped DEF Occupied, t
      <4>4. GivenUp(u, peer[r], out[r], buf[r] \o wire[r], <<>>)
        BY <3>1, <4>3, GivenUpMoved
      <4>5. GivenUp(Restarting(u), peer[r], out[r], buf[r] \o wire[r], <<>>)
        BY <3>1, <4>2, <4>4, RestartGivenUp
      <4>6. Restarting(u) \in Server /\ Restarting(u).state = "RESTART"
        BY <4>2, ServerUpdate DEF Server, States
      <4> HIDE DEF Restarting
      <4>7. GivenUp(Restarting(u), peer[r], o, buf[r] \o wire[r], <<>>)
        BY <3>1, <4>5, <4>6, RestartGivenUp
      <4>8. QED BY <1>2, <4>1, <4>6, <4>7, RestartInStep
    <3>6. CASE r = t /\ r = s
      <4>1. /\ srv'[r] = Dropped(Restarting(u)) /\ buf'[r] = Tail(buf[r]) \o wire[r]
            /\ peer'[r] = peer[r] /\ out'[r] = o /\ wire'[r] = <<>>
        BY <2>1, <2>2, <3>1, <3>6
      <4>2. u \in Server
        BY <2>1, <3>1, <3>6, DroppedType
      <4>3. Restarting(u) \in Server
        BY <4>2, ServerUpdate DEF States
      <4>4. Settled(peer[r], Tail(buf[r]), wire[r]) /\ Tail(buf[r]) \in Seq(Report)
        BY <1>1, <3>1, <3>2, <3>6, ConsumedSettles, HeadTailProperties
      <4>5. Settled(peer[r], Tail(buf[r]) \o wire[r], <<>>)
        BY <3>1, <4>4, OpensBoth, OpensEmpty DEF Settled
      <4>6. GivenUp(Restarting(u), peer[r], o, Tail(buf[r]) \o wire[r], <<>>)
        BY <4>5 DEF GivenUp
      <4>7. QED BY <4>1, <4>3, <4>6, DroppedInStep
    <3>7. QED BY <3>3, <3>4, <3>5, <3>6
  <2>4. QED BY <2>3, AllInStep
<1>5. QED BY <1>3, <1>4

LEMMA ReceiveInStep ==
    ASSUME TypeInv, ProtocolInv, Receive
    PROVE  ProtocolInv'
<1>1. ASSUME NEW s \in Slots, cd_stop_go(s) PROVE ProtocolInv'
  BY <1>1, DropHandledInStep DEF cd_stop_go
<1>2. QED BY <1>1, PhVersionInStep, PhDirbuildReplyInStep, PhGettreesReplyInStep,
             PhPixelsInStep, CdDropInStep, CdRestartInStep DEF Receive

(* A connection is accepted.                                               *)
LEMMA UnusedFields ==
    /\ Unused \in Server /\ Unused.state = "UNUSED" /\ Unused.cur = 0 /\ ~Busy(Unused)
    /\ ~Unused.polled
    /\ LET v == [Unused EXCEPT !.state = "NEW", !.polled = TRUE]
       IN  v.state = "NEW" /\ v.cur = 0 /\ ~Busy(v) /\ v.polled
<1>1. Unused \in Server
  BY UnusedType
<1>2. QED BY <1>1 DEF Unused, Busy, NoWork

LEMMA UnusedInStep == InStep(Unused, NoPeer, <<>>, <<>>, <<>>)
BY UnusedFields DEF InStep, Silent, NoPeer, NewPeer

LEMMA NewInStep ==
    ASSUME NEW job \in {"render", "command"}
    PROVE  InStep([Unused EXCEPT !.state = "NEW", !.polled = TRUE],
                  NewPeer(job), <<>>, <<>>, <<>>)
<1> DEFINE v == [Unused EXCEPT !.state = "NEW", !.polled = TRUE]
<1>1. v.state = "NEW" /\ v.cur = 0 /\ ~Busy(v)
  BY UnusedFields
<1>2. NewPeer(job).queue = <<>> /\ ~NewPeer(job).dirbuilt
  BY DEF NewPeer
<1> HIDE DEF v
<1>3. InStep(v, NewPeer(job), <<>>, <<>>, <<>>)
  BY <1>1, <1>2 DEF InStep, Greeting, Silent
<1>4. QED BY <1>3 DEF v

LEMMA SelectInStep ==
    ASSUME TypeInv, ProtocolInv, select
    PROVE  ProtocolInv'
<1>1. UNCHANGED <<wire, buf, out>>
  BY DEF select
<1>2. CASE UNCHANGED <<srv, peer>>
  BY <1>1, <1>2, NothingStepsOut
<1>3. CASE backlog # "none" /\ Free # {}
  <2> DEFINE s == Min(Free)
  <2>1. s \in Slots /\ srv[s].state = "UNUSED"
    BY <1>3, MinOfNaturals DEF Free, Slots, Occupied
  <2>2. out[s] = <<>> /\ buf[s] = <<>> /\ wire[s] = <<>>
    BY <2>1, SlotInStep DEF InStep, Silent
  <2>3. /\ srv' = [srv EXCEPT ![s] = [Unused EXCEPT !.state = "NEW", !.polled = TRUE]]
        /\ peer' = [peer EXCEPT ![s] = NewPeer(backlog)]
        /\ backlog \in {"render", "command"}
    BY <1>3 DEF select, TypeInv, TypeOK, EnvironmentTypeOK
  <2> HIDE DEF s
  <2>4. /\ srv'[s] = [Unused EXCEPT !.state = "NEW", !.polled = TRUE]
        /\ peer'[s] = NewPeer(backlog)
        /\ Elsewhere(s)
    BY <1>1, <2>1, <2>3 DEF Elsewhere, TypeInv, TypeOK, MemoryTypeOK, NetTypeOK
  <2>5. QED BY <1>1, <2>1, <2>2, <2>3, <2>4, NewInStep, OneStaysInStep
<1>4. QED BY <1>2, <1>3 DEF select

LEMMA IfdsetOfSuckin ==
    ASSUME TypeInv, NEW s \in Slots, suckin(s)
    PROVE  pc = "suck" /\ pc' = "suck" /\ s \in ifdset /\ ifdset' = ifdset \ {s}
<1>1. ifdset \subseteq Nat /\ ifdset # {} /\ s = Min(ifdset)
  BY DEF suckin, TypeInv, TypeOK, LoopTypeOK, Slots
<1>2. s \in ifdset
  BY <1>1, MinOfNaturals
<1>3. QED BY <1>2 DEF suckin

LEMMA SuckinInStep ==
    ASSUME TypeInv, ProtocolInv, Selected, NEW s \in Slots, suckin(s)
    PROVE  ProtocolInv'
<1>1. UNCHANGED <<out, peer>>
  BY DEF suckin
<1>2. CASE wire[s] # <<>>
  <2>1. /\ buf'[s] = buf[s] \o wire[s] /\ wire'[s] = <<>> /\ srv' = srv /\ Elsewhere(s)
    BY <1>1, <1>2 DEF suckin, Elsewhere, TypeInv, TypeOK, NetTypeOK
  <2>2. QED BY <1>1, <2>1, SlotType, SlotInStep, MovedInStep, OneStaysInStep
<1>3. CASE wire[s] = <<>>
  <2>1. srv' = [srv EXCEPT ![s] = Dropped(srv[s])] /\ UNCHANGED <<buf, wire>>
    BY <1>3 DEF suckin, Drop
  <2>2. srv[s].state # "UNUSED"
    BY IfdsetOfSuckin DEF Selected, Occupied
  <2>3. QED BY <1>1, <2>1, <2>2, SlotType, SlotInStep, MayGiveUp, DroppedInStep, ServerStaysInStep
<1>4. QED BY <1>2, <1>3

LEMMA CheckInputInStep ==
    ASSUME TypeInv, ProtocolInv, Selected, CheckInput
    PROVE  ProtocolInv'
<1>1. CASE ReceivedAll \/ SuckedAll
  BY <1>1, NothingStepsOut DEF ReceivedAll, SuckedAll, memory, net
<1>2. QED BY <1>1, ReceiveInStep, SelectInStep, SuckinInStep DEF CheckInput

-----------------------------------------------------------------------------
(* 3.5. The steps of schedule.                                             *)

(* A message is sent to a server, which becomes v.                         *)
LEMMA TransmittedInStep ==
    ASSUME TypeInv, ProtocolInv, NEW s \in Slots, NEW messages, Transmit(s, messages),
           UNCHANGED peer, NEW v, srv' = [srv EXCEPT ![s] = v],
           InStep(v, peer[s], Sent(peer[s], out[s], messages), buf[s] \o wire[s], <<>>)
    PROVE  ProtocolInv'
<1>1. /\ srv'[s] = v /\ peer' = peer /\ buf'[s] = buf[s] \o wire[s] /\ wire'[s] = <<>>
      /\ out'[s] = Sent(peer[s], out[s], messages) /\ Elsewhere(s)
  BY DEF Transmit, Sent, Elsewhere, TypeInv, TypeOK, MemoryTypeOK, NetTypeOK
<1>2. QED BY <1>1, OneStaysInStep

(* When sending has failed, whoever is dropped is closing.                 *)
LEMMA FailedInStep ==
    ASSUME TypeInv, ProtocolInv, NEW s \in Slots, NEW messages, Transmit(s, messages),
           UNCHANGED peer, NEW v, srv' = [srv EXCEPT ![s] = v], v.state = "CLOSING",
           srv[s].state \in {"VERSOK", "DOING_DIRBUILD", "NEED_TREE", "DOING_GETTREES", "READY"}
    PROVE  ProtocolInv'
<1>1. Settled(peer[s], buf[s], wire[s])
  BY SlotType, SlotInStep, BusySettles
<1>2. Settled(peer[s], buf[s] \o wire[s], <<>>)
  BY <1>1, SlotType, OpensBoth, OpensEmpty DEF Settled
<1>3. InStep(v, peer[s], Sent(peer[s], out[s], messages), buf[s] \o wire[s], <<>>)
  BY <1>2, ClosingInStep DEF GivenUp
<1>4. QED BY <1>3, TransmittedInStep

LEMMA SendDirbuildInStep ==
    ASSUME TypeInv, ProtocolInv, NEW s \in Slots, send_dirbuild(s)
    PROVE  ProtocolInv'
<1>1. /\ Transmit(s, <<DIRBUILD>>) /\ UNCHANGED peer /\ srv[s].state = "VERSOK"
  BY DEF send_dirbuild, DIRBUILD
<1>2. CASE Drop(s)
  BY <1>1, <1>2, SlotType, DroppedFields, FailedInStep DEF Drop
<1>3. CASE srv' = [srv EXCEPT ![s].state = "DOING_DIRBUILD"]
  <2> DEFINE v == [srv[s] EXCEPT !.state = "DOING_DIRBUILD"]
             o == Sent(peer[s], out[s], <<DIRBUILD>>)
  <2>1. /\ srv[s].cur = 0 /\ ~Busy(srv[s]) /\ Silent(buf[s], wire[s]) /\ ~Unspoken(peer[s])
        /\ ToExit(peer[s], out[s]) \/ (NoOrders(peer[s], out[s]) /\ ~peer[s].dirbuilt)
    BY <1>1, SlotInStep DEF InStep
  <2>2. v.state = "DOING_DIRBUILD" /\ v.cur = 0 /\ ~Busy(v)
    BY <2>1, SlotType DEF Server, Busy
  <2>3. Silent(buf[s] \o wire[s], <<>>)
    BY <2>1, SlotType, SilentMoved
  <2>4. srv' = [srv EXCEPT ![s] = v]
    BY <1>3
  <2>5. \/ ToExit(peer[s], o)
        \/ peer[s].queue = <<>> /\ o = <<DIRBUILD>> /\ ~peer[s].dirbuilt
    <3>1. CASE peer[s].link # "open"
      BY <2>1, <3>1 DEF Sent, ToExit, NoOrders
    <3>2. CASE peer[s].link = "open" /\ ToExit(peer[s], out[s])
      <4>1. <<DIRBUILD>> \in Seq(Order)
        BY MessageTypes, OneMessage
      <4>2. out[s] # <<>> /\ Head(out[s]).type = "RESTART" /\ peer[s].queue = <<>>
        BY <3>2 DEF ToExit
      <4>3. o # <<>> /\ Head(o) = Head(out[s])
        BY <3>2, <4>1, <4>2, SlotType, FirstStays DEF Sent
      <4> HIDE DEF o
      <4>4. QED BY <4>2, <4>3 DEF ToExit
    <3>3. CASE peer[s].link = "open" /\ NoOrders(peer[s], out[s]) /\ ~peer[s].dirbuilt
      <4>1. <<DIRBUILD>> \in Seq(Order)
        BY MessageTypes, OneMessage
      <4>2. o = <<DIRBUILD>>
        BY <3>3, <4>1, MessagesJoined DEF Sent, NoOrders
      <4>3. QED BY <3>3, <4>2 DEF NoOrders
    <3>4. QED BY <2>1, <3>1, <3>2, <3>3
  <2> HIDE DEF v, o
  <2>6. InStep(v, peer[s], o, buf[s] \o wire[s], <<>>)
    BY <2>1, <2>2, <2>3, <2>5 DEF InStep, BuildingDirectory
  <2>7. QED BY <1>1, <2>4, <2>6, TransmittedInStep DEF o
<1>4. QED BY <1>2, <1>3 DEF send_dirbuild

(* What task_server knows of a server that wants work.                     *)
LEMMA WantingInStep ==
    ASSUME TypeInv, ProtocolInv, NEW s \in Slots, Wants(s)
    PROVE  /\ srv[s].state \in {"NEED_TREE", "READY"} /\ ~Busy(srv[s])
           /\ Silent(buf[s] \o wire[s], <<>>) /\ NoOrders(peer[s], out[s])
           /\ ~Unspoken(peer[s])
           /\ srv[s].state = "NEED_TREE" => srv[s].cur = 0
           /\ srv[s].state = "READY" => Equipped(srv[s], peer[s])
           /\ fr \in Frames /\ fr # 0 /\ UNCHANGED peer
<1>1. Holds(srv[s]) /\ ~Busy(srv[s]) /\ UNCHANGED peer
  BY HungryHolds DEF Wants, Tasking
<1>2. Silent(buf[s], wire[s]) /\ NoOrders(peer[s], out[s]) /\ ~Unspoken(peer[s])
      /\ (srv[s].state = "NEED_TREE" => srv[s].cur = 0)
      /\ (srv[s].state = "READY" => Equipped(srv[s], peer[s]))
  BY <1>1, SlotInStep DEF InStep, Holds
<1>3. fr \in frames
  BY DEF Wants, Tasking, TypeInv, FrameListed
<1>4. fr \in Frames /\ fr # 0
  BY <1>3 DEF TypeInv, TypeOK, MemoryTypeOK, Frames
<1>5. Silent(buf[s] \o wire[s], <<>>)
  BY <1>2, SlotType, SilentMoved
<1>6. QED BY <1>1, <1>2, <1>4, <1>5 DEF Holds

LEMMA TaskGettreesInStep ==
    ASSUME TypeInv, ProtocolInv, NEW s \in Slots, task_gettrees(s)
    PROVE  ProtocolInv'
<1> DEFINE messages == <<MATRIX_OF(fr), GETTREES>>
<1>1. Wants(s) /\ Transmit(s, messages)
  BY DEF task_gettrees, MATRIX, MATRIX_OF, GETTREES
<1>2. /\ srv[s].state \in {"NEED_TREE", "READY"} /\ ~Busy(srv[s])
      /\ Silent(buf[s] \o wire[s], <<>>) /\ NoOrders(peer[s], out[s])
      /\ ~Unspoken(peer[s]) /\ fr \in Frames /\ UNCHANGED peer
  BY <1>1, WantingInStep
<1>3. CASE Drop(s)
  BY <1>1, <1>2, <1>3, SlotType, DroppedFields, FailedInStep DEF Drop
<1>4. CASE srv' = [srv EXCEPT ![s].cur = fr, ![s].state = "DOING_GETTREES"]
  <2> DEFINE v == [srv[s] EXCEPT !.cur = fr, !.state = "DOING_GETTREES"]
             o == Sent(peer[s], out[s], messages)
  <2>1. srv' = [srv EXCEPT ![s] = v]
    BY <1>4 DEF TypeInv, TypeOK, MemoryTypeOK
  <2>2. v.state = "DOING_GETTREES" /\ v.cur = fr /\ ~Busy(v)
    BY <1>2, SlotType DEF Server, Busy
  <2>3. \/ NoOrders(peer[s], o) /\ peer[s].link # "open"
        \/ TwoOrders(peer[s], o, MATRIX_OF(fr), GETTREES)
    BY <1>2, SlotType, MessageTypes, OrdersSent DEF Sent
  <2> HIDE DEF v, o
  <2>4. Matches(fr, v.cur)
    BY <2>2 DEF Matches
  <2>5. InStep(v, peer[s], o, buf[s] \o wire[s], <<>>)
    BY <1>2, <2>2, <2>3, <2>4 DEF InStep, GettingTrees
  <2>6. QED BY <1>1, <1>2, <2>1, <2>5, TransmittedInStep DEF o
<1>5. QED BY <1>3, <1>4 DEF task_gettrees

LEMMA TaskLinesInStep ==
    ASSUME TypeInv, ProtocolInv, NEW s \in Slots, task_lines(s)
    PROVE  ProtocolInv'
<1> DEFINE Given(w) == [srv[s] EXCEPT !.cur = fr, !.work = w, !.late = FALSE]
           Messages(w) == IF srv[s].cur = 0 THEN <<MATRIX_OF(fr), LINES_OF(w)>>
                                            ELSE <<LINES_OF(w)>>
<1>1. Wants(s) /\ (srv[s].cur = fr \/ (srv[s].cur = 0 /\ ~NeedsTrees(s)))
  BY DEF task_lines
<1>2. /\ srv[s].state \in {"NEED_TREE", "READY"} /\ ~Busy(srv[s])
      /\ Silent(buf[s] \o wire[s], <<>>) /\ NoOrders(peer[s], out[s]) /\ ~Unspoken(peer[s])
      /\ srv[s].state = "NEED_TREE" => srv[s].cur = 0
      /\ srv[s].state = "READY" => Equipped(srv[s], peer[s])
      /\ fr \in Frames /\ fr # 0 /\ UNCHANGED peer
  BY <1>1, WantingInStep
<1>3. srv[s].state = "READY" /\ Equipped(srv[s], peer[s])
  BY <1>1, <1>2 DEF NeedsTrees
<1>4. PICK lump \in Lumps :
        /\ Transmit(s, Messages(Portion(lump)))
        /\ \/ srv' = [srv EXCEPT ![s] = Given(Portion(lump))]
           \/ srv' = [srv EXCEPT ![s] = Dropped(Given(Portion(lump)))]
  BY DEF task_lines, MATRIX, MATRIX_OF, LINES_OF
<1> DEFINE work == Portion(lump)
           v == Given(work)
           o == Sent(peer[s], out[s], Messages(work))
<1>5. work \in Work /\ work.frame = fr
  BY <1>1, TaskingFacts, PortionType DEF Wants
<1>6. /\ v \in Server /\ v.state = "READY" /\ v.cur = fr /\ v.work = work /\ Busy(v)
  <2>1. fr \in 0 .. NFrames
    BY <1>2, FrameNumbers
  <2> HIDE DEF work
  <2>2. QED BY <1>2, <1>3, <1>5, <2>1, SlotType DEF Server, Busy
<1>7. CASE srv' = [srv EXCEPT ![s] = Dropped(v)]
  <2>1. Dropped(v).state = "CLOSING"
    BY <1>6, DroppedFields
  <2> HIDE DEF v
  <2>2. QED BY <1>2, <1>4, <1>7, <2>1, FailedInStep
<1>8. CASE srv' = [srv EXCEPT ![s] = v]
  <2>1. \/ NoOrders(peer[s], o) /\ peer[s].link # "open"
        \/ /\ srv[s].cur = 0 /\ peer[s].link = "open"
           /\ TwoOrders(peer[s], o, MATRIX_OF(fr), LINES_OF(work))
        \/ /\ srv[s].cur = fr /\ OneOrder(peer[s], o, LINES_OF(work))
    <3> HIDE DEF work
    <3>1. MATRIX_OF(fr) \in Order /\ LINES_OF(work) \in Order
      BY <1>2, <1>5, MessageTypes
    <3>2. QED BY <1>1, <1>2, <3>1, SlotType, OrdersSent DEF Sent
  <2> HIDE DEF v, o, work
  <2>2. srv[s].cur = 0 => NeedTree # Frames
    BY <1>1, <1>2 DEF NeedsTrees
  <2>3. peer[s].link = "open" => peer[s].grid # 0
    BY <1>3 DEF Equipped
  <2>4. srv[s].cur = fr => Equipped(v, peer[s])
    BY <1>3, <1>6 DEF Equipped
  <2>5. AtWork(v, peer[s], o, buf[s] \o wire[s], <<>>)
    BY <1>2, <1>5, <1>6, <2>1, <2>2, <2>3, <2>4 DEF AtWork
  <2>6. InStep(v, peer[s], o, buf[s] \o wire[s], <<>>)
    BY <1>2, <1>6, <2>5 DEF InStep
  <2>7. QED BY <1>2, <1>4, <1>8, <2>6, TransmittedInStep DEF o, work
<1>9. QED BY <1>4, <1>7, <1>8

LEMMA TaskDroppedInStep ==
    ASSUME TypeInv, ProtocolInv, NEW s \in Slots, task_dropped(s)
    PROVE  ProtocolInv'
<1>1. Wants(s) /\ Transmit(s, <<>>)
  BY DEF task_dropped
<1>2. srv[s].state \in {"NEED_TREE", "READY"} /\ UNCHANGED peer
  BY <1>1, WantingInStep
<1>3. PICK w : srv' = [srv EXCEPT ![s] = [Dropped(srv[s]) EXCEPT !.work = w, !.late = FALSE]]
  BY DEF task_dropped
<1> DEFINE v == [Dropped(srv[s]) EXCEPT !.work = w, !.late = FALSE]
<1>4. v.state = "CLOSING"
  <2>1. Dropped(srv[s]) \in Server /\ Dropped(srv[s]).state = "CLOSING"
    BY SlotType, DroppedFields
  <2>2. QED BY <2>1 DEF Server
<1> HIDE DEF v
<1>5. QED BY <1>1, <1>2, <1>3, <1>4, FailedInStep DEF v

(* A frame is done: the servers that were on it are free for another.      *)
LEMMA FreedInStep ==
    ASSUME NEW v \in Server, NEW p, NEW o, NEW b, NEW w, InStep(v, p, o, b, w),
           v.cur # 0, v.work.frame # v.cur
    PROVE  InStep([v EXCEPT !.cur = 0], p, o, b, w)
<1> DEFINE u == [v EXCEPT !.cur = 0]
<1>1. u.state = v.state /\ u.work = v.work /\ u.cur = 0
  BY DEF Server
<1>2. v.state \notin {"UNUSED", "NEW", "VERSOK", "DOING_DIRBUILD", "NEED_TREE"}
  BY UnusedFields DEF InStep, Greeting, BuildingDirectory
<1>3. v.state \in {"CLOSING", "RESTART"} => Settled(p, b, w)
  BY DEF InStep, Greeting
<1>4. v.state = "READY" => ~Busy(v)
  BY DEF InStep, AtWork
<1> HIDE DEF u
<1>5. (Busy(u) <=> Busy(v)) /\ (Equipped(v, p) => Equipped(u, p))
  BY <1>1 DEF Busy, Equipped, Matches
<1>6. v.state = "DOING_GETTREES" => GettingTrees(u, p, o, b, w)
  BY <1>1, <1>5 DEF InStep, GettingTrees, Matches
<1>7. InStep(u, p, o, b, w)
  BY <1>1, <1>2, <1>3, <1>4, <1>5, <1>6 DEF InStep
<1>8. QED BY <1>7 DEF u

LEMMA FrameIsDoneInStep ==
    ASSUME TypeInv, ProtocolInv, frame_is_done
    PROVE  ProtocolInv'
<1> DEFINE f == Min(DoneFrames)
<1>1. f \in DoneFrames
  <2>1. DoneFrames \subseteq Nat /\ DoneFrames # {}
    BY DEF frame_is_done, DoneFrames, TypeInv, TypeOK, MemoryTypeOK, Frames
  <2>2. QED BY <2>1, MinOfNaturals
<1>2. f # 0 /\ \A t \in Slots : srv[t].work.frame # f
  BY <1>1 DEF DoneFrames, ThisFrameDone, TypeInv, TypeOK, MemoryTypeOK, Frames
<1>3. /\ UNCHANGED <<peer, out, buf, wire>>
      /\ srv' = [t \in Slots |-> IF srv[t].cur = f THEN [srv[t] EXCEPT !.cur = 0] ELSE srv[t]]
  BY DEF frame_is_done, net
<1> HIDE DEF f
<1>4. ASSUME NEW t \in Slots
      PROVE  InStep(srv'[t], peer'[t], out'[t], buf'[t], wire'[t])
  <2>1. InStep(srv[t], peer[t], out[t], buf[t], wire[t]) /\ srv[t] \in Server
    BY SlotInStep, SlotType
  <2>2. QED BY <1>2, <1>3, <2>1, FreedInStep
<1>5. QED BY <1>4, AllInStep

LEMMA ScheduleInStep ==
    ASSUME TypeInv, ProtocolInv, Schedule
    PROVE  ProtocolInv'
<1>1. CASE AttendedAll \/ ReapedAll \/ NothingWaits \/ PassEnds
  BY <1>1, NothingStepsOut DEF AttendedAll, ReapedAll, NothingWaits, PassEnds, memory, net
<1>2. ASSUME NEW s \in Slots,
             task_none_left(s) \/ task_other_frame(s) \/ task_reserved(s)
      PROVE  ProtocolInv'
  BY <1>2, NothingStepsOut DEF task_none_left, task_other_frame, task_reserved, Wants, Tasking
<1>3. ASSUME NEW s \in Slots, final_close(s) PROVE ProtocolInv'
  <2>1. /\ srv'[s] = Unused /\ peer'[s] = NoPeer
        /\ out'[s] = <<>> /\ buf'[s] = <<>> /\ wire'[s] = <<>> /\ Elsewhere(s)
    BY <1>3 DEF final_close, Elsewhere, TypeInv, TypeOK, MemoryTypeOK, NetTypeOK
  <2>2. QED BY <2>1, UnusedInStep, OneStaysInStep
<1>4. ASSUME NEW s \in Slots, task_tardy(s) PROVE ProtocolInv'
  <2>1. srv' = [srv EXCEPT ![s] = Dropped(srv[s])] /\ UNCHANGED <<peer, out, buf, wire>>
    BY <1>4 DEF task_tardy, Tasking, Drop
  <2>2. srv[s].state # "UNUSED"
    BY <1>4, HungryHolds DEF task_tardy, Holds
  <2>3. QED BY <2>1, <2>2, SlotType, SlotInStep, MayGiveUp, DroppedInStep, ServerStaysInStep
<1>5. QED BY <1>1, <1>2, <1>3, <1>4, FrameIsDoneInStep, SendDirbuildInStep,
             TaskGettreesInStep, TaskLinesInStep, TaskDroppedInStep DEF Schedule

-----------------------------------------------------------------------------
(* 3.6. The steps of the workers, and what happens around them.            *)

LEMMA RtsrvMainInStep ==
    ASSUME TypeInv, ProtocolInv, NEW s \in Slots, rtsrv_main(s)
    PROVE  ProtocolInv'
<1>1. UNCHANGED <<srv, out, buf>> /\ Unspoken(peer[s])
  BY DEF rtsrv_main, memory, Awake, Unspoken
<1>2. /\ Greeting(srv[s], peer[s], out[s], buf[s], wire[s])
      /\ srv[s].state \in {"NEW", "CLOSING", "RESTART"}
  BY <1>1, SlotType, SlotInStep DEF InStep, Settled, Unspoken, Server, States
<1>3. Silent(buf[s], wire[s])
  BY <1>1, <1>2 DEF Greeting
<1>4. PICK m \in Report : m.type \in {"VERSION", "CMD"} /\ wire' = [wire EXCEPT ![s] = @ \o <<m>>]
  BY DEF rtsrv_main, Reply, Report
<1>5. PICK p : /\ peer' = [peer EXCEPT ![s] = p]
               /\ ~Unspoken(p) /\ p.queue = <<>> /\ ~p.dirbuilt
  <2>1. peer[s].queue = <<>> /\ ~peer[s].dirbuilt
    BY <1>2 DEF Greeting
  <2>2. LET p == [peer[s] EXCEPT !.started = TRUE]
        IN  ~Unspoken(p) /\ p.queue = <<>> /\ ~p.dirbuilt
    BY <2>1, SlotType DEF Unspoken, Peer
  <2>3. LET p == Gone(peer[s]) IN ~Unspoken(p) /\ p.queue = <<>> /\ ~p.dirbuilt
    BY DEF Unspoken, Gone, NewPeer
  <2>4. QED BY <2>2, <2>3 DEF rtsrv_main
<1>6. wire'[s] = wire[s] \o <<m>> /\ peer'[s] = p /\ Elsewhere(s)
  BY <1>1, <1>4, <1>5 DEF Elsewhere, TypeInv, TypeOK, NetTypeOK
<1>7. OneReport(buf[s], wire[s] \o <<m>>, m)
  BY <1>3, SlotType, OneReportSent
<1>8. Greeting(srv[s], p, out[s], buf[s], wire[s] \o <<m>>)
  BY <1>2, <1>4, <1>5, <1>7 DEF Greeting
<1>9. InStep(srv[s], p, out[s], buf[s], wire[s] \o <<m>>)
  BY <1>2, <1>8, SlotInStep DEF InStep
<1>10. QED BY <1>1, <1>6, <1>9, OneStaysInStep

(* The fields of a worker that what it has been sent depends on.           *)
LEMMA PeerFields ==
    ASSUME NEW p \in Peer, NEW o
    PROVE  /\ LET q == Fetched(p, o)
              IN  /\ q.link = p.link /\ q.started = p.started /\ q.dirbuilt = p.dirbuilt
                  /\ q.view = p.view /\ q.grid = p.grid
           /\ LET q == Taken(p)
              IN  /\ q.link = p.link /\ q.started = p.started /\ q.dirbuilt = p.dirbuilt
                  /\ q.view = p.view /\ q.grid = p.grid
           /\ LET q == [p EXCEPT !.dirbuilt = TRUE]
              IN  q.link = p.link /\ q.started = p.started /\ q.queue = p.queue
           /\ Gone(p).link = "shut" /\ Gone(p).queue = <<>> /\ ~Gone(p).dirbuilt
<1>1. LET q == Fetched(p, o)
      IN  /\ q.link = p.link /\ q.started = p.started /\ q.dirbuilt = p.dirbuilt
          /\ q.view = p.view /\ q.grid = p.grid
  BY DEF Fetched, Peer
<1>2. LET q == Taken(p)
      IN  /\ q.link = p.link /\ q.started = p.started /\ q.dirbuilt = p.dirbuilt
          /\ q.view = p.view /\ q.grid = p.grid
  BY DEF Taken, Peer
<1>3. LET q == [p EXCEPT !.dirbuilt = TRUE]
      IN  q.link = p.link /\ q.started = p.started /\ q.queue = p.queue
  BY DEF Peer
<1>4. Gone(p).link = "shut" /\ Gone(p).queue = <<>> /\ ~Gone(p).dirbuilt
  BY DEF Gone, NewPeer
<1>5. QED BY <1>1, <1>2, <1>3, <1>4

(* A worker whose process has ended, its last words lost or not.           *)
LEMMA GoneInStep ==
    ASSUME NEW v \in Server, NEW p \in Peer, NEW o, NEW b, NEW w, InStep(v, p, o, b, w),
           v.state # "UNUSED", NEW x \in {w, <<>>}
    PROVE  InStep(v, Gone(p), <<>>, b, x)
<1>1. /\ Gone(p).link = "shut" /\ Gone(p).queue = <<>> /\ ~Gone(p).dirbuilt
      /\ ~Unspoken(Gone(p)) /\ NoOrders(Gone(p), <<>>) /\ ToExit(Gone(p), <<>>)
      /\ Equipped(v, Gone(p))
  BY PeerFields DEF Unspoken, NoOrders, ToExit, Equipped
<1>2. /\ \A m : OneReport(b, w, m) => OneReport(b, x, m) \/ Silent(b, x)
      /\ Silent(b, w) => Silent(b, x)
  BY OneReportCut
<1>3. Greeting(v, p, o, b, w) => Greeting(v, Gone(p), <<>>, b, x)
  BY <1>1, <1>2 DEF Greeting
<1>4. Settled(p, b, w) => Settled(Gone(p), b, x)
  BY <1>1, OpensEmpty DEF Settled
<1>5. v.state = "DOING_DIRBUILD" => BuildingDirectory(v, Gone(p), <<>>, b, x)
  BY <1>1, <1>2 DEF InStep, BuildingDirectory
<1>6. v.state = "DOING_GETTREES" => GettingTrees(v, Gone(p), <<>>, b, x)
  BY <1>1, <1>2 DEF InStep, GettingTrees
<1>7. v.state = "READY" /\ Busy(v) => AtWork(v, Gone(p), <<>>, b, x)
  BY <1>1, <1>2 DEF InStep, AtWork
<1>8. QED BY <1>1, <1>2, <1>3, <1>4, <1>5, <1>6, <1>7 DEF InStep

LEMMA WorkerStaysInStep ==
    ASSUME TypeInv, ProtocolInv, NEW s \in Slots, NEW p, NEW o, NEW w,
           UNCHANGED <<srv, buf>>, peer' = [peer EXCEPT ![s] = p],
           out' = [out EXCEPT ![s] = o], wire' = [wire EXCEPT ![s] = w],
           InStep(srv[s], p, o, buf[s], w)
    PROVE  ProtocolInv'
<1>1. peer'[s] = p /\ out'[s] = o /\ wire'[s] = w /\ Elsewhere(s)
  BY DEF Elsewhere, TypeInv, TypeOK, NetTypeOK
<1>2. QED BY <1>1, OneStaysInStep

(* Who is not expected to answer: the answer is not an opening.            *)
LEMMA SettledAnswers ==
    ASSUME NEW v, NEW p, NEW q, NEW o, NEW x, NEW b, NEW w \in Seq(Report), NEW r \in Seq(Report),
           v.state \in {"CLOSING", "RESTART"}, InStep(v, p, o, b, w),
           Settled(p, b, w), ~Opens(r), ~Unspoken(q)
    PROVE  InStep(v, q, x, b, w \o r)
<1>1. Settled(q, b, w \o r)
  BY OpensBoth DEF Settled
<1>2. QED BY <1>1 DEF InStep

LEMMA RtsrvReceiveInStep ==
    ASSUME TypeInv, ProtocolInv, NEW s \in Slots, rtsrv_receive(s)
    PROVE  ProtocolInv'
<1> DEFINE m == Head(out[s])
           p == peer[s]
<1>1. /\ out[s] # <<>> /\ p.link = "open" /\ p.started /\ UNCHANGED <<srv, buf>>
      /\ ~Unspoken(p)
  BY DEF rtsrv_receive, Awake, memory, Unspoken
<1>2. /\ srv[s] \in Server /\ p \in Peer /\ out[s] \in Seq(Order) /\ Tail(out[s]) \in Seq(Order)
      /\ buf[s] \in Seq(Report) /\ wire[s] \in Seq(Report)
      /\ InStep(srv[s], p, out[s], buf[s], wire[s])
  BY <1>1, SlotType, SlotInStep, HeadTailProperties
<1>3. srv[s].state # "UNUSED"
  BY <1>1, <1>2 DEF InStep
<1>4. wire[s] \o <<>> = wire[s] /\ <<>> \in Seq(Report) /\ ~Opens(<<>>)
  BY <1>2, MessagesJoined, EmptySeq, OpensEmpty
<1>5. CASE m.type = "RESTART"
  <2>1. /\ peer' = [peer EXCEPT ![s] = Gone(p)] /\ out' = [out EXCEPT ![s] = <<>>]
        /\ wire' = [wire EXCEPT ![s] = wire[s]]
    BY <1>5 DEF rtsrv_receive, TypeInv, TypeOK, NetTypeOK
  <2>2. InStep(srv[s], Gone(p), <<>>, buf[s], wire[s])
    BY <1>2, <1>3, GoneInStep
  <2>3. QED BY <1>1, <2>1, <2>2, WorkerStaysInStep
<1>6. CASE m.type = "DIRBUILD"
  <2> DEFINE q == [p EXCEPT !.dirbuilt = TRUE]
             r == IF p.dirbuilt THEN <<>> ELSE <<DIRBUILD_REPLY>>
  <2>1. /\ peer' = [peer EXCEPT ![s] = q] /\ wire' = [wire EXCEPT ![s] = wire[s] \o r]
        /\ out' = [out EXCEPT ![s] = Tail(out[s])]
    BY <1>6 DEF rtsrv_receive, Reply, DIRBUILD_REPLY
  <2>2. q.link = "open" /\ q.queue = p.queue /\ ~Unspoken(q)
    BY <1>1, <1>2, PeerFields DEF Unspoken
  <2>3. r \in Seq(Report) /\ ~Opens(r)
    BY <1>4, MessageTypes, OneMessage, OpensOne
  <2> HIDE DEF q
  <2>4. InStep(srv[s], q, Tail(out[s]), buf[s], wire[s] \o r)
    <3>1. CASE srv[s].state \in {"CLOSING", "RESTART"} /\ Settled(p, buf[s], wire[s])
      BY <1>2, <2>2, <2>3, <3>1, SettledAnswers
    <3>2. CASE srv[s].state = "DOING_DIRBUILD"
      <4>1. /\ Silent(buf[s], wire[s]) /\ p.queue = <<>> /\ out[s] = <<DIRBUILD>>
            /\ ~p.dirbuilt /\ srv[s].cur = 0 /\ ~Busy(srv[s])
        BY <1>1, <1>2, <1>6, <3>2 DEF InStep, BuildingDirectory, ToExit, NoOrders
      <4>2. Tail(out[s]) = <<>>
        BY <4>1, MessageTypes, OneMessage
      <4>3. OneReport(buf[s], wire[s] \o r, DIRBUILD_REPLY)
        BY <1>2, <4>1, MessageTypes, OneReportSent
      <4> HIDE DEF r
      <4>4. BuildingDirectory(srv[s], q, Tail(out[s]), buf[s], wire[s] \o r)
        BY <2>2, <4>1, <4>2, <4>3 DEF BuildingDirectory, NoOrders
      <4>5. QED BY <2>2, <3>2, <4>4 DEF InStep
    <3>3. CASE srv[s].state \in {"NEW", "VERSOK", "NEED_TREE"}
      BY <1>1, <1>2, <1>6, <3>3 DEF InStep, Greeting, ToExit, NoOrders
    <3>4. CASE srv[s].state \in {"CLOSING", "RESTART"} /\ ~Settled(p, buf[s], wire[s])
      BY <1>1, <1>2, <1>6, <3>4 DEF InStep, Greeting
    <3>5. CASE srv[s].state = "DOING_GETTREES"
      <4>1. GettingTrees(srv[s], p, out[s], buf[s], wire[s])
        BY <1>2, <3>5 DEF InStep
      <4>2. ~OneOrder(p, out[s], GETTREES)
        BY <1>1, <1>2, <1>6, MessageTypes, OrdersFetched
      <4>3. ASSUME NEW f \in Frames, TwoOrders(p, out[s], MATRIX_OF(f), GETTREES)
            PROVE  FALSE
        <5>1. MATRIX_OF(f) \in Queued /\ GETTREES \in Queued
          BY MessageTypes
        <5>2. QED BY <1>1, <1>2, <1>6, <4>3, <5>1, OrdersFetched
      <4>4. QED BY <1>1, <4>1, <4>2, <4>3 DEF GettingTrees, NoOrders
    <3>6. CASE srv[s].state = "READY"
      <4>1. Busy(srv[s]) /\ AtWork(srv[s], p, out[s], buf[s], wire[s])
        BY <1>1, <1>2, <3>6 DEF InStep, NoOrders
      <4>2. srv[s].cur \in Frames
        BY <1>2, <4>1 DEF AtWork, Busy, Server, Frames
      <4>3. MATRIX_OF(srv[s].cur) \in Queued /\ LINES_OF(srv[s].work) \in Queued
        BY <1>2, <4>2, MessageTypes DEF Server
      <4>4. QED BY <1>1, <1>2, <1>6, <4>1, <4>3, OrdersFetched DEF AtWork, NoOrders
    <3>7. QED BY <1>2, <1>3, <3>1, <3>2, <3>3, <3>4, <3>5, <3>6 DEF Server, States
  <2> HIDE DEF r
  <2>5. QED BY <1>1, <2>1, <2>4, WorkerStaysInStep
<1>7. CASE m.type \notin {"DIRBUILD", "RESTART"}
  <2> DEFINE q == Fetched(p, out[s])
  <2>1. /\ peer' = [peer EXCEPT ![s] = q] /\ wire' = [wire EXCEPT ![s] = wire[s]]
        /\ out' = [out EXCEPT ![s] = Tail(out[s])]
    BY <1>7 DEF rtsrv_receive, Fetched, TypeInv, TypeOK, NetTypeOK
  <2>2. q.link = "open" /\ ~Unspoken(q) /\ q.view = p.view /\ q.grid = p.grid
    BY <1>1, <1>2, PeerFields DEF Unspoken
  <2>3. InStep(srv[s], q, Tail(out[s]), buf[s], wire[s])
    <3>1. CASE srv[s].state \in {"CLOSING", "RESTART"} /\ Settled(p, buf[s], wire[s])
      <4> HIDE DEF q
      <4>1. QED BY <1>2, <1>4, <2>2, <3>1, SettledAnswers
    <3>2. CASE srv[s].state \in {"NEW", "VERSOK", "DOING_DIRBUILD", "NEED_TREE"}
      <4>1. out[s] = <<DIRBUILD>> => m.type = "DIRBUILD"
        BY MessageTypes, OneMessage
      <4>2. QED BY <1>1, <1>2, <1>7, <3>2, <4>1
                DEF InStep, Greeting, ToExit, NoOrders, BuildingDirectory
    <3>3. CASE srv[s].state \in {"CLOSING", "RESTART"} /\ ~Settled(p, buf[s], wire[s])
      BY <1>1, <1>2, <1>7, <3>3 DEF InStep, Greeting
    <3>4. CASE srv[s].state = "DOING_GETTREES"
      <4>1. GettingTrees(srv[s], p, out[s], buf[s], wire[s])
        BY <1>2, <3>4 DEF InStep
      <4>2. ASSUME NEW f \in Frames, TwoOrders(p, out[s], MATRIX_OF(f), GETTREES)
            PROVE  TwoOrders(q, Tail(out[s]), MATRIX_OF(f), GETTREES)
        <5>1. MATRIX_OF(f) \in Queued /\ GETTREES \in Queued
          BY MessageTypes
        <5>2. QED BY <1>1, <1>2, <4>2, <5>1, OrdersFetched
      <4>3. OneOrder(p, out[s], GETTREES) => OneOrder(q, Tail(out[s]), GETTREES)
        BY <1>1, <1>2, MessageTypes, OrdersFetched
      <4> HIDE DEF q
      <4>4. GettingTrees(srv[s], q, Tail(out[s]), buf[s], wire[s])
        BY <1>1, <2>2, <4>1, <4>2, <4>3 DEF GettingTrees, NoOrders
      <4>5. QED BY <2>2, <3>4, <4>4 DEF InStep
    <3>5. CASE srv[s].state = "READY"
      <4>1. Busy(srv[s]) /\ AtWork(srv[s], p, out[s], buf[s], wire[s])
        BY <1>1, <1>2, <3>5 DEF InStep, NoOrders
      <4>2. srv[s].cur \in Frames
        BY <1>2, <4>1 DEF AtWork, Busy, Server, Frames
      <4>3. MATRIX_OF(srv[s].cur) \in Queued /\ LINES_OF(srv[s].work) \in Queued
        BY <1>2, <4>2, MessageTypes DEF Server
      <4>4. /\ OneOrder(p, out[s], LINES_OF(srv[s].work)) =>
                  OneOrder(q, Tail(out[s]), LINES_OF(srv[s].work))
            /\ TwoOrders(p, out[s], MATRIX_OF(srv[s].cur), LINES_OF(srv[s].work)) =>
                  TwoOrders(q, Tail(out[s]), MATRIX_OF(srv[s].cur), LINES_OF(srv[s].work))
        BY <1>1, <1>2, <4>3, OrdersFetched
      <4> HIDE DEF q
      <4>5. Equipped(srv[s], p) => Equipped(srv[s], q)
        BY <1>1, <2>2 DEF Equipped
      <4>6. AtWork(srv[s], q, Tail(out[s]), buf[s], wire[s])
        BY <1>1, <2>2, <4>1, <4>4, <4>5 DEF AtWork, NoOrders
      <4>7. QED BY <2>2, <3>5, <4>1, <4>6 DEF InStep
    <3>6. QED BY <1>2, <1>3, <3>1, <3>2, <3>3, <3>4, <3>5 DEF Server, States
  <2> HIDE DEF q
  <2>4. QED BY <1>1, <2>1, <2>3, WorkerStaysInStep
<1>8. QED BY <1>5, <1>6, <1>7

LEMMA RtsrvWorkInStep ==
    ASSUME TypeInv, ProtocolInv, NEW s \in Slots, rtsrv_work(s)
    PROVE  ProtocolInv'
<1> DEFINE p == peer[s]
           t == Taken(p)
           m == Head(p.queue)
<1>1. /\ p.queue # <<>> /\ p.link = "open" /\ UNCHANGED <<srv, buf>>
      /\ out' = [out EXCEPT ![s] = out[s]]
  BY DEF rtsrv_work, Awake, memory, TypeInv, TypeOK, NetTypeOK
<1>2. /\ srv[s] \in Server /\ p \in Peer /\ out[s] \in Seq(Order)
      /\ buf[s] \in Seq(Report) /\ wire[s] \in Seq(Report)
      /\ InStep(srv[s], p, out[s], buf[s], wire[s])
  BY SlotType, SlotInStep
<1>3. /\ t.link = "open" /\ t.started = p.started /\ t.view = p.view /\ t.grid = p.grid
      /\ t \in [link : {"none", "open", "shut"}, job : {"render", "command"},
                started : BOOLEAN, hung : BOOLEAN, dirbuilt : BOOLEAN,
                view : 0 .. NFrames, grid : 0 .. NFrames, queue : {t.queue}]
  BY <1>1, <1>2, PeerFields DEF Taken, Peer
<1>4. wire[s] \o <<>> = wire[s] /\ <<>> \in Seq(Report) /\ ~Opens(<<>>)
  BY <1>2, MessagesJoined, EmptySeq, OpensEmpty
  (* The worker after the order, and what it answers.                        *)
<1>5. PICK q, r :
        /\ r \in Seq(Report) /\ peer' = [peer EXCEPT ![s] = q]
        /\ wire' = [wire EXCEPT ![s] = wire[s] \o r]
        /\ q.link = "open" /\ q.started = p.started /\ q.queue = t.queue /\ ~Opens(r)
        /\ m.type = "MATRIX" => q.view = m.frame /\ q.grid = p.grid /\ r = <<>>
        /\ m.type = "GETTREES" =>
              q.grid = p.view /\ q.view = p.view /\ r = <<GETTREES_REPLY>>
        /\ m.type = "LINES" =>
              /\ q.grid = p.grid /\ q.view = p.view
              /\ p.grid # 0 /\ p.view # 0 =>
                    p.grid \in Frames /\ r = <<PIXELS_OF(m.work, p.grid)>>
  <2>1. m \in Queued
    BY <1>1, <1>2, HeadTailProperties DEF Peer
  <2>2. CASE m.type = "MATRIX"
    <3> DEFINE q == [t EXCEPT !.view = m.frame]
    <3>1. peer' = [peer EXCEPT ![s] = q] /\ wire' = [wire EXCEPT ![s] = wire[s] \o <<>>]
      BY <1>4, <2>2 DEF rtsrv_work, Taken, TypeInv, TypeOK, NetTypeOK
    <3>2. /\ q.link = "open" /\ q.started = p.started /\ q.queue = t.queue
          /\ q.view = m.frame /\ q.grid = p.grid
      BY <1>3
    <3> HIDE DEF q, t, m
    <3>3. QED BY <1>4, <2>2, <3>1, <3>2
  <2>3. CASE m.type = "GETTREES"
    <3> DEFINE q == [t EXCEPT !.grid = t.view]
    <3>1. /\ peer' = [peer EXCEPT ![s] = q]
          /\ wire' = [wire EXCEPT ![s] = wire[s] \o <<GETTREES_REPLY>>]
      BY <2>3 DEF rtsrv_work, Taken, Reply, GETTREES_REPLY
    <3>2. /\ q.link = "open" /\ q.started = p.started /\ q.queue = t.queue
          /\ q.view = p.view /\ q.grid = p.view
      BY <1>3
    <3>3. <<GETTREES_REPLY>> \in Seq(Report) /\ ~Opens(<<GETTREES_REPLY>>)
      BY MessageTypes, OpensOne
    <3> HIDE DEF q, t, m
    <3>4. QED BY <2>3, <3>1, <3>2, <3>3
  <2>4. CASE m.type = "LINES"
    <3> DEFINE r == IF p.grid = 0 \/ p.view = 0 THEN <<>> ELSE <<PIXELS_OF(m.work, p.grid)>>
    <3>1. peer' = [peer EXCEPT ![s] = t] /\ wire' = [wire EXCEPT ![s] = wire[s] \o r]
      BY <1>3, <2>4 DEF rtsrv_work, Taken, Reply, PIXELS_OF
    <3>2. m.work \in Work
      BY <2>1, <2>4 DEF Queued
    <3>3. p.grid # 0 => p.grid \in Frames
      BY <1>2, SizesInNat DEF Peer, Frames
    <3>4. r \in Seq(Report) /\ ~Opens(r)
      BY <1>4, <3>2, <3>3, MessageTypes, OpensOne
    <3>5. p.grid # 0 /\ p.view # 0 => p.grid \in Frames /\ r = <<PIXELS_OF(m.work, p.grid)>>
      BY <3>3
    <3> HIDE DEF r, t, m
    <3>6. QED BY <1>3, <2>4, <3>1, <3>4, <3>5
  <2>5. QED BY <2>1, <2>2, <2>3, <2>4 DEF Queued
<1>6. NoOrders(t, out[s]) => NoOrders(q, out[s])
  BY <1>5 DEF NoOrders
<1>7. \A n : OneOrder(t, out[s], n) => OneOrder(q, out[s], n)
  BY <1>5 DEF OneOrder
<1> HIDE DEF t
<1>8. InStep(srv[s], q, out[s], buf[s], wire[s] \o r)
  <2>1. CASE Unspoken(p)
    BY <1>1, <1>2, <2>1 DEF InStep, Greeting, Settled
  <2>2. CASE srv[s].state \in {"UNUSED", "NEW", "VERSOK", "DOING_DIRBUILD", "NEED_TREE"}
    BY <1>1, <1>2, <2>2 DEF InStep, Greeting, ToExit, NoOrders, BuildingDirectory
  <2>3. CASE srv[s].state \in {"CLOSING", "RESTART"} /\ ~Unspoken(p)
    <3>1. Settled(p, buf[s], wire[s])
      BY <1>1, <1>2, <2>3 DEF InStep, Greeting
    <3>2. ~Unspoken(q)
      BY <1>1, <1>5, <2>3 DEF Unspoken
    <3>3. QED BY <1>2, <1>5, <2>3, <3>1, <3>2, SettledAnswers
  <2>4. CASE srv[s].state = "DOING_GETTREES" /\ ~Unspoken(p)
    <3>1. GettingTrees(srv[s], p, out[s], buf[s], wire[s])
      BY <1>2, <2>4 DEF InStep
    <3>2. ~Unspoken(q)
      BY <1>1, <1>5, <2>4 DEF Unspoken
    <3>3. CASE OneOrder(p, out[s], GETTREES)
      <4>1. m = GETTREES /\ NoOrders(q, out[s])
        BY <1>1, <1>2, <1>6, <3>3, MessageTypes, OrdersTaken DEF t
      <4>2. Silent(buf[s], wire[s]) /\ p.view # 0 /\ Matches(p.view, srv[s].cur)
            /\ ~Busy(srv[s])
        BY <1>1, <3>1, <3>3, MessageTypes, OneMessage
           DEF GettingTrees, NoOrders, OneOrder, TwoOrders
      <4>3. OneReport(buf[s], wire[s] \o r, GETTREES_REPLY)
        BY <1>2, <1>5, <4>1, <4>2, MessageTypes, OneReportSent
      <4>4. Equipped(srv[s], q)
        BY <1>5, <4>1, <4>2, MessageTypes DEF Equipped
      <4>5. GettingTrees(srv[s], q, out[s], buf[s], wire[s] \o r)
        BY <4>1, <4>2, <4>3, <4>4 DEF GettingTrees
      <4>6. QED BY <2>4, <3>2, <4>5 DEF InStep
    <3>4. CASE ~OneOrder(p, out[s], GETTREES)
      <4>1. PICK f \in Frames : /\ TwoOrders(p, out[s], MATRIX_OF(f), GETTREES)
                                /\ Matches(f, srv[s].cur)
                                /\ Silent(buf[s], wire[s]) /\ ~Busy(srv[s])
        BY <1>1, <3>1, <3>4 DEF GettingTrees, NoOrders
      <4>2. MATRIX_OF(f) \in Queued /\ GETTREES \in Queued
            /\ MATRIX_OF(f).type = "MATRIX" /\ MATRIX_OF(f).frame = f
        BY MessageTypes
      <4>3. m = MATRIX_OF(f) /\ OneOrder(q, out[s], GETTREES)
        BY <1>1, <1>2, <1>7, <4>1, <4>2, OrdersTaken DEF t
      <4>4. q.view = f /\ f # 0 /\ Silent(buf[s], wire[s] \o r)
        <5>1. q.view = f /\ r = <<>>
          BY <1>5, <4>2, <4>3
        <5>2. f # 0
          BY DEF Frames
        <5>3. QED BY <1>4, <4>1, <5>1, <5>2
      <4>5. GettingTrees(srv[s], q, out[s], buf[s], wire[s] \o r)
        BY <4>1, <4>3, <4>4 DEF GettingTrees
      <4>6. QED BY <2>4, <3>2, <4>5 DEF InStep
    <3>5. QED BY <3>3, <3>4
  <2>5. CASE srv[s].state = "READY" /\ ~Unspoken(p)
    <3> DEFINE work == srv[s].work
    <3>1. Busy(srv[s]) /\ AtWork(srv[s], p, out[s], buf[s], wire[s])
      BY <1>1, <1>2, <2>5 DEF InStep, NoOrders
    <3>2. ~Unspoken(q)
      BY <1>1, <1>5, <2>5 DEF Unspoken
    <3>3. srv[s].cur \in Frames /\ srv[s].cur # 0 /\ work \in Work
      BY <1>2, <3>1 DEF AtWork, Busy, Server, Frames
    <3>4. /\ MATRIX_OF(srv[s].cur) \in Queued /\ MATRIX_OF(srv[s].cur).type = "MATRIX"
          /\ MATRIX_OF(srv[s].cur).frame = srv[s].cur
          /\ LINES_OF(work) \in Queued /\ LINES_OF(work).type = "LINES"
          /\ LINES_OF(work).work = work
      BY <3>3, MessageTypes
    <3> HIDE DEF work
    <3>5. CASE OneOrder(p, out[s], LINES_OF(work))
      <4>1. m = LINES_OF(work) /\ NoOrders(q, out[s])
        BY <1>1, <1>2, <1>6, <3>4, <3>5, OrdersTaken DEF t
      <4>2. Silent(buf[s], wire[s]) /\ Equipped(srv[s], p) /\ srv[s].cur = work.frame
        <5>1. ~TwoOrders(p, out[s], MATRIX_OF(srv[s].cur), LINES_OF(work))
          BY <1>1, <1>2, <3>4, <4>1, OrdersTaken
        <5>2. QED BY <1>1, <3>1, <5>1 DEF AtWork, NoOrders, work
      <4>3. /\ p.view # 0 /\ p.grid \in Frames /\ Matches(p.grid, srv[s].cur)
            /\ r = <<PIXELS_OF(work, p.grid)>> /\ q.grid = p.grid /\ q.view = p.view
        BY <1>1, <1>5, <3>4, <4>1, <4>2 DEF Equipped
      <4>4. OneReport(buf[s], wire[s] \o r, PIXELS_OF(work, p.grid))
        BY <1>2, <3>3, <4>2, <4>3, MessageTypes, OneReportSent
      <4>5. Equipped(srv[s], q)
        BY <1>1, <4>2, <4>3 DEF Equipped
      <4>6. AtWork(srv[s], q, out[s], buf[s], wire[s] \o r)
        BY <4>1, <4>2, <4>3, <4>4, <4>5 DEF AtWork, work
      <4>7. QED BY <2>5, <3>1, <3>2, <4>6 DEF InStep
    <3>6. CASE ~OneOrder(p, out[s], LINES_OF(work))
      <4>1. /\ Silent(buf[s], wire[s]) /\ NeedTree # Frames /\ p.grid # 0
            /\ TwoOrders(p, out[s], MATRIX_OF(srv[s].cur), LINES_OF(work))
            /\ srv[s].cur = work.frame
        BY <1>1, <3>1, <3>6 DEF AtWork, NoOrders, work
      <4>2. m = MATRIX_OF(srv[s].cur) /\ OneOrder(q, out[s], LINES_OF(work))
        BY <1>1, <1>2, <1>7, <3>4, <4>1, OrdersTaken DEF t
      <4>3. /\ q.view = srv[s].cur /\ q.grid = p.grid /\ Silent(buf[s], wire[s] \o r)
        BY <1>4, <1>5, <3>4, <4>1, <4>2
      <4>4. Equipped(srv[s], q)
        BY <3>3, <4>1, <4>3 DEF Equipped, Matches
      <4>5. AtWork(srv[s], q, out[s], buf[s], wire[s] \o r)
        BY <4>1, <4>2, <4>3, <4>4 DEF AtWork, work
      <4>6. QED BY <2>5, <3>1, <3>2, <4>5 DEF InStep
    <3>7. QED BY <3>5, <3>6
  <2>6. QED BY <1>2, <2>1, <2>2, <2>3, <2>4, <2>5 DEF Server, States
<1>9. QED BY <1>1, <1>5, <1>8, WorkerStaysInStep

LEMMA FaultsInStep ==
    ASSUME TypeInv, ProtocolInv, NEW s \in Slots,
           crash(s) \/ hang(s) \/ slow(s) \/ hung_too_long(s)
    PROVE  ProtocolInv'
<1>1. CASE crash(s)
  <2>1. /\ srv'[s] = srv[s] /\ peer'[s] = Gone(peer[s]) /\ out'[s] = <<>>
        /\ buf'[s] = buf[s] /\ wire'[s] \in {wire[s], <<>>} /\ Elsewhere(s)
        /\ peer[s].link = "open"
    BY <1>1 DEF crash, memory, Elsewhere, TypeInv, TypeOK, NetTypeOK
  <2>2. srv[s].state # "UNUSED"
    BY <2>1, SlotInStep DEF InStep
  <2>3. InStep(srv[s], Gone(peer[s]), <<>>, buf[s], wire'[s])
    BY <2>1, <2>2, SlotType, SlotInStep, GoneInStep
  <2>4. QED BY <2>1, <2>3, OneStaysInStep
<1>2. CASE hang(s)
  <2> DEFINE p == [peer[s] EXCEPT !.hung = TRUE]
  <2>1. peer' = [peer EXCEPT ![s] = p] /\ UNCHANGED <<srv, out, buf, wire>>
    BY <1>2 DEF hang, memory
  <2>2. /\ p.link = peer[s].link /\ p.started = peer[s].started /\ p.queue = peer[s].queue
        /\ p.dirbuilt = peer[s].dirbuilt /\ p.view = peer[s].view /\ p.grid = peer[s].grid
    BY SlotType DEF Peer
  <2> HIDE DEF p
  <2>3. peer'[s] = p /\ Elsewhere(s)
    BY <2>1 DEF Elsewhere, TypeInv, TypeOK, NetTypeOK
  <2>4. InStep(srv[s], p, out[s], buf[s], wire[s])
    <3> DEFINE v == srv[s]
               q == peer[s]
               o == out[s]
               b == buf[s]
               w == wire[s]
    <3>1. InStep(v, q, o, b, w)
      BY SlotInStep
    <3> HIDE DEF v, q, o, b, w
    <3>2. /\ p.link = q.link /\ p.started = q.started /\ p.queue = q.queue
          /\ p.dirbuilt = q.dirbuilt /\ p.view = q.view /\ p.grid = q.grid
      BY <2>2 DEF q
    <3>3. /\ Unspoken(p) <=> Unspoken(q)
          /\ Greeting(v, p, o, b, w) <=> Greeting(v, q, o, b, w)
          /\ NoOrders(p, o) <=> NoOrders(q, o)
          /\ ToExit(p, o) <=> ToExit(q, o)
          /\ Equipped(v, p) <=> Equipped(v, q)
      BY <3>2 DEF Unspoken, Greeting, NoOrders, ToExit, Equipped
    <3>4. /\ \A m : OneOrder(p, o, m) <=> OneOrder(q, o, m)
          /\ \A m, n : TwoOrders(p, o, m, n) <=> TwoOrders(q, o, m, n)
      BY <3>2 DEF OneOrder, TwoOrders
    <3>5. BuildingDirectory(v, p, o, b, w) <=> BuildingDirectory(v, q, o, b, w)
      BY <3>2, <3>3 DEF BuildingDirectory
    <3>6. GettingTrees(v, p, o, b, w) <=> GettingTrees(v, q, o, b, w)
      BY <3>2, <3>3, <3>4 DEF GettingTrees
    <3>7. AtWork(v, p, o, b, w) <=> AtWork(v, q, o, b, w)
      BY <3>2, <3>3, <3>4 DEF AtWork
    <3>8. InStep(v, p, o, b, w)
      BY <3>1, <3>2, <3>3, <3>5, <3>6, <3>7 DEF InStep, Settled
    <3>9. QED BY <3>8 DEF v, o, b, w
  <2>5. QED BY <2>1, <2>3, <2>4, OneStaysInStep
<1>3. CASE Elapse(s)
  <2> DEFINE v == [srv[s] EXCEPT !.late = TRUE]
  <2>1. srv' = [srv EXCEPT ![s] = v] /\ UNCHANGED <<peer, out, buf, wire>> /\ Busy(srv[s])
    BY <1>3 DEF Elapse, net
  <2>2. v.state = srv[s].state /\ v.work = srv[s].work /\ v.cur = srv[s].cur
    BY SlotType DEF Server
  <2>3. srv[s].state # "UNUSED"
    BY <2>1, SlotInStep, UnusedFields DEF InStep
  <2> HIDE DEF v
  <2>4. InStep(v, peer[s], out[s], buf[s], wire[s])
    <3> DEFINE u == srv[s]
               p == peer[s]
               o == out[s]
               b == buf[s]
               w == wire[s]
    <3>1. InStep(u, p, o, b, w) /\ u.state # "UNUSED"
      BY <2>3, SlotInStep
    <3> HIDE DEF u, p, o, b, w
    <3>2. v.state = u.state /\ v.work = u.work /\ v.cur = u.cur
      BY <2>2 DEF u
    <3>3. /\ Busy(v) <=> Busy(u)
          /\ Greeting(v, p, o, b, w) <=> Greeting(u, p, o, b, w)
          /\ Equipped(v, p) <=> Equipped(u, p)
          /\ BuildingDirectory(v, p, o, b, w) <=> BuildingDirectory(u, p, o, b, w)
      BY <3>2 DEF Busy, Greeting, Equipped, BuildingDirectory
    <3>4. GettingTrees(v, p, o, b, w) <=> GettingTrees(u, p, o, b, w)
      BY <3>2, <3>3 DEF GettingTrees
    <3>5. AtWork(v, p, o, b, w) <=> AtWork(u, p, o, b, w)
      BY <3>2, <3>3 DEF AtWork
    <3>6. InStep(v, p, o, b, w)
      BY <3>1, <3>2, <3>3, <3>4, <3>5 DEF InStep
    <3>7. QED BY <3>6 DEF p, o, b, w
  <2>5. QED BY <2>1, <2>4, ServerStaysInStep
<1>4. QED BY <1>1, <1>2, <1>3 DEF slow, hung_too_long

LEMMA NextInStep ==
    ASSUME TypeInv, ProtocolInv, Selected, [Next]_vars
    PROVE  ProtocolInv'
<1>1. CASE Dispatcher
  BY <1>1, CheckInputInStep, ScheduleInStep DEF Dispatcher
<1>2. ASSUME NEW s \in Slots, Worker(s) PROVE ProtocolInv'
  BY <1>2, RtsrvMainInStep, RtsrvReceiveInStep, RtsrvWorkInStep DEF Worker
<1>3. CASE call \/ call_command \/ exited \/ UNCHANGED vars
  BY <1>3, NothingStepsOut DEF call, call_command, exited, vars, memory, net
<1>4. CASE remrt_restarts
  <2>1. ASSUME NEW t \in Slots
        PROVE  InStep(srv'[t], peer'[t], out'[t], buf'[t], wire'[t])
    BY <1>4, UnusedInStep DEF remrt_restarts
  <2>2. QED BY <2>1, AllInStep
<1>5. QED BY <1>1, <1>2, <1>3, <1>4, FaultsInStep DEF Next

LEMMA InitInStep == Init => ProtocolInv /\ Selected
<1> SUFFICES ASSUME Init PROVE ProtocolInv /\ Selected
  OBVIOUS
<1>1. ASSUME NEW s \in Slots
      PROVE  InStep(srv[s], peer[s], out[s], buf[s], wire[s])
  BY UnusedInStep DEF Init
<1>2. QED BY <1>1 DEF Init, ProtocolInv, Selected

(* Where the dispatcher may be behind a step of schedule.                  *)
GoesOn ==
    /\ pc' \in {"sched", "reap", "assign", "first", "exit"}
    /\ pc' = "first" => sp' = 1

LEMMA ScheduleGoes ==
    ASSUME Schedule
    PROVE  GoesOn
<1>1. CASE AttendedAll \/ frame_is_done
  BY <1>1 DEF AttendedAll, frame_is_done, loop, GoesOn
<1>2. CASE ReapedAll
  BY <1>2 DEF ReapedAll, Leave, AtRest, GoesOn
<1>3. CASE NothingWaits \/ PassEnds
  BY <1>3 DEF NothingWaits, PassEnds, Advance, Leave, AtRest, GoesOn
<1>4. ASSUME NEW s \in Slots, send_dirbuild(s) \/ final_close(s)
      PROVE  GoesOn
  BY <1>4 DEF send_dirbuild, final_close, Attending, GoesOn
<1>5. ASSUME NEW s \in Slots, Tasking(s), NEW ret, Returns(s, ret)
      PROVE  GoesOn
  BY <1>5 DEF Tasking, Returns, Advance, Leave, AtRest, GoesOn
<1>6. ASSUME NEW s \in Slots,
             \/ task_tardy(s) \/ task_none_left(s) \/ task_other_frame(s)
             \/ task_reserved(s) \/ task_gettrees(s) \/ task_lines(s) \/ task_dropped(s)
      PROVE  GoesOn
  BY <1>5, <1>6 DEF task_tardy, task_none_left, task_other_frame, task_reserved,
                    task_gettrees, task_lines, task_dropped, Wants
<1>7. QED BY <1>1, <1>2, <1>3, <1>4, <1>6 DEF Schedule

LEMMA ReceiveGoes ==
    ASSUME Receive
    PROVE  pc' = pc /\ pc \in {"first", "fifth"}
BY DEF Receive, Receiving, ph_version, ph_dirbuild_reply, ph_gettrees_reply, ph_pixels,
       cd_stop_go, cd_drop, cd_restart

(* The steps that are not the dispatcher's leave its connections to it.    *)
LEMMA OutsideGoes ==
    ASSUME TypeInv, [Next]_vars, ~Dispatcher, ~remrt_restarts
    PROVE  /\ UNCHANGED loop
           /\ \A t \in Slots : srv'[t].state = srv[t].state /\ srv'[t].polled = srv[t].polled
<1>1. ASSUME NEW s \in Slots, Worker(s) \/ crash(s) \/ hang(s)
      PROVE  UNCHANGED loop /\ srv' = srv
  BY <1>1 DEF Worker, rtsrv_main, rtsrv_receive, rtsrv_work, crash, hang, Fault, memory
<1>2. CASE call \/ call_command \/ exited \/ UNCHANGED vars
  BY <1>2 DEF call, call_command, exited, vars, memory
<1>3. ASSUME NEW s \in Slots, slow(s) \/ hung_too_long(s)
      PROVE  /\ UNCHANGED loop
             /\ \A t \in Slots : srv'[t].state = srv[t].state /\ srv'[t].polled = srv[t].polled
  <2>1. UNCHANGED loop /\ srv' = [srv EXCEPT ![s].late = TRUE]
    BY <1>3 DEF slow, hung_too_long, Elapse, Fault
  <2>2. ASSUME NEW t \in Slots PROVE srv'[t] \in {srv[t], [srv[t] EXCEPT !.late = TRUE]}
    BY <2>1 DEF TypeInv, TypeOK, MemoryTypeOK
  <2>3. QED BY <2>1, <2>2, SlotType DEF Server
<1>4. QED BY <1>1, <1>2, <1>3 DEF Next

LEMMA SelectedNext ==
    ASSUME TypeInv, ProtocolInv, Selected, [Next]_vars
    PROVE  Selected'
<1>1. CASE Schedule
  BY <1>1, ScheduleGoes DEF Selected, GoesOn
<1>2. CASE Receive \/ ReceivedAll \/ SuckedAll
  BY <1>2, ReceiveGoes DEF Selected, ReceivedAll, SuckedAll
<1>3. CASE select
  <2>1. ASSUME NEW t \in Readable PROVE t \in Slots /\ srv[t].state # "UNUSED"
    BY <2>1, SlotInStep, UnusedFields DEF Readable, InStep
  <2>2. ASSUME NEW t \in Slots, srv[t].state # "UNUSED" PROVE srv'[t].state # "UNUSED"
    BY <1>3, <2>2, UnusedFields DEF select, TypeInv, TypeOK, MemoryTypeOK
  <2>3. ifdset' = Readable
    BY <1>3 DEF select
  <2>4. QED BY <2>1, <2>2, <2>3 DEF Selected, Occupied
<1>4. ASSUME NEW s \in Slots, suckin(s) PROVE Selected'
  <2>1. \A t \in Slots : srv'[t] = srv[t] \/ srv'[t] = Dropped(srv[t])
    BY <1>4 DEF suckin, Drop, TypeInv, TypeOK, MemoryTypeOK
  <2>2. \A t \in Slots : srv[t].state # "UNUSED" => srv'[t].state # "UNUSED"
    BY <2>1, SlotType, DroppedFields
  <2>3. pc = "suck" /\ ifdset' \subseteq ifdset /\ ifdset \subseteq Slots
    BY <1>4, IfdsetOfSuckin DEF TypeInv, TypeOK, LoopTypeOK
  <2>4. QED BY <2>2, <2>3 DEF Selected, Occupied
<1>5. CASE remrt_restarts
  BY <1>5 DEF remrt_restarts, Leave, Selected
<1>6. CASE ~Dispatcher /\ ~remrt_restarts
  <2>1. ifdset \subseteq Slots
    BY DEF TypeInv, TypeOK, LoopTypeOK
  <2>2. QED BY <1>6, <2>1, OutsideGoes DEF Selected, Occupied, loop
<1>7. QED BY <1>1, <1>2, <1>3, <1>4, <1>5, <1>6 DEF Dispatcher, CheckInput

-----------------------------------------------------------------------------
(* 3.7. What follows of the messages.                                      *)

FarmInv == TypeInv /\ ProtocolInv /\ Selected

LEMMA FarmInvariant == Spec => []FarmInv
<1>1. Init => FarmInv
  BY InitType, InitInStep DEF FarmInv
<1>2. FarmInv /\ [Next]_vars => FarmInv'
  BY NextType, NextInStep, SelectedNext DEF FarmInv
<1>3. QED BY <1>1, <1>2, PTL DEF Spec

LEMMA ReportsOf ==
    ASSUME TypeInv, NEW s \in Slots
    PROVE  /\ Silent(buf[s], wire[s]) => DOMAIN Reports(s) = {}
           /\ \A m \in Report : OneReport(buf[s], wire[s], m) =>
                 DOMAIN Reports(s) = {1} /\ Reports(s)[1] = m
<1>1. Silent(buf[s], wire[s]) => DOMAIN Reports(s) = {}
  BY SlotType, EmptySeq, MessagesJoined DEF Silent, Reports
<1>2. ASSUME NEW m \in Report, OneReport(buf[s], wire[s], m)
      PROVE  DOMAIN Reports(s) = {1} /\ Reports(s)[1] = m
  <2>1. Reports(s) = <<m>>
    BY <1>2, SlotType, OneMessage, MessagesJoined DEF OneReport, Reports
  <2>2. QED BY <2>1, OneMessage
<1>3. QED BY <1>1, <1>2

(* Without restart commands every message on its way from a worker is the  *)
(* one the dispatcher is waiting for, unless it has given the worker up:   *)
(* no innocent server is dropped, and no slot hears its predecessor.       *)
LEMMA InStepExpected ==
    ASSUME TypeInv, ProtocolInv, \A c \in Commands : c.cmd # "restart"
    PROVE  RepliesExpected
<1> SUFFICES ASSUME NEW s \in Slots, NEW i \in DOMAIN Reports(s), srv[s].state # "CLOSING"
             PROVE  Expected(srv[s], Reports(s)[i])
  BY DEF RepliesExpected
<1> DEFINE v == srv[s]
           b == buf[s]
           w == wire[s]
<1>1. InStep(v, peer[s], out[s], b, w) /\ v \in Server
  BY SlotInStep, SlotType
<1>2. ~Silent(b, w)
  BY ReportsOf
<1>3. \A m \in Report : OneReport(b, w, m) => Reports(s)[i] = m
  BY ReportsOf
<1> HIDE DEF b, w
<1>4. v.state \notin {"UNUSED", "CLOSING", "RESTART", "VERSOK", "NEED_TREE"}
  BY <1>1, <1>2 DEF InStep
<1>5. CASE v.state = "NEW"
  <2>1. PICK m \in Report : m.type \in {"VERSION", "CMD"} /\ OneReport(b, w, m)
    BY <1>1, <1>2, <1>5 DEF InStep, Greeting
  <2>2. QED BY <1>3, <1>5, <2>1 DEF Expected
<1>6. CASE v.state = "DOING_DIRBUILD"
  <2>1. Reports(s)[i] = DIRBUILD_REPLY
    BY <1>1, <1>2, <1>3, <1>6, MessageTypes DEF InStep, BuildingDirectory
  <2>2. QED BY <1>6, <2>1 DEF Expected, DIRBUILD_REPLY
<1>7. CASE v.state = "DOING_GETTREES"
  <2>1. Reports(s)[i] = GETTREES_REPLY
    BY <1>1, <1>2, <1>3, <1>7, MessageTypes DEF InStep, GettingTrees
  <2>2. QED BY <1>7, <2>1 DEF Expected, GETTREES_REPLY
<1>8. CASE v.state = "READY"
  <2>1. PICK view \in Frames : OneReport(b, w, PIXELS_OF(v.work, view))
    BY <1>1, <1>2, <1>8 DEF InStep, AtWork
  <2>2. PIXELS_OF(v.work, view) \in Report
    BY <1>1, MessageTypes DEF Server
  <2>3. Reports(s)[i] = PIXELS_OF(v.work, view)
    BY <1>3, <2>1, <2>2
  <2>4. QED BY <1>8, <2>3 DEF Expected, PIXELS_OF
<1>9. QED BY <1>1, <1>4, <1>5, <1>6, <1>7, <1>8 DEF Server, States

(* For any farm and any faults and commands but a restart: whatever a      *)
(* worker has sent is what its state in servers[] expects (ph_version,     *)
(* ph_dirbuild_reply, ph_gettrees_reply, ph_pixels).                       *)
THEOREM RepliesAreExpected ==
    ASSUME \A c \in Commands : c.cmd # "restart"
    PROVE  Spec => []RepliesExpected
<1>1. FarmInv => RepliesExpected
  BY InStepExpected DEF FarmInv
<1>2. QED BY <1>1, FarmInvariant, PTL

(* The LINES on their way and the PIXELS on their way back, counted.       *)
LEMMA InStepUnderWay ==
    ASSUME TypeInv, ProtocolInv
    PROVE  AssignmentUnderWay
<1> SUFFICES ASSUME NEW s \in Slots, srv[s].state = "READY", Busy(srv[s]),
                    peer[s].link = "open"
             PROVE  Tokens(s) = 1
  BY DEF AssignmentUnderWay
<1> DEFINE work == srv[s].work
           Given == {i \in DOMAIN Orders(s) : Orders(s)[i] = LINES_OF(work)}
           Back == {i \in DOMAIN Reports(s) :
                       Reports(s)[i].type = "PIXELS" /\ Reports(s)[i].work = work}
<1>1. AtWork(srv[s], peer[s], out[s], buf[s], wire[s])
  BY SlotInStep DEF InStep
<1>2. work \in Work /\ srv[s].cur \in Frames
  BY <1>1, SlotType DEF AtWork, Busy, Server, Frames
<1>3. /\ LINES_OF(work) \in Order /\ LINES_OF(work) \in Queued /\ LINES_OF(work).type = "LINES"
      /\ MATRIX_OF(srv[s].cur) \in Order /\ MATRIX_OF(srv[s].cur) \in Queued
      /\ MATRIX_OF(srv[s].cur).type = "MATRIX"
  BY <1>2, MessageTypes
<1>4. Tokens(s) = Cardinality(Given) + Cardinality(Back)
  BY DEF Tokens, LINES_OF
<1>5. Cardinality({}) = 0 /\ Cardinality({1}) = 1 /\ Cardinality({2}) = 1
  BY FS_EmptySet, FS_Singleton
<1>6. CASE \E view \in Frames : OneReport(buf[s], wire[s], PIXELS_OF(work, view))
           /\ NoOrders(peer[s], out[s])
  <2>1. PICK view \in Frames : OneReport(buf[s], wire[s], PIXELS_OF(work, view))
    BY <1>6
  <2>2. /\ PIXELS_OF(work, view) \in Report
        /\ PIXELS_OF(work, view).type = "PIXELS" /\ PIXELS_OF(work, view).work = work
    BY <1>2, MessageTypes
  <2>3. Back = {1}
    BY <2>1, <2>2, ReportsOf
  <2>4. Orders(s) = <<>>
    BY <1>6, EmptySeq, MessagesJoined DEF NoOrders, Orders
  <2>5. Given = {}
    BY <2>4, EmptySeq
  <2> HIDE DEF Given, Back
  <2>6. QED BY <1>4, <1>5, <2>3, <2>5
<1>7. ASSUME Silent(buf[s], wire[s]) PROVE Back = {}
  BY <1>7, ReportsOf
<1>8. CASE Silent(buf[s], wire[s]) /\ OneOrder(peer[s], out[s], LINES_OF(work))
  <2>1. Orders(s) = <<LINES_OF(work)>>
    BY <1>3, <1>8, OneMessage, MessagesJoined DEF OneOrder, Orders
  <2>2. Given = {1}
    BY <1>3, <2>1, OneMessage
  <2>3. Back = {}
    BY <1>7, <1>8
  <2> HIDE DEF Given, Back
  <2>4. QED BY <1>4, <1>5, <2>2, <2>3
<1>9. CASE Silent(buf[s], wire[s])
           /\ TwoOrders(peer[s], out[s], MATRIX_OF(srv[s].cur), LINES_OF(work))
  <2> DEFINE m == MATRIX_OF(srv[s].cur)
             n == LINES_OF(work)
  <2>1. Orders(s) = <<m, n>>
    <3> HIDE DEF m, n
    <3>1. m \in Order /\ n \in Order
      BY <1>3 DEF m, n
    <3>2. <<m>> \o <<n>> = <<m, n>>
      <4>1. <<m>> \in Seq(Order)
        BY <3>1, OneMessage
      <4>2. Append(<<m>>, n) = <<m>> \o <<n>>
        BY <3>1, <4>1, AppendIsConcat
      <4>3. QED BY <3>1, <4>2, MessageAdded
    <3>3. <<m, n>> \in Seq(Order)
      BY <3>1, TwoMessages
    <3>4. TwoOrders(peer[s], out[s], m, n)
      BY <1>9 DEF m, n
    <3>5. QED BY <3>2, <3>3, <3>4, MessagesJoined DEF TwoOrders, Orders
  <2>2. m # n
    BY <1>3
  <2>3. Given = {2}
    <3>1. m \in Order /\ n \in Order
      BY <1>3
    <3> HIDE DEF m
    <3>2. DOMAIN Orders(s) = {1, 2} /\ Orders(s)[1] = m /\ Orders(s)[2] = n
      BY <2>1, <3>1, TwoMessages
    <3>3. QED BY <2>2, <3>2
  <2>4. Back = {}
    BY <1>7, <1>9
  <2> HIDE DEF Given, Back
  <2>5. QED BY <1>4, <1>5, <2>3, <2>4
<1>10. QED BY <1>1, <1>6, <1>8, <1>9 DEF AtWork

(* For any farm, whatever fails and is commanded: the assignment of a live *)
(* READY server is in exactly one place, its LINES still to be worked on   *)
(* or its PIXELS on their way back (task_server, rtsrv's WorkHead).        *)
THEOREM AssignmentsAreUnderWay == Spec => []AssignmentUnderWay
<1>1. FarmInv => AssignmentUnderWay
  BY InStepUnderWay DEF FarmInv
<1>2. QED BY <1>1, FarmInvariant, PTL

(* Only pixels that have come are written to a file.                       *)
LEMMA FileChanges ==
    ASSUME [Next]_vars, file' # file
    PROVE  \E s \in Slots : ph_pixels(s)
<1>1. CASE Receive
  BY <1>1 DEF Receive, ph_version, ph_dirbuild_reply, ph_gettrees_reply, cd_stop_go,
              cd_drop, cd_restart
<1>2. CASE ReceivedAll \/ select \/ SuckedAll \/ \E s \in Slots : suckin(s)
  BY <1>2 DEF ReceivedAll, select, SuckedAll, suckin, memory
<1>3. CASE AttendedAll \/ frame_is_done \/ ReapedAll \/ NothingWaits \/ PassEnds
  BY <1>3 DEF AttendedAll, frame_is_done, ReapedAll, NothingWaits, PassEnds, memory
<1>4. ASSUME NEW s \in Slots,
             \/ send_dirbuild(s) \/ final_close(s)
             \/ task_tardy(s) \/ task_none_left(s) \/ task_other_frame(s)
             \/ task_reserved(s) \/ task_gettrees(s) \/ task_lines(s) \/ task_dropped(s)
      PROVE  file' = file
  BY <1>4 DEF send_dirbuild, final_close, Attending, task_tardy, task_none_left,
              task_other_frame, task_reserved, task_gettrees, task_lines, task_dropped,
              Wants, Tasking
<1>5. ASSUME NEW s \in Slots,
             Worker(s) \/ crash(s) \/ hang(s) \/ slow(s) \/ hung_too_long(s)
      PROVE  file' = file
  BY <1>5 DEF Worker, rtsrv_main, rtsrv_receive, rtsrv_work, crash, hang, slow,
              hung_too_long, Elapse, memory
<1>6. CASE call \/ call_command \/ remrt_restarts \/ exited \/ UNCHANGED vars
  BY <1>6 DEF call, call_command, remrt_restarts, exited, vars, memory
<1>7. QED BY <1>1, <1>2, <1>3, <1>4, <1>5, <1>6 DEF Next, Dispatcher, CheckInput, Schedule

LEMMA ViewNext ==
    ASSUME FarmInv, NeedTree = Frames, RightView, [Next]_vars
    PROVE  RightView'
<1> SUFFICES ASSUME NEW f \in Frames, NEW p \in Pixels
             PROVE  file'[f][p] \in {0, f, Torn}
  BY DEF RightView
<1>1. file[f][p] \in {0, f, Torn} /\ TypeInv /\ ProtocolInv
  BY DEF RightView, FarmInv
<1>2. CASE file' = file
  BY <1>1, <1>2
<1>3. ASSUME NEW s \in Slots, ph_pixels(s), file' # file
      PROVE  file'[f][p] \in {0, f, Torn}
  <2> DEFINE w == srv[s].work
             view == Head(buf[s]).view
  <2>1. /\ Receiving(s, "PIXELS") /\ Listening(srv[s]) /\ Busy(srv[s])
        /\ FilePixels(s, w, view) \/ CannotWrite(s, w, view)
    BY <1>3 DEF ph_pixels, CannotOpen
  <2>2. view = w.frame
    BY <1>1, <2>1, PixelsOfWork DEF Matches, Busy
  <2>3. w \in Work /\ w.frame \in Frames /\ w.lo \in Int /\ w.hi \in Int
    BY <1>1, <2>1, SlotType, WorkNumbers DEF Busy, Server
  <2> HIDE DEF w, view
  <2>4. ASSUME NEW last
        PROVE  Painted(w, last, view)[f][p] \in {0, f, Torn}
    BY <1>1, <2>2, <2>3, PaintedAt
  <2>5. CASE FilePixels(s, w, view)
    BY <2>4, <2>5 DEF FilePixels
  <2>6. CASE CannotWrite(s, w, view)
    <3>1. PICK last \in w.lo - 1 .. w.hi - 1, part \in {0, Torn} :
             file' = Half(Painted(w, last, view), w, last, part)
      BY <2>6 DEF CannotWrite
    <3> DEFINE before == Painted(w, last, view)
    <3>2. before \in [Frames -> [Pixels -> 0 .. Torn]]
      <4>1. view \in 0 .. Torn
        BY <2>2, <2>3, SizesInNat DEF Frames, Torn
      <4>2. file \in [Frames -> [Pixels -> 0 .. Torn]]
        BY <1>1 DEF TypeInv, TypeOK, MemoryTypeOK
      <4>3. [q \in Pixels |-> IF q \in w.lo .. last THEN view ELSE file[w.frame][q]]
               \in [Pixels -> 0 .. Torn]
        BY <2>3, <4>1, <4>2
      <4>4. QED BY <2>3, <4>2, <4>3 DEF Painted
    <3>3. before[f][p] \in {0, f, Torn}
      BY <2>4
    <3>4. last \in Int
      BY <2>3, <3>1
    <3> HIDE DEF before
    <3>5. file'[f][p] = IF f = w.frame /\ p = last + 1 /\ before[f][p] = 0
                        THEN part ELSE before[f][p]
      BY <2>3, <3>1, <3>2, <3>4 DEF Half, before
    <3>6. QED BY <3>1, <3>3, <3>5
  <2>7. QED BY <2>1, <2>5, <2>6
<1>4. QED BY <1>2, <1>3, FileChanges

(* When every frame brings its trees, every pixel shows its own frame,     *)
(* whatever fails and is commanded: a worker renders with the grid of the  *)
(* last GETTREES, and that is the one of the frame it has lines of         *)
(* (ph_matrix, prepare and ph_lines of rtsrv.c; task_server).              *)
THEOREM ViewsAreRight ==
    ASSUME NeedTree = Frames
    PROVE  Spec => []RightView
<1>1. Init => RightView
  BY DEF Init, RightView
<1>2. FarmInv /\ RightView /\ [Next]_vars => RightView'
  BY ViewNext
<1>3. QED BY <1>1, <1>2, FarmInvariant, PTL DEF Spec

-----------------------------------------------------------------------------
(* 3.8. What is dropped is closed.                                         *)

OnlyStopGo == \A c \in Commands : c.cmd \in {"stop", "go"}

(* A server that is not polled will not be heard of again.                 *)
LeftAlone(v, p, b, w) ==
    v.state # "UNUSED" /\ ~v.polled => v.state = "CLOSING" /\ Settled(p, b, w)

Unheard == \A s \in Slots : LeftAlone(srv[s], peer[s], buf[s], wire[s])

Ready(s) == wire[s] # <<>> \/ peer[s].link # "open"

(* The buffers of the slots check_input is through with are empty, and     *)
(* what select has found readable holds something or has ended.            *)
Sweep ==
    /\ pc = "select" => \A s \in Slots : buf[s] = <<>>
    /\ pc = "suck" => \A s \in ifdset : buf[s] = <<>> /\ Ready(s)
    /\ pc \in {"first", "fifth"} => \A s \in Slots : s < sp => buf[s] = <<>>

LEMMA SettledStays ==
    ASSUME NEW v, NEW p, NEW b, NEW w, Settled(p, b, w), v.state = "CLOSING" \/ v.polled
    PROVE  LeftAlone(v, p, b, w)
BY DEF LeftAlone

LEMMA SlotIsLeftAlone ==
    ASSUME Unheard, NEW s \in Slots
    PROVE  LeftAlone(srv[s], peer[s], buf[s], wire[s])
BY DEF Unheard

LEMMA OneIsLeftAlone ==
    ASSUME Unheard, NEW s \in Slots, Elsewhere(s),
           LeftAlone(srv'[s], peer'[s], buf'[s], wire'[s])
    PROVE  Unheard'
<1>1. ASSUME NEW t \in Slots
      PROVE  LeftAlone(srv'[t], peer'[t], buf'[t], wire'[t])
  BY SlotIsLeftAlone DEF Elsewhere
<1>2. QED BY <1>1 DEF Unheard, LeftAlone, Settled, Unspoken

LEMMA NoneIsHeard ==
    ASSUME Unheard, UNCHANGED <<peer, buf, wire>>,
           \A t \in Slots : srv'[t].state = srv[t].state /\ srv'[t].polled = srv[t].polled
    PROVE  Unheard'
<1>1. ASSUME NEW t \in Slots
      PROVE  LeftAlone(srv'[t], peer'[t], buf'[t], wire'[t])
  BY SlotIsLeftAlone DEF LeftAlone
<1>2. QED BY <1>1 DEF Unheard, LeftAlone, Settled, Unspoken

(* A handler: the connection has been opened, whatever becomes of it.      *)
LEMMA HandledUnheard ==
    ASSUME TypeInv, ProtocolInv, Unheard, NEW s \in Slots, buf[s] # <<>>, Consume(s),
           NEW v, srv' = [srv EXCEPT ![s] = v],
           \/ v.state = "CLOSING" \/ v.polled
           \/ v.state = srv[s].state /\ v.polled = srv[s].polled
    PROVE  Unheard'
<1>1. /\ srv'[s] = v /\ buf'[s] = Tail(buf[s]) /\ UNCHANGED <<peer, wire>> /\ Elsewhere(s)
  BY DEF Consume, Elsewhere, TypeInv, TypeOK, MemoryTypeOK, NetTypeOK
<1>2. Settled(peer[s], Tail(buf[s]), wire[s])
  BY SlotType, SlotInStep, ConsumedSettles
<1>3. LeftAlone(v, peer[s], Tail(buf[s]), wire[s])
  BY <1>2, SlotIsLeftAlone DEF LeftAlone
<1>4. QED BY <1>1, <1>3, OneIsLeftAlone

LEMMA NoOtherCommand ==
    ASSUME TypeInv, OnlyStopGo, NEW s \in Slots, cd_drop(s) \/ cd_restart(s)
    PROVE  FALSE
<1>1. Receiving(s, "CMD") /\ Head(buf[s]).command.cmd \in {"drop", "restart"}
  BY DEF cd_drop, cd_restart
<1>2. Head(buf[s]).command \in Commands
  BY <1>1, ReceivingType DEF Report
<1>3. QED BY <1>1, <1>2 DEF OnlyStopGo

LEMMA ReceiveUnheard ==
    ASSUME TypeInv, ProtocolInv, Unheard, OnlyStopGo, Receive
    PROVE  Unheard'
<1>1. ASSUME NEW s \in Slots, NEW type, Receiving(s, type), Consume(s), Drop(s)
      PROVE  Unheard'
  <2>1. buf[s] # <<>> /\ Dropped(srv[s]).state = "CLOSING"
    BY <1>1, ReceivingType, SlotType, DroppedFields
  <2>2. QED BY <1>1, <2>1, HandledUnheard DEF Drop
<1>2. ASSUME NEW s \in Slots, NEW type, Receiving(s, type), Consume(s), NEW x,
             srv' = [srv EXCEPT ![s].state = x],
             srv[s].state # "CLOSING" \/ type = "VERSION"
      PROVE  Unheard'
  <2> DEFINE v == [srv[s] EXCEPT !.state = x]
  <2>1. buf[s] # <<>> /\ Head(buf[s]).type = type
    BY <1>2, ReceivingType
  <2>2. srv[s].state # "UNUSED"
    BY <2>1, SlotType, SlotInStep, ConsumedSettles
  <2>3. type = "VERSION" => Opens(buf[s])
    BY <2>1, SlotType, OpensHead
  <2>4. srv[s].polled
    BY <1>2, <2>2, <2>3, SlotIsLeftAlone DEF LeftAlone, Settled
  <2>5. v.polled
    BY <2>4, SlotType DEF Server
  <2>6. srv' = [srv EXCEPT ![s] = v]
    BY <1>2
  <2> HIDE DEF v
  <2>7. QED BY <1>2, <2>1, <2>5, <2>6, HandledUnheard
<1>3. ASSUME NEW s \in Slots, ph_version(s) PROVE Unheard'
  BY <1>1, <1>2, <1>3 DEF ph_version
<1>4. ASSUME NEW s \in Slots, ph_dirbuild_reply(s) \/ ph_gettrees_reply(s) PROVE Unheard'
  BY <1>1, <1>2, <1>4 DEF ph_dirbuild_reply, ph_gettrees_reply
<1>5. ASSUME NEW s \in Slots, ph_pixels(s) PROVE Unheard'
  <2>1. Receiving(s, "PIXELS") /\ Consume(s) /\ buf[s] # <<>>
    BY <1>5, ReceivingType DEF ph_pixels
  <2>2. ASSUME NEW v, v.state = srv[s].state, v.polled = srv[s].polled,
               srv' = [srv EXCEPT ![s] = v]
        PROVE  Unheard'
    BY <2>1, <2>2, HandledUnheard
  <2>3. CASE srv' = srv
    <3>1. srv' = [srv EXCEPT ![s] = srv[s]]
      BY <2>3 DEF TypeInv, TypeOK, MemoryTypeOK
    <3>2. QED BY <2>2, <3>1
  <2>4. CASE srv' = [srv EXCEPT ![s].work = NoWork, ![s].late = FALSE]
    <3> DEFINE v == [srv[s] EXCEPT !.work = NoWork, !.late = FALSE]
    <3>1. srv' = [srv EXCEPT ![s] = v]
      BY <2>4 DEF TypeInv, TypeOK, MemoryTypeOK
    <3>2. v.state = srv[s].state /\ v.polled = srv[s].polled
      BY SlotType DEF Server
    <3> HIDE DEF v
    <3>3. QED BY <2>2, <3>1, <3>2
  <2>5. QED BY <1>1, <1>5, <2>1, <2>3, <2>4 DEF ph_pixels, FilePixels, CannotOpen, CannotWrite
<1>6. ASSUME NEW s \in Slots, cd_stop_go(s) PROVE Unheard'
  BY <1>1, <1>6 DEF cd_stop_go
<1>7. ASSUME NEW s \in Slots, cd_drop(s) \/ cd_restart(s) PROVE FALSE
  BY <1>7, NoOtherCommand
<1>8. QED BY <1>3, <1>4, <1>5, <1>6, <1>7 DEF Receive

LEMMA CheckInputUnheard ==
    ASSUME TypeInv, ProtocolInv, Selected, Sweep, Unheard, OnlyStopGo, CheckInput
    PROVE  Unheard'
<1>1. CASE ReceivedAll \/ SuckedAll
  BY <1>1, NoneIsHeard DEF ReceivedAll, SuckedAll, memory, net
<1>2. CASE select
  <2>1. UNCHANGED <<wire, buf>>
    BY <1>2 DEF select
  <2>2. CASE UNCHANGED <<srv, peer>>
    BY <2>1, <2>2, NoneIsHeard
  <2>3. CASE backlog # "none" /\ Free # {}
    <3> DEFINE s == Min(Free)
               new == [Unused EXCEPT !.state = "NEW", !.polled = TRUE]
    <3>1. s \in Slots
      BY <2>3, MinOfNaturals DEF Free, Slots
    <3>2. srv' = [srv EXCEPT ![s] = new] /\ peer' = [peer EXCEPT ![s] = NewPeer(backlog)]
      BY <1>2, <2>3 DEF select
    <3>3. new.polled
      BY UnusedFields
    <3> HIDE DEF s, new
    <3>4. srv'[s] = new /\ \A t \in Slots \ {s} : srv'[t] = srv[t] /\ peer'[t] = peer[t]
      BY <3>1, <3>2 DEF TypeInv, TypeOK, MemoryTypeOK, NetTypeOK
    <3>5. ASSUME NEW t \in Slots
          PROVE  LeftAlone(srv'[t], peer'[t], buf'[t], wire'[t])
      BY <2>1, <3>3, <3>4, SlotIsLeftAlone DEF LeftAlone
    <3>6. QED BY <3>5 DEF Unheard, LeftAlone, Settled, Unspoken
  <2>4. QED BY <1>2, <2>2, <2>3 DEF select
<1>3. ASSUME NEW s \in Slots, suckin(s) PROVE Unheard'
  <2>1. peer' = peer
    BY <1>3 DEF suckin
  <2>2. CASE wire[s] # <<>>
    <3>1. /\ buf'[s] = buf[s] \o wire[s] /\ wire'[s] = <<>> /\ srv' = srv
          /\ \A t \in Slots \ {s} : buf'[t] = buf[t] /\ wire'[t] = wire[t]
      BY <1>3, <2>2 DEF suckin, TypeInv, TypeOK, NetTypeOK
    <3>2. LeftAlone(srv[s], peer[s], buf[s] \o wire[s], <<>>)
      BY SlotType, SlotIsLeftAlone, OpensBoth, OpensEmpty DEF LeftAlone, Settled
    <3>3. ASSUME NEW t \in Slots
          PROVE  LeftAlone(srv'[t], peer'[t], buf'[t], wire'[t])
      BY <2>1, <3>1, <3>2, SlotIsLeftAlone
    <3>4. QED BY <3>3 DEF Unheard, LeftAlone, Settled, Unspoken
  <2>3. CASE wire[s] = <<>>
    <3>1. srv' = [srv EXCEPT ![s] = Dropped(srv[s])] /\ UNCHANGED <<buf, wire>>
      BY <1>3, <2>3 DEF suckin, Drop
    <3>2. buf[s] = <<>> /\ peer[s].link # "open"
      BY <1>3, <2>3, IfdsetOfSuckin DEF Sweep, Ready
    <3>3. Settled(peer[s], buf[s], wire[s])
      BY <2>3, <3>2, OpensEmpty DEF Settled, Unspoken
    <3>4. ASSUME NEW t \in Slots
          PROVE  LeftAlone(srv'[t], peer'[t], buf'[t], wire'[t])
      <4>1. srv'[t] = IF t = s THEN Dropped(srv[s]) ELSE srv[t]
        BY <3>1 DEF TypeInv, TypeOK, MemoryTypeOK
      <4>2. Dropped(srv[s]).state = "CLOSING"
        BY SlotType, DroppedFields
      <4>3. QED BY <2>1, <3>1, <3>3, <4>1, <4>2, SlotIsLeftAlone, SettledStays
    <3>5. QED BY <3>4 DEF Unheard, LeftAlone, Settled, Unspoken
  <2>4. QED BY <2>2, <2>3
<1>4. QED BY <1>1, <1>2, <1>3, ReceiveUnheard DEF CheckInput

(* A message is sent to a server that has been heard of; if sending fails  *)
(* it is dropped.                                                          *)
LEMMA TransmittedUnheard ==
    ASSUME TypeInv, ProtocolInv, Unheard, NEW s \in Slots,
           NEW messages, Transmit(s, messages), UNCHANGED peer,
           srv[s].state \in {"VERSOK", "NEED_TREE", "READY"},
           NEW v, srv' = [srv EXCEPT ![s] = v], v.state = "CLOSING" \/ v.polled
    PROVE  Unheard'
<1>1. /\ srv'[s] = v /\ buf'[s] = buf[s] \o wire[s] /\ wire'[s] = <<>> /\ Elsewhere(s)
  BY DEF Transmit, Elsewhere, TypeInv, TypeOK, MemoryTypeOK, NetTypeOK
<1>2. Settled(peer[s], buf[s], wire[s])
  BY SlotType, SlotInStep, BusySettles
<1>3. Settled(peer[s], buf[s] \o wire[s], <<>>)
  BY <1>2, SlotType, OpensBoth, OpensEmpty DEF Settled
<1>4. LeftAlone(v, peer[s], buf[s] \o wire[s], <<>>)
  BY <1>3, SettledStays
<1>5. QED BY <1>1, <1>4, OneIsLeftAlone

LEMMA PolledAtWork ==
    ASSUME Unheard, NEW s \in Slots, srv[s].state \notin {"UNUSED", "CLOSING"}
    PROVE  srv[s].polled
BY SlotIsLeftAlone DEF LeftAlone

LEMMA ScheduleUnheard ==
    ASSUME TypeInv, ProtocolInv, Unheard, Schedule
    PROVE  Unheard'
<1>1. CASE AttendedAll \/ ReapedAll \/ NothingWaits \/ PassEnds
  BY <1>1, NoneIsHeard DEF AttendedAll, ReapedAll, NothingWaits, PassEnds, memory, net
<1>2. CASE frame_is_done
  <2>1. ASSUME NEW t \in Slots
        PROVE  srv'[t].state = srv[t].state /\ srv'[t].polled = srv[t].polled
    <3>1. srv'[t] \in {srv[t], [srv[t] EXCEPT !.cur = 0]}
      BY <1>2 DEF frame_is_done
    <3>2. QED BY <3>1, SlotType DEF Server
  <2>2. QED BY <1>2, <2>1, NoneIsHeard DEF frame_is_done, net
<1>3. ASSUME NEW s \in Slots,
             task_none_left(s) \/ task_other_frame(s) \/ task_reserved(s)
      PROVE  Unheard'
  BY <1>3, NoneIsHeard DEF task_none_left, task_other_frame, task_reserved, Wants, Tasking
<1>4. ASSUME NEW s \in Slots, final_close(s) PROVE Unheard'
  <2>1. srv'[s] = Unused /\ Elsewhere(s)
    BY <1>4 DEF final_close, Elsewhere, TypeInv, TypeOK, MemoryTypeOK, NetTypeOK
  <2>2. LeftAlone(srv'[s], peer'[s], buf'[s], wire'[s])
    BY <2>1, UnusedFields DEF LeftAlone
  <2>3. QED BY <2>1, <2>2, OneIsLeftAlone
<1>5. ASSUME NEW s \in Slots, task_tardy(s) PROVE Unheard'
  <2>1. srv' = [srv EXCEPT ![s] = Dropped(srv[s])] /\ UNCHANGED <<peer, out, buf, wire>>
    BY <1>5 DEF task_tardy, Tasking, Drop
  <2>2. srv[s].state \in {"NEED_TREE", "READY"}
    BY <1>5, HungryHolds DEF task_tardy, Holds
  <2>3. Settled(peer[s], buf[s], wire[s])
    BY <2>2, SlotType, SlotInStep, BusySettles
  <2>4. srv'[s] = Dropped(srv[s]) /\ Elsewhere(s)
    BY <2>1 DEF Elsewhere, TypeInv, TypeOK, MemoryTypeOK
  <2>5. LeftAlone(srv'[s], peer'[s], buf'[s], wire'[s])
    BY <2>1, <2>3, <2>4, SlotType, DroppedFields, SettledStays
  <2>6. QED BY <2>4, <2>5, OneIsLeftAlone
<1>6. ASSUME NEW s \in Slots, send_dirbuild(s) PROVE Unheard'
  <2>1. /\ Transmit(s, <<[type |-> "DIRBUILD"]>>) /\ UNCHANGED peer
        /\ srv[s].state = "VERSOK"
    BY <1>6 DEF send_dirbuild
  <2>2. [srv[s] EXCEPT !.state = "DOING_DIRBUILD"].polled
    BY <2>1, SlotType, PolledAtWork DEF Server
  <2>3. Dropped(srv[s]).state = "CLOSING"
    BY SlotType, DroppedFields
  <2>4. QED BY <1>6, <2>1, <2>2, <2>3, TransmittedUnheard DEF send_dirbuild, Drop
<1>7. ASSUME NEW s \in Slots, Wants(s)
      PROVE  /\ srv[s].state \in {"NEED_TREE", "READY"} /\ srv[s].polled
             /\ UNCHANGED peer /\ Dropped(srv[s]).state = "CLOSING"
  <2>1. srv[s].state \in {"NEED_TREE", "READY"} /\ UNCHANGED peer
    BY <1>7, WantingInStep
  <2>2. QED BY <2>1, PolledAtWork, SlotType, DroppedFields
<1>8. ASSUME NEW s \in Slots, task_gettrees(s) PROVE Unheard'
  <2>1. Wants(s) /\ Transmit(s, <<MATRIX, [type |-> "GETTREES"]>>)
    BY <1>8 DEF task_gettrees
  <2> DEFINE v == [srv[s] EXCEPT !.cur = fr, !.state = "DOING_GETTREES"]
  <2>2. v.polled
    BY <1>7, <2>1, SlotType DEF Server
  <2>3. srv' \in {[srv EXCEPT ![s] = v], [srv EXCEPT ![s] = Dropped(srv[s])]}
    BY <1>8 DEF task_gettrees, Drop, TypeInv, TypeOK, MemoryTypeOK
  <2> HIDE DEF v
  <2>4. QED BY <1>7, <2>1, <2>2, <2>3, TransmittedUnheard
<1>9. ASSUME NEW s \in Slots, task_lines(s) PROVE Unheard'
  <2> DEFINE Given(w) == [srv[s] EXCEPT !.cur = fr, !.work = w, !.late = FALSE]
  <2>1. Wants(s)
    BY <1>9 DEF task_lines
  <2>2. PICK lump \in Lumps :
          /\ \E messages : Transmit(s, messages)
          /\ srv' \in {[srv EXCEPT ![s] = Given(Portion(lump))],
                       [srv EXCEPT ![s] = Dropped(Given(Portion(lump)))]}
    BY <1>9 DEF task_lines
  <2> DEFINE v == Given(Portion(lump))
  <2>3. v \in Server /\ v.polled
    <3>1. Portion(lump) \in Work /\ fr \in 0 .. NFrames
      BY <2>1, TaskingFacts, PortionType, FrameNumbers DEF Wants
    <3>2. QED BY <1>7, <2>1, <3>1, SlotType DEF Server
  <2> HIDE DEF v
  <2>4. srv' \in {[srv EXCEPT ![s] = v], [srv EXCEPT ![s] = Dropped(v)]}
    BY <2>2 DEF v
  <2>5. QED BY <1>7, <2>1, <2>2, <2>3, <2>4, DroppedFields, TransmittedUnheard
<1>10. ASSUME NEW s \in Slots, task_dropped(s) PROVE Unheard'
  <2>1. Wants(s) /\ Transmit(s, <<>>)
    BY <1>10 DEF task_dropped
  <2>2. PICK w : srv' = [srv EXCEPT ![s] = [Dropped(srv[s]) EXCEPT !.work = w, !.late = FALSE]]
    BY <1>10 DEF task_dropped
  <2>3. [Dropped(srv[s]) EXCEPT !.work = w, !.late = FALSE].state = "CLOSING"
    BY SlotType, DroppedFields DEF Server
  <2>4. QED BY <1>7, <2>1, <2>2, <2>3, TransmittedUnheard
<1>11. QED BY <1>1, <1>2, <1>3, <1>4, <1>5, <1>6, <1>8, <1>9, <1>10 DEF Schedule

LEMMA AnswersOf ==
    ASSUME TypeInv, ProtocolInv, NEW s \in Slots, rtsrv_receive(s) \/ rtsrv_work(s)
    PROVE  Answers(s)
<1>1. CASE rtsrv_work(s)
  <2>1. peer[s].queue # <<>> /\ peer[s].link = "open"
    BY <1>1 DEF rtsrv_work, Awake
  <2>2. GivenUp(srv[s], peer[s], out[s], buf[s], wire[s])
    BY <2>1, SlotType, SlotInStep, MayGiveUp DEF InStep
  <2>3. ~Unspoken(peer[s])
    BY <2>1, <2>2 DEF GivenUp, Greeting, Settled
  <2>4. QED BY <1>1, <2>3, RtsrvWorkAnswers
<1>2. QED BY <1>1, RtsrvReceiveAnswers

LEMMA OutsideUnheard ==
    ASSUME TypeInv, ProtocolInv, Unheard, [Next]_vars, ~Dispatcher, ~remrt_restarts
    PROVE  Unheard'
<1>1. CASE UNCHANGED <<peer, buf, wire>>
  BY <1>1, OutsideGoes, NoneIsHeard
<1>2. ASSUME NEW s \in Slots, rtsrv_main(s) PROVE Unheard'
  <2>1. UNCHANGED <<srv, buf>> /\ Unspoken(peer[s])
    BY <1>2 DEF rtsrv_main, memory, Awake, Unspoken
  <2>2. \A t \in Slots \ {s} : peer'[t] = peer[t] /\ wire'[t] = wire[t]
    BY <1>2 DEF rtsrv_main, Reply, TypeInv, TypeOK, NetTypeOK
  <2>3. srv[s].state = "UNUSED" \/ srv[s].polled
    BY <2>1, SlotIsLeftAlone DEF LeftAlone, Settled
  <2>4. ASSUME NEW t \in Slots
        PROVE  LeftAlone(srv'[t], peer'[t], buf'[t], wire'[t])
    BY <2>1, <2>2, <2>3, SlotIsLeftAlone DEF LeftAlone
  <2>5. QED BY <2>4 DEF Unheard, LeftAlone, Settled, Unspoken
<1>3. ASSUME NEW s \in Slots, rtsrv_receive(s) \/ rtsrv_work(s) PROVE Unheard'
  <2>1. Answers(s)
    BY <1>3, AnswersOf
  <2>2. LeftAlone(srv'[s], peer'[s], buf'[s], wire'[s])
    BY <2>1, SlotType, SlotIsLeftAlone, OpensBoth DEF LeftAlone, Settled, Answers
  <2>3. QED BY <2>1, <2>2, OneIsLeftAlone DEF Answers
<1>4. ASSUME NEW s \in Slots, crash(s) PROVE Unheard'
  <2>1. /\ peer'[s] = Gone(peer[s]) /\ wire'[s] \in {wire[s], <<>>} /\ UNCHANGED <<srv, buf>>
        /\ \A t \in Slots \ {s} : peer'[t] = peer[t] /\ wire'[t] = wire[t]
    BY <1>4 DEF crash, memory, TypeInv, TypeOK, NetTypeOK
  <2>2. ~Unspoken(Gone(peer[s]))
    BY DEF Unspoken, Gone, NewPeer
  <2>3. LeftAlone(srv[s], peer'[s], buf[s], wire'[s])
    BY <2>1, <2>2, SlotIsLeftAlone, OpensEmpty DEF LeftAlone, Settled
  <2>4. ASSUME NEW t \in Slots
        PROVE  LeftAlone(srv'[t], peer'[t], buf'[t], wire'[t])
    BY <2>1, <2>3, SlotIsLeftAlone
  <2>5. QED BY <2>4 DEF Unheard, LeftAlone, Settled, Unspoken
<1>5. ASSUME NEW s \in Slots, hang(s) PROVE Unheard'
  <2>1. UNCHANGED <<srv, buf, wire>> /\ peer' = [peer EXCEPT ![s].hung = TRUE]
    BY <1>5 DEF hang, memory
  <2>2. ASSUME NEW t \in Slots PROVE Unspoken(peer'[t]) <=> Unspoken(peer[t])
    <3>1. peer'[t] \in {peer[t], [peer[t] EXCEPT !.hung = TRUE]}
      BY <2>1 DEF TypeInv, TypeOK, NetTypeOK
    <3>2. QED BY <3>1, SlotType DEF Unspoken, Peer
  <2>3. ASSUME NEW t \in Slots
        PROVE  LeftAlone(srv'[t], peer'[t], buf'[t], wire'[t])
    BY <2>1, <2>2, SlotIsLeftAlone DEF LeftAlone, Settled
  <2>4. QED BY <2>3 DEF Unheard, LeftAlone, Settled, Unspoken
<1>6. ASSUME NEW s \in Slots, slow(s) \/ hung_too_long(s) PROVE Unheard'
  BY <1>1, <1>6 DEF slow, hung_too_long, Elapse, net
<1>7. CASE call \/ call_command \/ exited \/ UNCHANGED vars
  BY <1>1, <1>7 DEF call, call_command, exited, vars, net
<1>8. QED BY <1>2, <1>3, <1>4, <1>5, <1>6, <1>7 DEF Next, Worker

LEMMA UnheardNext ==
    ASSUME FarmInv, Sweep, Unheard, OnlyStopGo, [Next]_vars
    PROVE  Unheard'
<1>1. CASE Dispatcher
  BY <1>1, CheckInputUnheard, ScheduleUnheard DEF Dispatcher, FarmInv
<1>2. CASE remrt_restarts
  <2>1. ASSUME NEW t \in Slots
        PROVE  LeftAlone(srv'[t], peer'[t], buf'[t], wire'[t])
    BY <1>2, UnusedFields DEF remrt_restarts, LeftAlone
  <2>2. QED BY <2>1 DEF Unheard, LeftAlone, Settled, Unspoken
<1>3. QED BY <1>1, <1>2, OutsideUnheard DEF FarmInv

(* Only the slot whose package is received has another buffer behind it.   *)
LEMMA ReceivedAt ==
    ASSUME TypeInv, OnlyStopGo, Receive
    PROVE  \E s \in Slots : /\ sp' = s /\ s = Min(Buffered) /\ s \in Buffered
                            /\ \A t \in Slots \ {s} : buf'[t] = buf[t]
<1>1. ASSUME NEW s \in Slots, NEW type, Receiving(s, type), Consume(s)
      PROVE  /\ sp' = s /\ s = Min(Buffered) /\ s \in Buffered
             /\ \A t \in Slots \ {s} : buf'[t] = buf[t]
  <2>1. Buffered \subseteq Nat /\ Buffered # {} /\ s = Min(Buffered) /\ sp' = s
    BY <1>1 DEF Receiving, Buffered, Slots
  <2>2. s \in Buffered
    BY <2>1, MinOfNaturals
  <2>3. QED BY <1>1, <2>1, <2>2 DEF Consume, TypeInv, TypeOK, NetTypeOK
<1>2. QED BY <1>1, NoOtherCommand DEF Receive, ph_version, ph_dirbuild_reply,
             ph_gettrees_reply, ph_pixels, cd_stop_go

LEMMA CheckInputSweeps ==
    ASSUME TypeInv, ProtocolInv, Sweep, OnlyStopGo, CheckInput
    PROVE  Sweep'
<1>1. CASE Receive
  <2>1. PICK s \in Slots : /\ sp' = s /\ s = Min(Buffered) /\ s \in Buffered
                           /\ \A t \in Slots \ {s} : buf'[t] = buf[t]
    BY <1>1, ReceivedAt
  <2>2. pc' = pc /\ pc \in {"first", "fifth"}
    BY <1>1, ReceiveGoes
  <2>3. ASSUME NEW t \in Slots, t < s PROVE buf'[t] = <<>>
    <3>1. Buffered \subseteq Nat
      BY DEF Buffered, Slots
    <3>2. t \notin Buffered
      <4>1. SUFFICES ASSUME t \in Buffered PROVE FALSE
        OBVIOUS
      <4>2. s <= t
        BY <2>1, <3>1, <4>1, MinOfNaturals
      <4>3. QED BY <2>3, <4>2 DEF Slots
    <3>3. sp \in Int
      BY DEF TypeInv, TypeOK, LoopTypeOK
    <3>4. buf[t] = <<>>
      BY <2>2, <3>2, <3>3 DEF Sweep, Buffered, Slots
    <3>5. QED BY <2>1, <2>3, <3>4 DEF Slots
  <2>4. QED BY <2>1, <2>2, <2>3 DEF Sweep
<1>2. CASE ReceivedAll
  <2>1. buf' = buf /\ pc' \in {"select", "sched"} /\ Buffered = {} /\ pc \in {"first", "fifth"}
    BY <1>2 DEF ReceivedAll, net
  <2>2. \A t \in Slots : buf[t] = <<>>
    <3>1. sp \in Int
      BY DEF TypeInv, TypeOK, LoopTypeOK
    <3>2. QED BY <2>1, <3>1 DEF Sweep, Buffered, Slots
  <2>3. QED BY <2>1, <2>2 DEF Sweep
<1>3. CASE select
  <2>1. /\ UNCHANGED <<buf, wire>> /\ \A t \in Slots : buf[t] = <<>>
        /\ ifdset' = Readable /\ pc' \in {"sched", "suck"}
    BY <1>3 DEF select, Sweep
  <2>2. ASSUME NEW t \in Readable PROVE t \in Slots /\ buf'[t] = <<>> /\ Ready(t)'
    <3>1. t \in Slots /\ srv[t].polled /\ (wire[t] # <<>> \/ peer[t].link = "shut")
      BY <2>2 DEF Readable
    <3>2. t \notin Free
      BY <3>1, SlotInStep, UnusedFields DEF Free, Occupied, InStep
    <3>3. Free # {} => Min(Free) \in Free
      BY MinOfNaturals DEF Free, Slots
    <3>4. peer'[t] = peer[t]
      BY <1>3, <3>1, <3>2, <3>3 DEF select, TypeInv, TypeOK, NetTypeOK
    <3>5. QED BY <2>1, <3>1, <3>4 DEF Ready
  <2>3. QED BY <2>1, <2>2 DEF Sweep
<1>4. ASSUME NEW s \in Slots, suckin(s) PROVE Sweep'
  <2>1. /\ pc = "suck" /\ pc' = "suck" /\ ifdset' = ifdset \ {s} /\ ifdset \subseteq Slots
    BY <1>4, IfdsetOfSuckin DEF TypeInv, TypeOK, LoopTypeOK
  <2>2. peer' = peer /\ \A t \in Slots \ {s} : buf'[t] = buf[t] /\ wire'[t] = wire[t]
    BY <1>4 DEF suckin, TypeInv, TypeOK, NetTypeOK
  <2>3. QED BY <2>1, <2>2 DEF Sweep, Ready
<1>5. CASE SuckedAll
  BY <1>5 DEF SuckedAll, Sweep, Slots
<1>6. QED BY <1>1, <1>2, <1>3, <1>4, <1>5 DEF CheckInput

(* The others only add to what there is to be read.                        *)
LEMMA ReadyStays ==
    ASSUME TypeInv, ProtocolInv, [Next]_vars, ~Dispatcher, ~remrt_restarts, NEW t \in Slots
    PROVE  buf' = buf /\ (Ready(t) => Ready(t)')
<1>1. CASE UNCHANGED net
  BY <1>1 DEF net, Ready
<1>2. ASSUME NEW s \in Slots, Worker(s)
      PROVE  buf' = buf /\ (Ready(t) => Ready(t)')
  <2>1. buf' = buf /\ peer[s].link = "open"
    BY <1>2 DEF Worker, rtsrv_main, rtsrv_receive, rtsrv_work, Awake
  <2>2. t # s => peer'[t] = peer[t] /\ wire'[t] = wire[t]
    BY <1>2 DEF Worker, rtsrv_main, rtsrv_receive, rtsrv_work, Reply, TypeInv, TypeOK, NetTypeOK
  <2>3. PICK q \in Seq(Report) : wire'[s] = wire[s] \o q
    <3>1. CASE rtsrv_main(s)
      <4>1. PICK m \in Report : Reply(s, <<m>>)
        BY <3>1 DEF rtsrv_main, Report
      <4>2. <<m>> \in Seq(Report) /\ wire'[s] = wire[s] \o <<m>>
        BY <4>1 DEF Reply, TypeInv, TypeOK, NetTypeOK
      <4>3. QED BY <4>2
    <3>2. CASE rtsrv_receive(s) \/ rtsrv_work(s)
      BY <3>2, AnswersOf DEF Answers
    <3>3. QED BY <1>2, <3>1, <3>2 DEF Worker
  <2>4. wire[s] # <<>> => wire'[s] # <<>>
    BY <2>3, SlotType, FirstStays
  <2>5. QED BY <2>1, <2>2, <2>4 DEF Ready
<1>3. ASSUME NEW s \in Slots, crash(s) \/ hang(s)
      PROVE  buf' = buf /\ (Ready(t) => Ready(t)')
  <2>1. buf' = buf /\ (wire'[t] = wire[t] \/ peer'[t].link = "shut")
    BY <1>3 DEF crash, hang, Gone, NewPeer, TypeInv, TypeOK, NetTypeOK
  <2>2. peer'[t].link \in {peer[t].link, "shut"}
    <3>1. peer'[t] \in {peer[t], Gone(peer[t]), [peer[t] EXCEPT !.hung = TRUE]}
      BY <1>3 DEF crash, hang, TypeInv, TypeOK, NetTypeOK
    <3>2. QED BY <3>1, SlotType DEF Peer, Gone, NewPeer
  <2>3. QED BY <2>1, <2>2 DEF Ready
<1>4. ASSUME NEW s \in Slots, slow(s) \/ hung_too_long(s) PROVE UNCHANGED net
  BY <1>4 DEF slow, hung_too_long, Elapse
<1>5. CASE call \/ call_command \/ exited \/ UNCHANGED vars
  BY <1>1, <1>5 DEF call, call_command, exited, vars
<1>6. QED BY <1>1, <1>2, <1>3, <1>4, <1>5 DEF Next

LEMMA SweepNext ==
    ASSUME FarmInv, Sweep, OnlyStopGo, [Next]_vars
    PROVE  Sweep'
<1>1. TypeInv /\ ProtocolInv /\ ifdset \subseteq Slots
  BY DEF FarmInv, TypeInv, TypeOK, LoopTypeOK
<1>2. CASE CheckInput
  BY <1>1, <1>2, CheckInputSweeps
<1>3. CASE Schedule
  BY <1>3, ScheduleGoes DEF GoesOn, Sweep, Slots
<1>4. CASE remrt_restarts
  BY <1>4 DEF remrt_restarts, Leave, AtRest, Sweep, Slots
<1>5. CASE ~Dispatcher /\ ~remrt_restarts
  <2>1. UNCHANGED loop
    BY <1>1, <1>5, OutsideGoes
  <2>2. \A t \in Slots : buf'[t] = buf[t] /\ (Ready(t) => Ready(t)')
    BY <1>1, <1>5, ReadyStays
  <2>3. QED BY <1>1, <2>1, <2>2 DEF Sweep, loop
<1>6. QED BY <1>2, <1>3, <1>4, <1>5 DEF Dispatcher

(* A slot that is no longer polled is one that the next final_close frees: *)
(* unless a drop or restart command names a server that has not spoken     *)
(* yet, nothing is heard of it again that would make it VERSOK             *)
(* (drop_server, ph_version and check_input of remrt.c).                   *)
THEOREM DroppedSlotsAreReclaimed ==
    ASSUME OnlyStopGo
    PROVE  Spec => []DroppedIsReclaimed
<1>1. Init => Sweep /\ Unheard
  <2> SUFFICES ASSUME Init PROVE Sweep /\ Unheard
    OBVIOUS
  <2>1. pc = "first" /\ \A s \in Slots : srv[s].state = "UNUSED" /\ buf[s] = <<>>
    BY UnusedFields DEF Init
  <2>2. QED BY <2>1 DEF Sweep, Unheard, LeftAlone
<1>2. FarmInv /\ Sweep /\ Unheard /\ [Next]_vars => Sweep' /\ Unheard'
  BY SweepNext, UnheardNext
<1>3. Unheard => DroppedIsReclaimed
  BY DEF Unheard, LeftAlone, DroppedIsReclaimed, Occupied
<1>4. QED BY <1>1, <1>2, <1>3, FarmInvariant, PTL DEF Spec

=============================================================================
