------------------------- MODULE TienetMasterProofs -------------------------
(***************************************************************************)
(* Proofs about the ADRT master, for every set of slaves, size of the      *)
(* buffer, number of tiles and script of requests.  The inductive          *)
(* invariant is built in layers:                                           *)
(*                                                                         *)
(*   Flow     the variables have their types, and the circular buffer is   *)
(*            a queue although push does not take send_mut                 *)
(*   Service  a slave has at most one unit, the one in its socket's work,  *)
(*            and is idle, or served, only when that one is back           *)
(*   Cover    a unit that has left the buffer is in some socket's work or  *)
(*            its result has come                                          *)
(*   Alone    without deaths: a request is answered when its units are     *)
(*            back, so that no unit is out between two requests            *)
(*   Awake,   without deaths: a slave that is not idle has something to    *)
(*   Told     do, and a broadcast waits only where a thread will deliver   *)
(*            it                                                           *)
(*                                                                         *)
(* Service needs that app alone marks slaves idle while units are sent     *)
(* (Quiet).  net wakes slaves too, when a shot line is back; Alone shows   *)
(* that nothing is out then, and without shot lines it never does.         *)
(***************************************************************************)
EXTENDS TienetMaster, SequenceTheorems, FiniteSetTheorems, TLAPS

Posts == {"app", "net"}

AppPlaces == {"next", "push", "dead", "wake", "pushed", "reply", "over", "crashed"}
             \cup InSendWork

NetPlaces == {"select", "callback", "wake", "post", "check", "end_check", "done"}
             \cup InSendWork

MainPlaces == {"wait", "shutdown", "wait_out", "finished"}

-----------------------------------------------------------------------------
(* Types.                                                                  *)

RequestsType == request \in 0 .. Len(Script) /\ tile \in Nat

PlacesType ==
    /\ pc \in [Threads -> AppPlaces \cup NetPlaces \cup MainPlaces]
    /\ pc["app"] \in AppPlaces /\ pc["net"] \in NetPlaces /\ pc["main"] \in MainPlaces

ThreadsType ==
    /\ sock \in [Posts -> Slaves \cup {None}]
    /\ back \in [Posts -> {"wake", "callback"}] /\ back["app"] = "wake"
    /\ todo \in [Posts -> SUBSET Slaves]
    /\ \A th \in Posts : pc[th] \in InSendWork => sock[th] \in Slaves

RingType ==
    /\ buffer \in [0 .. Size - 1 -> Units \cup {None}]
    /\ pos_fill \in 0 .. Size - 1 /\ pos_read \in 0 .. Size - 1
    /\ sem_fill \in Nat /\ sem_read \in Nat
    /\ pushed \in Seq(Units) /\ taken \in Nat

EndsType ==
    /\ sem_app \in Nat /\ sem_shutdown \in Nat /\ sem_out \in Nat
    /\ endflag \in BOOLEAN /\ shutdown_state \in BOOLEAN /\ halt_networking \in BOOLEAN
    /\ send_mut \in Posts \cup {None}

SocketsType ==
    /\ list \in SUBSET Slaves /\ dead \in Seq(Slaves)
    /\ idle \in [Slaves -> BOOLEAN] /\ mesg \in [Slaves -> BOOLEAN]
    /\ work \in [Slaves -> Units \cup {None}]

SlavesType ==
    /\ state \in [Slaves -> {"out", "up", "gone"}]
    /\ inbox \in [Slaves -> Seq(Units \cup {MESG, COMPLETE})]
    /\ outbox \in [Slaves -> Seq(Units)]
    /\ computed \in [Units -> Nat]

FramesType ==
    /\ result \in Units \cup {None}
    /\ frame_sem \in Nat /\ frame_ind \in Nat
    /\ image \in [Tiles -> 0 .. Len(Script)] /\ seen \in SUBSET Units

TypeInv ==
    /\ setup \in Setups
    /\ RequestsType /\ PlacesType /\ ThreadsType /\ RingType /\ EndsType
    /\ SocketsType /\ SlavesType /\ FramesType

-----------------------------------------------------------------------------
(* The ring.                                                               *)

Wrap(a) == IF a < Size THEN a ELSE a - Size

Taking == IF \E th \in Posts : pc[th] = "taking" THEN 1 ELSE 0

(* Places of the buffer that hold a unit.                                  *)
Left == sem_read + Taking

Mutex == \A th \in Posts : pc[th] \in {"taking", "resting"} => send_mut = th

Ring ==
    /\ sem_fill + Left = Size
    /\ taken + Left = Len(pushed)
    /\ pos_fill = Wrap(pos_read + Left)
    /\ \A k \in 1 .. Left : buffer[Wrap(pos_read + k - 1)] = pushed[taken + k]

LEMMA SetupFacts ==
    ASSUME TypeInv
    PROVE  /\ Size \in Nat \ {0} /\ setup.tile_num \in Nat \ {0}
           /\ Script \in Seq(Requests) /\ Len(Script) \in Nat
           /\ DOMAIN Script = 1 .. Len(Script)
           /\ Units = (1 .. Len(Script)) \X Tiles
           /\ setup.deaths \in Nat
<1>1. setup \in SetupType
  BY SetupAssumption DEF TypeInv
<1>2. Script \in Seq(Requests)
  BY <1>1 DEF SetupType, Script
<1>3. DOMAIN Script = 1 .. Len(Script) /\ Len(Script) \in Nat
  BY <1>2, LenProperties
<1>4. QED BY <1>1, <1>2, <1>3 DEF SetupType, Size, Units

LEMMA Fixed ==
    ASSUME setup' = setup
    PROVE  /\ Size' = Size /\ Script' = Script /\ Tiles' = Tiles /\ Units' = Units
           /\ NoDeaths' = NoDeaths /\ OneWaker' = OneWaker
BY DEF Size, Script, Tiles, Units, NoDeaths, OneWaker

LEMMA SetupFixed ==
    ASSUME [Next]_vars
    PROVE  setup' = setup
BY DEF Next, vars, requests, app, listener, main, send_work, WakeIdle,
       SendRefused, SendMessage, LookForWork, TakeWork, EnterIdle,
       NextRequest, NoMoreRequests, Push, Requeue, NoneDead, RequestSent, Reply,
       Receive, Bury, Accept, Callback, PostFrame, NoneOut, NothingLeft, Halt,
       Wait, Shutdown, Close, Slave, Die

LEMMA Kinds ==
    ASSUME TypeInv
    PROVE
    /\ None \notin Units /\ None \notin Slaves /\ None \notin Posts
    /\ MESG \notin Units /\ COMPLETE \notin Units /\ MESG # COMPLETE
<1>1. \A u \in Units : u \in Nat \X Nat
  BY SetupFacts DEF Tiles
<1>2. QED BY <1>1, NoneAssumption DEF Posts, MESG, COMPLETE

-----------------------------------------------------------------------------
(* Every variable keeps its type.                                          *)

LEMMA TypeStill ==
    ASSUME TypeInv, setup' = setup
    PROVE  /\ Size' = Size /\ Script' = Script /\ Tiles' = Tiles /\ Units' = Units
           /\ setup' \in Setups
           /\ UNCHANGED requests => RequestsType'
           /\ UNCHANGED <<pc, threads>> => PlacesType' /\ ThreadsType'
           /\ UNCHANGED ring => RingType'
           /\ UNCHANGED <<sem_out, ends, send_mut>> => EndsType'
           /\ UNCHANGED sockets => SocketsType'
           /\ UNCHANGED slaves => SlavesType'
           /\ UNCHANGED <<result, frames>> => FramesType'
<1>1. Size' = Size /\ Script' = Script /\ Tiles' = Tiles /\ Units' = Units
  BY Fixed
<1>2. UNCHANGED requests => RequestsType'
  BY <1>1 DEF TypeInv, RequestsType, requests
<1>3. UNCHANGED <<pc, threads>> => PlacesType' /\ ThreadsType'
  BY DEF TypeInv, PlacesType, ThreadsType, threads
<1>4. UNCHANGED ring => RingType'
  BY <1>1 DEF TypeInv, RingType, ring
<1>5. UNCHANGED <<sem_out, ends, send_mut>> => EndsType'
  BY DEF TypeInv, EndsType, ends
<1>6. UNCHANGED sockets => SocketsType'
  BY <1>1 DEF TypeInv, SocketsType, sockets
<1>7. UNCHANGED slaves => SlavesType'
  BY <1>1 DEF TypeInv, SlavesType, slaves
<1>8. UNCHANGED <<result, frames>> => FramesType'
  BY <1>1 DEF TypeInv, FramesType, frames
<1>9. QED BY <1>1, <1>2, <1>3, <1>4, <1>5, <1>6, <1>7, <1>8 DEF TypeInv

LEMMA SentType ==
    ASSUME TypeInv, NEW s \in Slaves, NEW what \in Units \cup {MESG, COMPLETE},
           Sent(s, what)
    PROVE  inbox' \in [Slaves -> Seq(Units \cup {MESG, COMPLETE})]
<1> DEFINE T == Units \cup {MESG, COMPLETE}
<1>1. inbox \in [Slaves -> Seq(T)] /\ what \in T
  BY DEF TypeInv, SlavesType
<1> HIDE DEF T
<1>2. Append(inbox[s], what) \in Seq(T)
  BY <1>1, AppendProperties
<1>3. inbox' \in [Slaves -> Seq(T)]
  BY <1>1, <1>2 DEF Sent
<1>4. QED BY <1>3 DEF T

LEMMA FillType ==
    ASSUME TypeInv, setup' = setup, NEW u \in Units, Fill(u)
    PROVE  RingType'
<1>1. Size' = Size /\ Units' = Units /\ Size \in Nat \ {0}
  BY Fixed, SetupFacts
<1>2. pushed' \in Seq(Units)
  BY AppendProperties DEF Fill, TypeInv, RingType
<1>3. buffer' \in [0 .. Size - 1 -> Units \cup {None}]
  BY DEF Fill, TypeInv, RingType
<1>4. (pos_fill + 1) % Size \in 0 .. Size - 1
  BY <1>1 DEF TypeInv, RingType
<1>5. QED BY <1>1, <1>2, <1>3, <1>4 DEF Fill, TypeInv, RingType

LEMMA TakenIsUnit ==
    ASSUME TypeInv, Ring, NEW th \in Posts, pc[th] = "taking"
    PROVE  sock[th] \in Slaves /\ buffer[pos_read] \in Units /\ Left \in Nat \ {0}
           /\ buffer[pos_read] = pushed[taken + 1] /\ taken + 1 \in 1 .. Len(pushed)
<1>1. sock[th] \in Slaves
  BY DEF TypeInv, ThreadsType, InSendWork
<1>2. Left \in Nat \ {0} /\ 1 \in 1 .. Left
  BY DEF Left, Taking, TypeInv, RingType
<1>3. Wrap(pos_read + 1 - 1) = pos_read
  BY SetupFacts DEF Wrap, TypeInv, RingType
<1>4. buffer[pos_read] = pushed[taken + 1]
  BY <1>2, <1>3 DEF Ring
<1>5. taken + 1 \in 1 .. Len(pushed)
  BY <1>2, LenProperties DEF Ring, TypeInv, RingType
<1>6. pushed[taken + 1] \in Units
  BY <1>5, ElementOfSeq DEF TypeInv, RingType
<1>7. QED BY <1>1, <1>2, <1>4, <1>5, <1>6

(* The tile that is pushed next is one of the request.                     *)
Pushing ==
    /\ pc["app"] \in {"push", "dead", "wake", "pushed", "reply"} \cup InSendWork => request > 0
    /\ pc["app"] = "push" => tile < setup.tile_num

LEMMA UnitPushed ==
    ASSUME TypeInv, Pushing, Push
    PROVE  <<request, tile + 1>> \in Units
BY SetupFacts DEF Push, At, Pushing, TypeInv, RequestsType, Tiles

LEMMA TypeSendRefused ==
    ASSUME TypeInv, NEW th \in Posts, SendRefused(th)
    PROVE  TypeInv'
<1>1. setup' = setup
  BY DEF SendRefused, requests
<1>2. Size' = Size /\ Script' = Script /\ Tiles' = Tiles /\ Units' = Units
  BY <1>1, Fixed
<1>3. PlacesType' /\ ThreadsType'
  BY DEF SendRefused, At, AppPlaces, NetPlaces, MainPlaces, InSendWork, Posts,
       Threads,
         threads, TypeInv, PlacesType, ThreadsType
<1>4. EndsType'
  BY <1>2, SetupFacts DEF SendRefused, At, AppPlaces, NetPlaces, MainPlaces,
       InSendWork, Posts, Threads,
         requests, threads, ring, ends, sockets, slaves, frames, TypeInv, EndsType
<1>5. QED BY <1>1, <1>3, <1>4, TypeStill
      DEF SendRefused, requests, threads, ring, ends, sockets, slaves, frames,
          TypeInv

LEMMA TypeSendMessage ==
    ASSUME TypeInv, NEW th \in Posts, SendMessage(th)
    PROVE  TypeInv'
<1>1. setup' = setup
  BY DEF SendMessage, requests
<1>2. Size' = Size /\ Script' = Script /\ Tiles' = Tiles /\ Units' = Units
  BY <1>1, Fixed
<1>3. PlacesType' /\ ThreadsType'
  BY DEF SendMessage, Sent, At, AppPlaces, NetPlaces, MainPlaces, InSendWork,
       Posts, Threads,
         threads, TypeInv, PlacesType, ThreadsType
<1>4. SocketsType'
  BY <1>2, SetupFacts DEF SendMessage, Sent, At, AppPlaces, NetPlaces, MainPlaces,
       InSendWork, Posts, Threads,
         requests, threads, ring, ends, sockets, slaves, frames, TypeInv,
         SocketsType
<1>5. SlavesType'
  <2>1. sock[th] \in Slaves
    BY DEF SendMessage, At, TypeInv, ThreadsType, InSendWork
  <2>2. inbox' \in [Slaves -> Seq(Units \cup {MESG, COMPLETE})]
    BY <2>1, SentType DEF SendMessage
  <2>3. QED BY <1>2, <2>2 DEF SendMessage, TypeInv, SlavesType
<1>6. QED BY <1>1, <1>3, <1>4, <1>5, TypeStill
      DEF SendMessage, requests, threads, ring, ends, sockets, slaves, frames,
          TypeInv

LEMMA TypeLookForWork ==
    ASSUME TypeInv, NEW th \in Posts, LookForWork(th)
    PROVE  TypeInv'
<1>1. setup' = setup
  BY DEF LookForWork, requests
<1>2. Size' = Size /\ Script' = Script /\ Tiles' = Tiles /\ Units' = Units
  BY <1>1, Fixed
<1>3. PlacesType' /\ ThreadsType'
  BY DEF LookForWork, At, AppPlaces, NetPlaces, MainPlaces, InSendWork, Posts,
       Threads,
         threads, TypeInv, PlacesType, ThreadsType
<1>4. RingType'
  BY <1>2, SetupFacts DEF LookForWork, At, AppPlaces, NetPlaces, MainPlaces,
       InSendWork, Posts, Threads,
         requests, threads, ring, ends, sockets, slaves, frames, TypeInv, RingType
<1>5. EndsType'
  BY <1>2, SetupFacts DEF LookForWork, At, AppPlaces, NetPlaces, MainPlaces,
       InSendWork, Posts, Threads,
         requests, threads, ring, ends, sockets, slaves, frames, TypeInv, EndsType
<1>6. SocketsType'
  BY <1>2, SetupFacts DEF LookForWork, At, AppPlaces, NetPlaces, MainPlaces,
       InSendWork, Posts, Threads,
         requests, threads, ring, ends, sockets, slaves, frames, TypeInv,
         SocketsType
<1>7. QED BY <1>1, <1>3, <1>4, <1>5, <1>6, TypeStill
      DEF LookForWork, requests, threads, ring, ends, sockets, slaves, frames,
          TypeInv

LEMMA TypeTakeWork ==
    ASSUME TypeInv, Ring, NEW th \in Posts, TakeWork(th)
    PROVE  TypeInv'
<1>1. setup' = setup
  BY DEF TakeWork, requests
<1>2. Size' = Size /\ Script' = Script /\ Tiles' = Tiles /\ Units' = Units
  BY <1>1, Fixed
<1>3. PlacesType' /\ ThreadsType'
  BY DEF TakeWork, Sent, At, AppPlaces, NetPlaces, MainPlaces, InSendWork, Posts,
       Threads,
         threads, TypeInv, PlacesType, ThreadsType
<1>4. RingType'
  BY <1>2, SetupFacts DEF TakeWork, Sent, At, AppPlaces, NetPlaces, MainPlaces,
       InSendWork, Posts, Threads,
         requests, threads, ring, ends, sockets, slaves, frames, TypeInv, RingType
<1>5. EndsType'
  BY <1>2, SetupFacts DEF TakeWork, Sent, At, AppPlaces, NetPlaces, MainPlaces,
       InSendWork, Posts, Threads,
         requests, threads, ring, ends, sockets, slaves, frames, TypeInv, EndsType
<1>6. SocketsType'
  <2>1. sock[th] \in Slaves /\ buffer[pos_read] \in Units
    BY TakenIsUnit DEF TakeWork, At
  <2>2. QED BY <1>2, <2>1 DEF TakeWork, TypeInv, SocketsType
<1>7. SlavesType'
  <2>1. sock[th] \in Slaves /\ buffer[pos_read] \in Units
    BY TakenIsUnit DEF TakeWork, At
  <2>2. inbox' \in [Slaves -> Seq(Units \cup {MESG, COMPLETE})]
    BY <2>1, SentType DEF TakeWork
  <2>3. QED BY <1>2, <2>2 DEF TakeWork, TypeInv, SlavesType
<1>8. QED BY <1>1, <1>3, <1>4, <1>5, <1>6, <1>7, TypeStill
      DEF TakeWork, requests, threads, ring, ends, sockets, slaves, frames, TypeInv

LEMMA TypeEnterIdle ==
    ASSUME TypeInv, NEW th \in Posts, EnterIdle(th)
    PROVE  TypeInv'
<1>1. setup' = setup
  BY DEF EnterIdle, requests
<1>2. Size' = Size /\ Script' = Script /\ Tiles' = Tiles /\ Units' = Units
  BY <1>1, Fixed
<1>3. PlacesType' /\ ThreadsType'
  BY DEF EnterIdle, At, AppPlaces, NetPlaces, MainPlaces, InSendWork, Posts,
       Threads,
         threads, TypeInv, PlacesType, ThreadsType
<1>4. EndsType'
  BY <1>2, SetupFacts DEF EnterIdle, At, AppPlaces, NetPlaces, MainPlaces,
       InSendWork, Posts, Threads,
         requests, threads, ring, ends, sockets, slaves, frames, TypeInv, EndsType
<1>5. SocketsType'
  BY <1>2, SetupFacts DEF EnterIdle, At, AppPlaces, NetPlaces, MainPlaces,
       InSendWork, Posts, Threads,
         requests, threads, ring, ends, sockets, slaves, frames, TypeInv,
         SocketsType
<1>6. QED BY <1>1, <1>3, <1>4, <1>5, TypeStill
      DEF EnterIdle, requests, threads, ring, ends, sockets, slaves, frames, TypeInv

LEMMA TypeNextRequest ==
    ASSUME TypeInv, NextRequest
    PROVE  TypeInv'
<1>1. setup' = setup
  BY DEF NextRequest, requests
<1>2. Size' = Size /\ Script' = Script /\ Tiles' = Tiles /\ Units' = Units
  BY <1>1, Fixed
<1>3. PlacesType' /\ ThreadsType'
  BY DEF NextRequest, Post, At, AppPlaces, NetPlaces, MainPlaces, InSendWork,
       Posts, Threads,
         threads, TypeInv, PlacesType, ThreadsType, SocketsType
<1>4. RequestsType'
  BY <1>2, SetupFacts DEF NextRequest, Post, At, AppPlaces, NetPlaces, MainPlaces,
       InSendWork, Posts, Threads,
         requests, threads, ring, ends, sockets, slaves, frames, TypeInv,
         RequestsType
<1>5. EndsType'
  BY <1>2, SetupFacts DEF NextRequest, Post, At, AppPlaces, NetPlaces, MainPlaces,
       InSendWork, Posts, Threads,
         requests, threads, ring, ends, sockets, slaves, frames, TypeInv, EndsType
<1>6. SocketsType'
  BY <1>2, SetupFacts DEF NextRequest, Post, At, AppPlaces, NetPlaces, MainPlaces,
       InSendWork, Posts, Threads,
         requests, threads, ring, ends, sockets, slaves, frames, TypeInv,
         SocketsType
<1>7. QED BY <1>1, <1>3, <1>4, <1>5, <1>6, TypeStill
      DEF NextRequest, requests, threads, ring, ends, sockets, slaves, frames,
          TypeInv

LEMMA TypeNoMoreRequests ==
    ASSUME TypeInv, NoMoreRequests
    PROVE  TypeInv'
<1>1. setup' = setup
  BY DEF NoMoreRequests, requests
<1>2. Size' = Size /\ Script' = Script /\ Tiles' = Tiles /\ Units' = Units
  BY <1>1, Fixed
<1>3. PlacesType' /\ ThreadsType'
  BY DEF NoMoreRequests, At, AppPlaces, NetPlaces, MainPlaces, InSendWork, Posts,
       Threads,
         threads, TypeInv, PlacesType, ThreadsType
<1>4. QED BY <1>1, <1>3, TypeStill
      DEF NoMoreRequests, requests, threads, ring, ends, sockets, slaves, frames,
          TypeInv

LEMMA TypePush ==
    ASSUME TypeInv, Pushing, Push
    PROVE  TypeInv'
<1>1. setup' = setup
  BY DEF Push, requests
<1>2. Size' = Size /\ Script' = Script /\ Tiles' = Tiles /\ Units' = Units
  BY <1>1, Fixed
<1>3. PlacesType' /\ ThreadsType'
  BY DEF Push, Fill, At, AppPlaces, NetPlaces, MainPlaces, InSendWork, Posts,
       Threads,
         threads, TypeInv, PlacesType, ThreadsType
<1>4. RequestsType'
  BY <1>2, SetupFacts DEF Push, Fill, At, AppPlaces, NetPlaces, MainPlaces,
       InSendWork, Posts, Threads,
         requests, threads, ring, ends, sockets, slaves, frames, TypeInv,
         RequestsType
<1>5. RingType'
  <2>1. <<request, tile + 1>> \in Units
    BY UnitPushed
  <2>2. QED BY <1>1, <2>1, FillType DEF Push
<1>6. QED BY <1>1, <1>3, <1>4, <1>5, TypeStill
      DEF Push, requests, threads, ring, ends, sockets, slaves, frames, TypeInv

LEMMA TypeRequeue ==
    ASSUME TypeInv, Requeue
    PROVE  TypeInv'
<1>1. setup' = setup
  BY DEF Requeue, requests
<1>2. Size' = Size /\ Script' = Script /\ Tiles' = Tiles /\ Units' = Units
  BY <1>1, Fixed
<1>3. PlacesType' /\ ThreadsType'
  BY DEF Requeue, Fill, At, AppPlaces, NetPlaces, MainPlaces, InSendWork, Posts,
       Threads,
         threads, TypeInv, PlacesType, ThreadsType
<1>4. RingType'
  <2>1. Head(dead) \in Slaves
    BY HeadTailProperties DEF Requeue, TypeInv, SocketsType
  <2>2. CASE work[Head(dead)] = None
    BY <1>1, <2>2, TypeStill DEF Requeue
  <2>3. CASE work[Head(dead)] # None
    BY <1>1, <2>1, <2>3, FillType DEF Requeue, TypeInv, SocketsType
  <2>4. QED BY <2>2, <2>3
<1>5. SocketsType'
  <2>1. Head(dead) \in Slaves /\ Tail(dead) \in Seq(Slaves)
    BY HeadTailProperties DEF Requeue, TypeInv, SocketsType
  <2>2. QED BY <1>2, <2>1 DEF Requeue, TypeInv, SocketsType
<1>6. QED BY <1>1, <1>3, <1>4, <1>5, TypeStill
      DEF Requeue, requests, threads, ring, ends, sockets, slaves, frames, TypeInv

LEMMA TypeNoneDead ==
    ASSUME TypeInv, NoneDead
    PROVE  TypeInv'
<1>1. setup' = setup
  BY DEF NoneDead, requests
<1>2. Size' = Size /\ Script' = Script /\ Tiles' = Tiles /\ Units' = Units
  BY <1>1, Fixed
<1>3. PlacesType' /\ ThreadsType'
  BY DEF NoneDead, At, AppPlaces, NetPlaces, MainPlaces, InSendWork, Posts, Threads,
         threads, TypeInv, PlacesType, ThreadsType, SocketsType
<1>4. QED BY <1>1, <1>3, TypeStill
      DEF NoneDead, requests, threads, ring, ends, sockets, slaves, frames, TypeInv

LEMMA TypeRequestSent ==
    ASSUME TypeInv, RequestSent
    PROVE  TypeInv'
<1>1. setup' = setup
  BY DEF RequestSent, requests
<1>2. Size' = Size /\ Script' = Script /\ Tiles' = Tiles /\ Units' = Units
  BY <1>1, Fixed
<1>3. PlacesType' /\ ThreadsType'
  BY DEF RequestSent, At, AppPlaces, NetPlaces, MainPlaces, InSendWork, Posts,
       Threads,
         threads, TypeInv, PlacesType, ThreadsType
<1>4. EndsType'
  BY <1>2, SetupFacts DEF RequestSent, At, AppPlaces, NetPlaces, MainPlaces,
       InSendWork, Posts, Threads,
         requests, threads, ring, ends, sockets, slaves, frames, TypeInv, EndsType
<1>5. FramesType'
  BY <1>2, SetupFacts DEF RequestSent, At, AppPlaces, NetPlaces, MainPlaces,
       InSendWork, Posts, Threads,
         requests, threads, ring, ends, sockets, slaves, frames, TypeInv, FramesType
<1>6. QED BY <1>1, <1>3, <1>4, <1>5, TypeStill
      DEF RequestSent, requests, threads, ring, ends, sockets, slaves, frames,
          TypeInv

LEMMA TypeReply ==
    ASSUME TypeInv, Reply
    PROVE  TypeInv'
<1>1. setup' = setup
  BY DEF Reply, requests
<1>2. Size' = Size /\ Script' = Script /\ Tiles' = Tiles /\ Units' = Units
  BY <1>1, Fixed
<1>3. PlacesType' /\ ThreadsType'
  BY DEF Reply, At, AppPlaces, NetPlaces, MainPlaces, InSendWork, Posts, Threads,
         threads, TypeInv, PlacesType, ThreadsType
<1>4. FramesType'
  BY <1>2, SetupFacts DEF Reply, At, AppPlaces, NetPlaces, MainPlaces, InSendWork,
       Posts, Threads,
         requests, threads, ring, ends, sockets, slaves, frames, TypeInv, FramesType
<1>5. QED BY <1>1, <1>3, <1>4, TypeStill
      DEF Reply, requests, threads, ring, ends, sockets, slaves, frames, TypeInv

LEMMA TypeReceive ==
    ASSUME TypeInv, NEW s \in Slaves, Receive(s)
    PROVE  TypeInv'
<1>1. setup' = setup
  BY DEF Receive, requests
<1>2. Size' = Size /\ Script' = Script /\ Tiles' = Tiles /\ Units' = Units
  BY <1>1, Fixed
<1>3. PlacesType' /\ ThreadsType'
  BY DEF Receive, At, AppPlaces, NetPlaces, MainPlaces, InSendWork, Posts, Threads,
         threads, TypeInv, PlacesType, ThreadsType
<1>4. EndsType'
  BY <1>2, SetupFacts DEF Receive, At, AppPlaces, NetPlaces, MainPlaces,
       InSendWork, Posts, Threads,
         requests, threads, ring, ends, sockets, slaves, frames, TypeInv, EndsType
<1>5. SlavesType'
  <2>1. Tail(outbox[s]) \in Seq(Units)
    BY HeadTailProperties DEF Receive, TypeInv, SlavesType
  <2>2. QED BY <1>2, <2>1 DEF Receive, TypeInv, SlavesType
<1>6. FramesType'
  <2>1. Head(outbox[s]) \in Units
    BY HeadTailProperties DEF Receive, TypeInv, SlavesType
  <2>2. QED BY <1>2, <2>1 DEF Receive, TypeInv, FramesType, frames
<1>7. QED BY <1>1, <1>3, <1>4, <1>5, <1>6, TypeStill
      DEF Receive, requests, threads, ring, ends, sockets, slaves, frames, TypeInv

LEMMA TypeBury ==
    ASSUME TypeInv, NEW s \in Slaves, Bury(s)
    PROVE  TypeInv'
<1>1. setup' = setup
  BY DEF Bury, requests
<1>2. Size' = Size /\ Script' = Script /\ Tiles' = Tiles /\ Units' = Units
  BY <1>1, Fixed
<1>3. PlacesType' /\ ThreadsType'
  BY DEF Bury, At, AppPlaces, NetPlaces, MainPlaces, InSendWork, Posts, Threads,
         threads, TypeInv, PlacesType, ThreadsType
<1>4. SocketsType'
  BY <1>2, SetupFacts DEF Bury, At, AppPlaces, NetPlaces, MainPlaces, InSendWork,
       Posts, Threads,
         requests, threads, ring, ends, sockets, slaves, frames, TypeInv,
         SocketsType
<1>5. QED BY <1>1, <1>3, <1>4, TypeStill
      DEF Bury, requests, threads, ring, ends, sockets, slaves, frames, TypeInv

LEMMA TypeAccept ==
    ASSUME TypeInv, NEW s \in Slaves, Accept(s)
    PROVE  TypeInv'
<1>1. setup' = setup
  BY DEF Accept, requests
<1>2. Size' = Size /\ Script' = Script /\ Tiles' = Tiles /\ Units' = Units
  BY <1>1, Fixed
<1>3. PlacesType' /\ ThreadsType'
  BY DEF Accept, At, AppPlaces, NetPlaces, MainPlaces, InSendWork, Posts, Threads,
         threads, TypeInv, PlacesType, ThreadsType
<1>4. SocketsType'
  BY <1>2, SetupFacts DEF Accept, At, AppPlaces, NetPlaces, MainPlaces, InSendWork,
       Posts, Threads,
         requests, threads, ring, ends, sockets, slaves, frames, TypeInv,
         SocketsType
<1>5. SlavesType'
  BY <1>2, SetupFacts DEF Accept, At, AppPlaces, NetPlaces, MainPlaces, InSendWork,
       Posts, Threads,
         requests, threads, ring, ends, sockets, slaves, frames, TypeInv, SlavesType
<1>6. QED BY <1>1, <1>3, <1>4, <1>5, TypeStill
      DEF Accept, requests, threads, ring, ends, sockets, slaves, frames, TypeInv

LEMMA TypeCallback ==
    ASSUME TypeInv, Callback
    PROVE  TypeInv'
<1>1. setup' = setup
  BY DEF Callback, requests
<1>2. Size' = Size /\ Script' = Script /\ Tiles' = Tiles /\ Units' = Units
  BY <1>1, Fixed
<1>3. PlacesType' /\ ThreadsType'
  BY DEF Callback, Post, Updated, Complete, At, AppPlaces, NetPlaces, MainPlaces,
       InSendWork, Posts, Threads,
         threads, TypeInv, PlacesType, ThreadsType, SocketsType
<1>4. SocketsType'
  BY <1>2, SetupFacts DEF Callback, Post, Updated, Complete, At, AppPlaces,
       NetPlaces, MainPlaces, InSendWork, Posts, Threads,
         requests, threads, ring, ends, sockets, slaves, frames, TypeInv,
         SocketsType
<1>5. FramesType'
  BY <1>2, SetupFacts DEF Callback, Post, Updated, Complete, At, AppPlaces,
       NetPlaces, MainPlaces, InSendWork, Posts, Threads,
         requests, threads, ring, ends, sockets, slaves, frames, TypeInv, FramesType
<1>6. QED BY <1>1, <1>3, <1>4, <1>5, TypeStill
      DEF Callback, requests, threads, ring, ends, sockets, slaves, frames, TypeInv

LEMMA TypePostFrame ==
    ASSUME TypeInv, PostFrame
    PROVE  TypeInv'
<1>1. setup' = setup
  BY DEF PostFrame, requests
<1>2. Size' = Size /\ Script' = Script /\ Tiles' = Tiles /\ Units' = Units
  BY <1>1, Fixed
<1>3. PlacesType' /\ ThreadsType'
  BY DEF PostFrame, Updated, At, AppPlaces, NetPlaces, MainPlaces, InSendWork,
       Posts, Threads,
         threads, TypeInv, PlacesType, ThreadsType
<1>4. FramesType'
  BY <1>2, SetupFacts DEF PostFrame, Updated, At, AppPlaces, NetPlaces, MainPlaces,
       InSendWork, Posts, Threads,
         requests, threads, ring, ends, sockets, slaves, frames, TypeInv, FramesType
<1>5. QED BY <1>1, <1>3, <1>4, TypeStill
      DEF PostFrame, requests, threads, ring, ends, sockets, slaves, frames, TypeInv

LEMMA TypeNoneOut ==
    ASSUME TypeInv, NoneOut
    PROVE  TypeInv'
<1>1. setup' = setup
  BY DEF NoneOut, requests
<1>2. Size' = Size /\ Script' = Script /\ Tiles' = Tiles /\ Units' = Units
  BY <1>1, Fixed
<1>3. PlacesType' /\ ThreadsType'
  BY DEF NoneOut, At, AppPlaces, NetPlaces, MainPlaces, InSendWork, Posts, Threads,
         threads, TypeInv, PlacesType, ThreadsType
<1>4. QED BY <1>1, <1>3, TypeStill
      DEF NoneOut, requests, threads, ring, ends, sockets, slaves, frames, TypeInv

LEMMA TypeNothingLeft ==
    ASSUME TypeInv, NothingLeft
    PROVE  TypeInv'
<1>1. setup' = setup
  BY DEF NothingLeft, requests
<1>2. Size' = Size /\ Script' = Script /\ Tiles' = Tiles /\ Units' = Units
  BY <1>1, Fixed
<1>3. PlacesType' /\ ThreadsType'
  BY DEF NothingLeft, At, AppPlaces, NetPlaces, MainPlaces, InSendWork, Posts,
       Threads,
         threads, TypeInv, PlacesType, ThreadsType
<1>4. EndsType'
  BY <1>2, SetupFacts DEF NothingLeft, At, AppPlaces, NetPlaces, MainPlaces,
       InSendWork, Posts, Threads,
         requests, threads, ring, ends, sockets, slaves, frames, TypeInv, EndsType
<1>5. QED BY <1>1, <1>3, <1>4, TypeStill
      DEF NothingLeft, requests, threads, ring, ends, sockets, slaves, frames,
          TypeInv

LEMMA TypeHalt ==
    ASSUME TypeInv, Halt
    PROVE  TypeInv'
<1>1. setup' = setup
  BY DEF Halt, requests
<1>2. Size' = Size /\ Script' = Script /\ Tiles' = Tiles /\ Units' = Units
  BY <1>1, Fixed
<1>3. PlacesType' /\ ThreadsType'
  BY DEF Halt, At, AppPlaces, NetPlaces, MainPlaces, InSendWork, Posts, Threads,
         threads, TypeInv, PlacesType, ThreadsType
<1>4. QED BY <1>1, <1>3, TypeStill
      DEF Halt, requests, threads, ring, ends, sockets, slaves, frames, TypeInv

LEMMA TypeWait ==
    ASSUME TypeInv, Wait
    PROVE  TypeInv'
<1>1. setup' = setup
  BY DEF Wait, requests
<1>2. Size' = Size /\ Script' = Script /\ Tiles' = Tiles /\ Units' = Units
  BY <1>1, Fixed
<1>3. PlacesType' /\ ThreadsType'
  BY DEF Wait, At, AppPlaces, NetPlaces, MainPlaces, InSendWork, Posts, Threads,
         threads, TypeInv, PlacesType, ThreadsType
<1>4. EndsType'
  BY <1>2, SetupFacts DEF Wait, At, AppPlaces, NetPlaces, MainPlaces, InSendWork,
       Posts, Threads,
         requests, threads, ring, ends, sockets, slaves, frames, TypeInv, EndsType
<1>5. QED BY <1>1, <1>3, <1>4, TypeStill
      DEF Wait, requests, threads, ring, ends, sockets, slaves, frames, TypeInv

LEMMA TypeShutdown ==
    ASSUME TypeInv, Shutdown
    PROVE  TypeInv'
<1>1. setup' = setup
  BY DEF Shutdown, requests
<1>2. Size' = Size /\ Script' = Script /\ Tiles' = Tiles /\ Units' = Units
  BY <1>1, Fixed
<1>3. PlacesType' /\ ThreadsType'
  BY DEF Shutdown, At, AppPlaces, NetPlaces, MainPlaces, InSendWork, Posts, Threads,
         threads, TypeInv, PlacesType, ThreadsType
<1>4. EndsType'
  BY <1>2, SetupFacts DEF Shutdown, At, AppPlaces, NetPlaces, MainPlaces,
       InSendWork, Posts, Threads,
         requests, threads, ring, ends, sockets, slaves, frames, TypeInv, EndsType
<1>5. QED BY <1>1, <1>3, <1>4, TypeStill
      DEF Shutdown, requests, threads, ring, ends, sockets, slaves, frames, TypeInv

LEMMA TypeClose ==
    ASSUME TypeInv, Close
    PROVE  TypeInv'
<1>1. setup' = setup
  BY DEF Close, requests
<1>2. Size' = Size /\ Script' = Script /\ Tiles' = Tiles /\ Units' = Units
  BY <1>1, Fixed
<1>3. PlacesType' /\ ThreadsType'
  BY DEF Close, At, AppPlaces, NetPlaces, MainPlaces, InSendWork, Posts, Threads,
         threads, TypeInv, PlacesType, ThreadsType
<1>4. EndsType'
  BY <1>2, SetupFacts DEF Close, At, AppPlaces, NetPlaces, MainPlaces, InSendWork,
       Posts, Threads,
         requests, threads, ring, ends, sockets, slaves, frames, TypeInv, EndsType
<1>5. SlavesType'
  BY <1>2, SetupFacts DEF Close, At, AppPlaces, NetPlaces, MainPlaces, InSendWork,
       Posts, Threads,
         requests, threads, ring, ends, sockets, slaves, frames, TypeInv, SlavesType
<1>6. QED BY <1>1, <1>3, <1>4, <1>5, TypeStill
      DEF Close, requests, threads, ring, ends, sockets, slaves, frames, TypeInv

LEMMA TypeSlave ==
    ASSUME TypeInv, NEW s \in Slaves, Slave(s)
    PROVE  TypeInv'
<1>1. setup' = setup
  BY DEF Slave, requests
<1>2. Size' = Size /\ Script' = Script /\ Tiles' = Tiles /\ Units' = Units
  BY <1>1, Fixed
<1>3. SlavesType'
  <2> DEFINE T == Units \cup {MESG, COMPLETE}
  <2>1. inbox \in [Slaves -> Seq(T)] /\ inbox[s] # <<>>
    BY DEF Slave, TypeInv, SlavesType
  <2>2. Head(inbox[s]) \in T /\ Tail(inbox[s]) \in Seq(T)
    <3> HIDE DEF T
    <3> QED BY <2>1, HeadTailProperties
  <2>3. inbox' \in [Slaves -> Seq(T)]
    <3> HIDE DEF T
    <3> QED BY <2>1, <2>2 DEF Slave
  <2> HIDE DEF T
  <2>4. Head(inbox[s]) \in Units => Append(outbox[s], Head(inbox[s])) \in Seq(Units)
    BY AppendProperties DEF TypeInv, SlavesType
  <2>5. state' \in [Slaves -> {"out", "up", "gone"}]
    BY DEF Slave, TypeInv, SlavesType
  <2>6. computed' \in [Units -> Nat]
    BY DEF Slave, TypeInv, SlavesType
  <2>7. outbox' \in [Slaves -> Seq(Units)]
    BY <2>4 DEF Slave, TypeInv, SlavesType
  <2>8. QED BY <1>2, <2>3, <2>5, <2>6, <2>7 DEF SlavesType, T
<1>4. QED BY <1>1, <1>3, TypeStill
      DEF Slave, requests, threads, ring, ends, sockets, slaves, frames, TypeInv

LEMMA TypeDie ==
    ASSUME TypeInv, NEW s \in Slaves, Die(s)
    PROVE  TypeInv'
<1>1. setup' = setup
  BY DEF Die, requests
<1>2. Size' = Size /\ Script' = Script /\ Tiles' = Tiles /\ Units' = Units
  BY <1>1, Fixed
<1>3. SlavesType'
  <2>1. <<>> \in Seq(Units) /\ <<>> \in Seq(Units \cup {MESG, COMPLETE})
    OBVIOUS
  <2>2. inbox' \in [Slaves -> Seq(Units \cup {MESG, COMPLETE})]
    BY <2>1 DEF Die, TypeInv, SlavesType
  <2>3. outbox' \in [Slaves -> Seq(Units)]
    BY <2>1 DEF Die, TypeInv, SlavesType
  <2>4. QED BY <1>2, <2>2, <2>3 DEF Die, TypeInv, SlavesType
<1>4. QED BY <1>1, <1>3, TypeStill
      DEF Die, requests, threads, ring, ends, sockets, slaves, frames, TypeInv

LEMMA TypeWakeIdle ==
    ASSUME TypeInv, NEW th \in Posts, NEW next,
           next \in IF th = "app" THEN AppPlaces \ InSendWork ELSE NetPlaces \ InSendWork,
           WakeIdle(th, next)
    PROVE  TypeInv'
<1>1. setup' = setup
  BY DEF WakeIdle, requests
<1>2. PlacesType' /\ ThreadsType'
  <2>1. CASE todo[th] = {} /\ At(th, "wake", next) /\ UNCHANGED threads
    BY <2>1 DEF At, AppPlaces, NetPlaces, MainPlaces, InSendWork, Posts, Threads,
                threads, TypeInv, PlacesType, ThreadsType
  <2>2. ASSUME NEW s \in todo[th], idle[s], At(th, "wake", "send"),
               sock' = [sock EXCEPT ![th] = s], back' = [back EXCEPT ![th] = "wake"],
               todo' = [todo EXCEPT ![th] = @ \ {s}]
        PROVE  PlacesType' /\ ThreadsType'
    BY <2>2 DEF At, AppPlaces, NetPlaces, MainPlaces, InSendWork, Posts, Threads,
                TypeInv, PlacesType, ThreadsType
  <2>3. ASSUME NEW s \in todo[th], At(th, "wake", "wake"), UNCHANGED <<sock, back>>,
               todo' = [todo EXCEPT ![th] = @ \ {s}]
        PROVE  PlacesType' /\ ThreadsType'
    BY <2>3 DEF At, AppPlaces, NetPlaces, MainPlaces, InSendWork, Posts, Threads,
                TypeInv, PlacesType, ThreadsType
  <2>4. QED BY <2>1, <2>2, <2>3 DEF WakeIdle
<1>3. QED BY <1>1, <1>2, TypeStill DEF WakeIdle, ring, ends, sockets, slaves,
              frames, requests, TypeInv

-----------------------------------------------------------------------------
(* A step is one of these.                                                 *)

WakeIdleStep ==
    \/ request > 0 /\ WakeIdle("app", AfterWake)
    \/ WakeIdle("net", "post")

Step ==
    \/ \E th \in Posts : SendRefused(th) \/ SendMessage(th) \/ LookForWork(th)
                         \/ TakeWork(th) \/ EnterIdle(th)
    \/ WakeIdleStep \/ NextRequest \/ NoMoreRequests \/ Push
    \/ Requeue \/ NoneDead \/ RequestSent \/ Reply
    \/ Callback \/ PostFrame \/ NoneOut \/ NothingLeft
    \/ Halt \/ Wait \/ Shutdown \/ Close
    \/ \E s \in Slaves : Receive(s) \/ Bury(s) \/ Accept(s) \/ Slave(s) \/ Die(s)

(* Steps that leave the buffer alone.                                     *)
OtherStep ==
    \/ \E th \in Posts : SendRefused(th) \/ SendMessage(th) \/ EnterIdle(th)
    \/ WakeIdleStep \/ NextRequest \/ NoMoreRequests
    \/ NoneDead \/ RequestSent \/ Reply \/ Callback
    \/ PostFrame \/ NoneOut \/ NothingLeft \/ Halt \/ Wait
    \/ Shutdown \/ Close
    \/ \E s \in Slaves : Receive(s) \/ Bury(s) \/ Accept(s) \/ Slave(s) \/ Die(s)

(* Steps that send nothing to a slave and receive nothing.                 *)
SilentStep ==
    \/ \E th \in Posts : SendRefused(th) \/ LookForWork(th) \/ EnterIdle(th)
    \/ WakeIdleStep \/ NextRequest \/ NoMoreRequests \/ Push
    \/ NoneDead \/ RequestSent \/ Reply \/ Callback
    \/ PostFrame \/ NoneOut \/ NothingLeft \/ Halt \/ Wait
    \/ Shutdown

(* Steps that mark no slave idle and bring no thread to one.               *)
RestingStep ==
    \/ \E th \in Posts : SendRefused(th) \/ SendMessage(th)
    \/ NextRequest \/ NoMoreRequests \/ Push \/ NoneDead
    \/ RequestSent \/ Reply \/ Callback \/ PostFrame
    \/ NoneOut \/ NothingLeft \/ Halt \/ Wait \/ Shutdown
    \/ Close
    \/ \E s \in Slaves : Bury(s) \/ Accept(s) \/ Slave(s) \/ Die(s)

(* Steps that give no slave a unit, and take none from a dead one.         *)
KeepingStep ==
    \/ \E th \in Posts : SendRefused(th) \/ SendMessage(th) \/ LookForWork(th)
                         \/ EnterIdle(th)
    \/ WakeIdleStep \/ NextRequest \/ NoMoreRequests \/ Push
    \/ NoneDead \/ RequestSent \/ Reply \/ Callback
    \/ PostFrame \/ NoneOut \/ NothingLeft \/ Halt \/ Wait
    \/ Shutdown \/ Close
    \/ \E s \in Slaves : Receive(s) \/ Bury(s) \/ Accept(s) \/ Slave(s) \/ Die(s)

LEMMA Steps ==
    ASSUME Next
    PROVE  /\ Step
           /\ \/ OtherStep \/ Push \/ Requeue
              \/ \E th \in Posts : LookForWork(th) \/ TakeWork(th)
           /\ \/ SilentStep \/ Requeue \/ Close
              \/ \E th \in Posts : SendMessage(th) \/ TakeWork(th)
              \/ \E s \in Slaves : Receive(s) \/ Bury(s) \/ Accept(s)
                                   \/ Slave(s) \/ Die(s)
           /\ \/ RestingStep \/ WakeIdleStep \/ Requeue
              \/ \E th \in Posts : LookForWork(th) \/ TakeWork(th) \/ EnterIdle(th)
              \/ \E s \in Slaves : Receive(s)
           /\ KeepingStep \/ Requeue \/ \E th \in Posts : TakeWork(th)
<1>1. Step
  BY DEF Next, app, listener, main, send_work, Step, WakeIdleStep, Posts
<1>2. QED BY <1>1 DEF Step, OtherStep, SilentStep, RestingStep, KeepingStep

LEMMA AfterWakePlace ==
    ASSUME TypeInv, request > 0
    PROVE  AfterWake \in {"push", "pushed", "reply", "next"}
<1>1. Script[request] \in Requests
  BY SetupFacts, ElementOfSeq DEF TypeInv, RequestsType
<1>2. QED BY <1>1 DEF AfterWake, Requests

LEMMA TypeWakeIdleStep ==
    ASSUME TypeInv, WakeIdleStep
    PROVE  TypeInv'
<1>1. CASE request > 0 /\ WakeIdle("app", AfterWake)
  <2>1. "app" \in Posts /\ AfterWake \in AppPlaces \ InSendWork
    BY <1>1, AfterWakePlace DEF Posts, AppPlaces, InSendWork
  <2>2. QED BY <1>1, <2>1, TypeWakeIdle
<1>2. CASE WakeIdle("net", "post")
  <2>1. "net" \in Posts /\ "post" \in NetPlaces \ InSendWork
    BY DEF Posts, NetPlaces, InSendWork
  <2>2. QED BY <1>2, <2>1, TypeWakeIdle
<1>3. QED BY <1>1, <1>2 DEF WakeIdleStep

LEMMA NextType ==
    ASSUME TypeInv, Ring, Pushing, [Next]_vars
    PROVE  TypeInv'
<1>1. CASE UNCHANGED vars
  BY <1>1, TypeStill DEF vars, TypeInv, requests, threads, ring, ends, sockets,
       slaves, frames
<1>2. CASE Next
  BY <1>2, Steps, TypeSendRefused, TypeSendMessage, TypeLookForWork, TypeTakeWork,
       TypeEnterIdle, TypeNextRequest, TypeNoMoreRequests, TypePush, TypeRequeue,
       TypeNoneDead, TypeRequestSent, TypeReply, TypeReceive, TypeBury, TypeAccept,
       TypeCallback, TypePostFrame, TypeNoneOut, TypeNothingLeft, TypeHalt,
       TypeWait, TypeShutdown, TypeClose, TypeSlave, TypeDie,
       TypeWakeIdleStep DEF Step
<1>3. QED BY <1>1, <1>2

-----------------------------------------------------------------------------
(* The buffer.                                                             *)

(* The other steps leave the buffer alone.                                 *)
LEMMA OthersTakeNothing ==
    ASSUME TypeInv, OtherStep
    PROVE  /\ setup' = setup /\ UNCHANGED ring
           /\ \A t \in Posts : pc'[t] = "taking" <=> pc[t] = "taking"
<1> USE DEF At, InSendWork, Posts, Threads, AppPlaces, NetPlaces,
            MainPlaces, requests, threads, ring, ends, sockets, slaves,
            frames, TypeInv, PlacesType, ThreadsType
<1> DEFINE Goal == /\ setup' = setup /\ UNCHANGED ring
                   /\ \A t \in Posts : pc'[t] = "taking" <=> pc[t] = "taking"
<1>1. ASSUME NEW th \in Posts, SendRefused(th) PROVE Goal
  BY <1>1, AfterWakePlace DEF SendRefused
<1>2. ASSUME NEW th \in Posts, SendMessage(th) PROVE Goal
  BY <1>2, AfterWakePlace DEF SendMessage, Sent
<1>3. ASSUME NEW th \in Posts, EnterIdle(th) PROVE Goal
  BY <1>3, AfterWakePlace DEF EnterIdle
<1>4. CASE WakeIdleStep
  BY <1>4, AfterWakePlace DEF WakeIdleStep, WakeIdle
<1>5. CASE NextRequest
  BY <1>5, AfterWakePlace DEF NextRequest, Post
<1>6. CASE NoMoreRequests \/ NoneDead \/ RequestSent \/ Reply
  BY <1>6, AfterWakePlace DEF NoMoreRequests, NoneDead, RequestSent, Reply
<1>7. ASSUME NEW s \in Slaves, Receive(s) PROVE Goal
  BY <1>7, AfterWakePlace DEF Receive
<1>8. ASSUME NEW s \in Slaves, Bury(s) PROVE Goal
  BY <1>8, AfterWakePlace DEF Bury
<1>9. ASSUME NEW s \in Slaves, Accept(s) PROVE Goal
  BY <1>9, AfterWakePlace DEF Accept
<1>10. CASE Callback
  BY <1>10, AfterWakePlace DEF Callback, Post, Updated, Complete
<1>11. CASE PostFrame \/ NoneOut \/ NothingLeft \/ Halt
  BY <1>11, AfterWakePlace DEF PostFrame, Updated, NoneOut, NothingLeft, Halt
<1>12. CASE Wait \/ Shutdown \/ Close
  BY <1>12, AfterWakePlace DEF Wait, Shutdown, Close
<1>13. ASSUME NEW s \in Slaves, Slave(s) \/ Die(s) PROVE Goal
  BY <1>13, AfterWakePlace DEF Slave, Die
<1>14. QED
  BY <1>1, <1>2, <1>3, <1>4, <1>5, <1>6, <1>7, <1>8, <1>9, <1>10, <1>11,
     <1>12, <1>13 DEF OtherStep

(* send_mut keeps the threads apart between the semaphore and the buffer.  *)
LEMMA OneInSendWork ==
    ASSUME TypeInv, Mutex, Step
    PROVE  Mutex'
<1> USE DEF At, InSendWork, Posts, Threads, AppPlaces, NetPlaces,
            MainPlaces, requests, threads, ring, ends, sockets, slaves,
            frames, TypeInv, PlacesType, ThreadsType, Mutex
<1>1. ASSUME NEW th \in Posts, SendRefused(th) PROVE Mutex'
  BY <1>1, AfterWakePlace, Kinds DEF SendRefused
<1>2. ASSUME NEW th \in Posts, SendMessage(th) PROVE Mutex'
  BY <1>2, AfterWakePlace, Kinds DEF SendMessage, Sent
<1>3. ASSUME NEW th \in Posts, LookForWork(th) PROVE Mutex'
  BY <1>3, AfterWakePlace, Kinds DEF LookForWork
<1>4. ASSUME NEW th \in Posts, TakeWork(th) PROVE Mutex'
  BY <1>4, AfterWakePlace, Kinds DEF TakeWork, Sent
<1>5. ASSUME NEW th \in Posts, EnterIdle(th) PROVE Mutex'
  BY <1>5, AfterWakePlace, Kinds DEF EnterIdle
<1>6. CASE WakeIdleStep
  BY <1>6, AfterWakePlace, Kinds DEF WakeIdleStep, WakeIdle
<1>7. CASE NextRequest
  BY <1>7, AfterWakePlace, Kinds DEF NextRequest, Post
<1>8. CASE NoMoreRequests \/ NoneDead \/ RequestSent \/ Reply
  BY <1>8, AfterWakePlace, Kinds DEF NoMoreRequests, NoneDead, RequestSent, Reply
<1>9. CASE Push
  BY <1>9, AfterWakePlace, Kinds DEF Push, Fill
<1>10. CASE Requeue
  BY <1>10, AfterWakePlace, Kinds DEF Requeue, Fill
<1>11. ASSUME NEW s \in Slaves, Receive(s) PROVE Mutex'
  BY <1>11, AfterWakePlace, Kinds DEF Receive
<1>12. ASSUME NEW s \in Slaves, Bury(s) PROVE Mutex'
  BY <1>12, AfterWakePlace, Kinds DEF Bury
<1>13. ASSUME NEW s \in Slaves, Accept(s) PROVE Mutex'
  BY <1>13, AfterWakePlace, Kinds DEF Accept
<1>14. CASE Callback
  BY <1>14, AfterWakePlace, Kinds DEF Callback, Post, Updated, Complete
<1>15. CASE PostFrame \/ NoneOut \/ NothingLeft \/ Halt
  BY <1>15, AfterWakePlace, Kinds
     DEF PostFrame, Updated, NoneOut, NothingLeft, Halt
<1>16. CASE Wait \/ Shutdown \/ Close
  BY <1>16, AfterWakePlace, Kinds DEF Wait, Shutdown, Close
<1>17. ASSUME NEW s \in Slaves, Slave(s) \/ Die(s) PROVE Mutex'
  BY <1>17, AfterWakePlace, Kinds DEF Slave, Die
<1>18. QED
  BY <1>1, <1>2, <1>3, <1>4, <1>5, <1>6, <1>7, <1>8, <1>9, <1>10, <1>11,
     <1>12, <1>13, <1>14, <1>15, <1>16, <1>17 DEF Step

LEMMA WrapIsMod ==
    ASSUME Size \in Nat \ {0}, NEW a \in 0 .. 2 * Size - 1
    PROVE  a % Size = Wrap(a)
<1>1. CASE a < Size
  BY <1>1 DEF Wrap
<1>2. CASE a >= Size
  <2>1. a - Size \in 0 .. Size - 1 /\ a = (a - Size) + Size * 1
    BY <1>2
  <2>2. a % Size = a - Size
    BY <2>1
  <2>3. QED BY <1>2, <2>2 DEF Wrap
<1>3. QED BY <1>1, <1>2

LEMMA TakingIs ==
    ASSUME TypeInv, Mutex, NEW th \in Posts, pc[th] = "taking"
    PROVE  Taking = 1 /\ \A t \in Posts : pc[t] = "taking" => t = th
BY DEF Taking, Mutex

LEMMA RingStill ==
    ASSUME TypeInv, Ring, setup' = setup, UNCHANGED ring,
           \A t \in Posts : pc'[t] = "taking" <=> pc[t] = "taking"
    PROVE  Ring'
<1>1. Taking' = Taking
  BY DEF Taking
<1>2. Size' = Size
  BY Fixed
<1>3. QED BY <1>1, <1>2 DEF Ring, ring, Left, Wrap

(* A thread that waits for work decrements sem_read before it takes the    *)
(* unit: the unit is still in the buffer.                                  *)
LEMMA RingLookForWork ==
    ASSUME TypeInv, Ring, Mutex, NEW th \in Posts, LookForWork(th)
    PROVE  Ring'
<1>1. setup' = setup /\ Size' = Size
  BY Fixed DEF LookForWork, requests
<1>2. \A t \in Posts : pc[t] # "taking"
  BY Kinds DEF LookForWork, Mutex
<1>3. Left' = Left
  BY <1>2 DEF LookForWork, Left, Taking, At, TypeInv, PlacesType, RingType,
              Posts, Threads
<1>4. QED BY <1>1, <1>3 DEF LookForWork, Ring, Wrap

LEMMA RingTakeWork ==
    ASSUME TypeInv, Ring, Mutex, NEW th \in Posts, TakeWork(th)
    PROVE  Ring'
<1>1. setup' = setup /\ Size' = Size /\ Size \in Nat \ {0}
  BY Fixed, SetupFacts DEF TakeWork, requests
<1>2. pc[th] = "taking" /\ pc' = [pc EXCEPT ![th] = back[th]] /\ back[th] # "taking"
  BY DEF TakeWork, At, TypeInv, ThreadsType
<1>3. Left = sem_read + 1 /\ \A t \in Posts : pc[t] = "taking" => t = th
  BY <1>2, TakingIs DEF Left
<1>4. Taking' = 0
  BY <1>2, <1>3 DEF Taking, TypeInv, PlacesType, Posts, Threads
<1>5. Left' = sem_read /\ sem_read \in Nat /\ sem_fill \in Nat /\ taken \in Nat
      /\ Len(pushed) \in Nat
  BY <1>4, LenProperties DEF TakeWork, Left, TypeInv, RingType
<1>6. pos_read \in 0 .. Size - 1 /\ pos_read' = Wrap(pos_read + 1)
  <2>1. pos_read \in 0 .. Size - 1
    BY DEF TypeInv, RingType
  <2>2. pos_read + 1 \in 0 .. 2 * Size - 1
    BY <1>1, <2>1
  <2>3. QED BY <1>1, <2>1, <2>2, WrapIsMod DEF TakeWork
<1>7. sem_read < Size
  BY <1>3, <1>5 DEF Ring
<1>8. \A k \in 1 .. sem_read + 1 : Wrap(pos_read' + k - 1) = Wrap(pos_read + (k + 1) - 1)
  BY <1>1, <1>5, <1>6, <1>7 DEF Wrap
<1>9. \A k \in 1 .. sem_read : buffer[Wrap(pos_read' + k - 1)] = pushed[taken' + k]
  <2> TAKE k \in 1 .. sem_read
  <2>1. k + 1 \in 1 .. Left
    BY <1>3, <1>5
  <2>2. buffer[Wrap(pos_read + (k + 1) - 1)] = pushed[taken + (k + 1)]
    BY <2>1 DEF Ring
  <2>3. taken + (k + 1) = taken' + k
    BY <1>5 DEF TakeWork
  <2>4. QED BY <1>5, <1>8, <2>2, <2>3
<1>10. pos_fill = Wrap(pos_read' + sem_read)
  <2>1. pos_fill = Wrap(pos_read + Left)
    BY DEF Ring
  <2>2. QED BY <1>1, <1>3, <1>5, <1>6, <1>7, <2>1 DEF Wrap
<1>11. sem_fill' + sem_read = Size /\ taken' + sem_read = Len(pushed)
  BY <1>3, <1>5 DEF TakeWork, Ring
<1>12. \A a : Wrap(a)' = Wrap(a)
  BY <1>1 DEF Wrap
<1>13. UNCHANGED <<buffer, pushed, pos_fill>>
  BY DEF TakeWork
<1> HIDE DEF Wrap
<1>14. QED BY <1>1, <1>5, <1>9, <1>10, <1>11, <1>12, <1>13 DEF Ring

(* A unit that is pushed is the youngest, behind those that are left.      *)
LEMMA RingFill ==
    ASSUME TypeInv, Ring, setup' = setup, NEW u \in Units, Fill(u),
           \A t \in Posts : pc'[t] = "taking" <=> pc[t] = "taking"
    PROVE  Ring'
<1>1. Size' = Size /\ Size \in Nat \ {0}
  BY Fixed, SetupFacts
<1>2. Taking' = Taking /\ Taking \in 0 .. 1
  BY DEF Taking
<1>3. sem_read \in Nat /\ sem_fill \in Nat /\ taken \in Nat /\ Len(pushed) \in Nat
  BY LenProperties DEF TypeInv, RingType
<1>4. Left' = Left + 1 /\ Left \in Nat /\ Left < Size
  BY <1>2, <1>3 DEF Fill, Left, Ring
<1>5. pos_read \in 0 .. Size - 1 /\ pos_fill \in 0 .. Size - 1
  BY DEF TypeInv, RingType
<1>6. pos_fill = Wrap(pos_read + Left)
  BY DEF Ring
<1>7. pos_fill' = Wrap(pos_read + (Left + 1))
  <2>1. pos_fill + 1 \in 0 .. 2 * Size - 1
    BY <1>1, <1>5
  <2>2. pos_fill' = Wrap(pos_fill + 1)
    BY <1>1, <2>1, WrapIsMod DEF Fill
  <2>3. QED BY <1>1, <1>4, <1>5, <1>6, <2>2 DEF Wrap
<1>8. Len(pushed') = Len(pushed) + 1 /\ pushed'[Len(pushed) + 1] = u
      /\ \A k \in 1 .. Len(pushed) : pushed'[k] = pushed[k]
  BY AppendProperties DEF Fill, TypeInv, RingType
<1>9. taken + Left = Len(pushed) /\ sem_fill + Left = Size
  BY DEF Ring
<1>10. \A k \in 1 .. Left : Wrap(pos_read + k - 1) # pos_fill
                            /\ Wrap(pos_read + k - 1) \in 0 .. Size - 1
  BY <1>1, <1>4, <1>5, <1>6 DEF Wrap
<1>11. buffer' = [buffer EXCEPT ![pos_fill] = u] /\ pos_read' = pos_read /\ taken' = taken
       /\ sem_fill' = sem_fill - 1
  BY DEF Fill
<1>12. \A k \in 1 .. Left + 1 : buffer'[Wrap(pos_read + k - 1)] = pushed'[taken + k]
  <2> TAKE k \in 1 .. Left + 1
  <2>1. CASE k \in 1 .. Left
    <3>1. buffer[Wrap(pos_read + k - 1)] = pushed[taken + k]
      BY <2>1 DEF Ring
    <3>2. buffer'[Wrap(pos_read + k - 1)] = buffer[Wrap(pos_read + k - 1)]
      BY <1>10, <1>11, <2>1 DEF TypeInv, RingType
    <3>3. taken + k \in 1 .. Len(pushed)
      BY <1>3, <1>4, <1>9, <2>1
    <3>4. QED BY <1>8, <3>1, <3>2, <3>3
  <2>2. CASE k = Left + 1
    <3>1. pos_read + k - 1 = pos_read + Left /\ taken + k = Len(pushed) + 1
      BY <1>3, <1>4, <1>5, <1>9, <2>2
    <3>2. buffer'[pos_fill] = u
      BY <1>5, <1>11 DEF TypeInv, RingType
    <3>3. QED BY <1>6, <1>8, <3>1, <3>2
  <2>3. QED BY <1>4, <2>1, <2>2
<1>13. \A a : Wrap(a)' = Wrap(a)
  BY <1>1 DEF Wrap
<1>14. sem_fill' + (Left + 1) = Size /\ taken + (Left + 1) = Len(pushed')
  <2>1. sem_fill - 1 + (Left + 1) = sem_fill + Left
    BY <1>3, <1>4
  <2>2. taken + (Left + 1) = (taken + Left) + 1
    BY <1>3, <1>4
  <2>3. QED BY <1>8, <1>9, <1>11, <2>1, <2>2
<1> HIDE DEF Wrap
<1>15. QED BY <1>1, <1>4, <1>7, <1>11, <1>12, <1>13, <1>14 DEF Ring

LEMMA RingPush ==
    ASSUME TypeInv, Ring, Pushing, Push
    PROVE  Ring'
<1>1. setup' = setup /\ <<request, tile + 1>> \in Units
  BY UnitPushed DEF Push
<1>2. \A t \in Posts : pc'[t] = "taking" <=> pc[t] = "taking"
  BY DEF Push, At, TypeInv, PlacesType, Posts, Threads
<1>3. QED BY <1>1, <1>2, RingFill DEF Push

LEMMA RingRequeue ==
    ASSUME TypeInv, Ring, Requeue
    PROVE  Ring'
<1>1. setup' = setup
  BY DEF Requeue, requests
<1>2. \A t \in Posts : pc'[t] = "taking" <=> pc[t] = "taking"
  BY DEF Requeue, At, TypeInv, PlacesType, Posts, Threads
<1>3. CASE work[Head(dead)] = None
  BY <1>1, <1>2, <1>3, RingStill DEF Requeue
<1>4. CASE work[Head(dead)] # None
  <2>1. Head(dead) \in Slaves
    BY HeadTailProperties DEF Requeue, TypeInv, SocketsType
  <2>2. work[Head(dead)] \in Units
    BY <1>4, <2>1 DEF TypeInv, SocketsType
  <2>3. QED BY <1>1, <1>2, <1>4, <2>2, RingFill DEF Requeue
<1>5. QED BY <1>3, <1>4

LEMMA PushingStill ==
    ASSUME TypeInv, Pushing, Step
    PROVE  Pushing'
<1> USE DEF At, InSendWork, Posts, Threads, AppPlaces, NetPlaces,
            MainPlaces, requests, threads, ring, ends, sockets, slaves,
            frames, TypeInv, PlacesType, ThreadsType, Pushing, RequestsType
<1>1. ASSUME NEW th \in Posts, SendRefused(th) PROVE Pushing'
  BY <1>1 DEF SendRefused
<1>2. ASSUME NEW th \in Posts, SendMessage(th) PROVE Pushing'
  BY <1>2 DEF SendMessage, Sent
<1>3. ASSUME NEW th \in Posts, LookForWork(th) PROVE Pushing'
  BY <1>3 DEF LookForWork
<1>4. ASSUME NEW th \in Posts, TakeWork(th) PROVE Pushing'
  BY <1>4 DEF TakeWork, Sent
<1>5. ASSUME NEW th \in Posts, EnterIdle(th) PROVE Pushing'
  BY <1>5 DEF EnterIdle
<1>6. CASE WakeIdleStep
  <2>1. CASE request > 0 /\ WakeIdle("app", AfterWake)
    <3>1. Script[request] \in Requests
      BY <2>1, SetupFacts, ElementOfSeq
    <3>2. AfterWake = "push" => tile < setup.tile_num
      BY <3>1 DEF AfterWake, Requests
    <3>3. AfterWake \in {"push", "pushed", "reply", "next"}
      BY <2>1, AfterWakePlace
    <3>4. QED BY <2>1, <3>2, <3>3 DEF WakeIdle
  <2>2. CASE WakeIdle("net", "post")
    BY <2>2 DEF WakeIdle
  <2>3. QED BY <1>6, <2>1, <2>2 DEF WakeIdleStep
<1>7. CASE NextRequest
  BY <1>7, SetupFacts DEF NextRequest, Post
<1>8. CASE NoMoreRequests \/ NoneDead \/ RequestSent \/ Reply
  BY <1>8 DEF NoMoreRequests, NoneDead, RequestSent, Reply
<1>9. CASE Push
  BY <1>9 DEF Push, Fill
<1>10. CASE Requeue
  BY <1>10 DEF Requeue, Fill
<1>11. ASSUME NEW s \in Slaves, Receive(s) PROVE Pushing'
  BY <1>11 DEF Receive
<1>12. ASSUME NEW s \in Slaves, Bury(s) PROVE Pushing'
  BY <1>12 DEF Bury
<1>13. ASSUME NEW s \in Slaves, Accept(s) PROVE Pushing'
  BY <1>13 DEF Accept
<1>14. CASE Callback
  BY <1>14 DEF Callback, Post, Updated, Complete
<1>15. CASE PostFrame \/ NoneOut \/ NothingLeft \/ Halt
  BY <1>15 DEF PostFrame, Updated, NoneOut, NothingLeft, Halt
<1>16. CASE Wait \/ Shutdown \/ Close
  BY <1>16 DEF Wait, Shutdown, Close
<1>17. ASSUME NEW s \in Slaves, Slave(s) \/ Die(s) PROVE Pushing'
  BY <1>17 DEF Slave, Die
<1>18. QED
  BY <1>1, <1>2, <1>3, <1>4, <1>5, <1>6, <1>7, <1>8, <1>9, <1>10, <1>11,
     <1>12, <1>13, <1>14, <1>15, <1>16, <1>17 DEF Step

(* The buffer, and what every later step rests on.                        *)
Flow == TypeInv /\ Mutex /\ Ring /\ Pushing

LEMMA InitFlow ==
    ASSUME Init
    PROVE  Flow
<1>0. setup \in SetupType
  BY SetupAssumption DEF Init
<1>1. Size \in Nat \ {0} /\ setup.tile_num \in Nat \ {0} /\ setup.connected \in SUBSET Slaves
      /\ Len(Script) \in Nat
  BY <1>0, LenProperties DEF SetupType, Size, Script
<1>2. TypeInv
  <2>1. RequestsType /\ PlacesType /\ ThreadsType
    BY <1>1 DEF Init, RequestsType, PlacesType, ThreadsType, Posts, Threads,
         AppPlaces,
                NetPlaces, MainPlaces, InSendWork
  <2>2. RingType
    BY <1>1 DEF Init, RingType
  <2>3. EndsType /\ SocketsType
    <3>1. <<>> \in Seq(Slaves)
      OBVIOUS
    <3>2. list \in SUBSET Slaves
      BY <1>0 DEF Init, SetupType
    <3>3. EndsType
      BY DEF Init, EndsType
    <3>4. QED BY <3>1, <3>2, <3>3 DEF Init, SocketsType
  <2>4. SlavesType
    BY DEF Init, SlavesType
  <2>5. FramesType
    BY <1>1 DEF Init, FramesType
  <2>6. QED BY <2>1, <2>2, <2>3, <2>4, <2>5 DEF TypeInv, Init
<1>3. Mutex /\ Pushing
  BY DEF Init, Mutex, Pushing, Posts, InSendWork
<1>4. Taking = 0 /\ Left = 0
  BY DEF Init, Taking, Left, Posts
<1>5. Ring
  BY <1>1, <1>4 DEF Ring, Init, Wrap
<1>6. QED BY <1>2, <1>3, <1>5 DEF Flow

LEMMA NextFlow ==
    ASSUME Flow, [Next]_vars
    PROVE  Flow'
<1>1. TypeInv'
  BY NextType DEF Flow
<1>2. CASE UNCHANGED vars
  <2>1. Mutex' /\ Pushing'
    BY <1>2 DEF Flow, Mutex, Pushing, vars, requests
  <2>2. Ring'
    BY <1>2, RingStill DEF Flow, vars, requests
  <2>3. QED BY <1>1, <2>1, <2>2 DEF Flow
<1>3. CASE Next
  <2>1. Mutex' /\ Pushing'
    BY <1>3, Steps, OneInSendWork, PushingStill DEF Flow
  <2>2. Ring'
    BY <1>3, Steps, OthersTakeNothing, RingStill, RingLookForWork, RingTakeWork,
       RingPush, RingRequeue DEF Flow
  <2>3. QED BY <1>1, <2>1, <2>2 DEF Flow
<1>4. QED BY <1>2, <1>3

LEMMA FlowHolds == Spec => []Flow
<1>1. Init => Flow
  BY InitFlow
<1>2. Flow /\ [Next]_vars => Flow'
  BY NextFlow
<1>3. QED BY <1>1, <1>2, PTL DEF Spec

LEMMA HeldIsTaking ==
    ASSUME TypeInv, Mutex
    PROVE  Cardinality(Held) = Taking
<1>1. CASE \E th \in Posts : pc[th] = "taking"
  <2>1. PICK th \in Posts : pc[th] = "taking"
    BY <1>1
  <2>2. Held = {th}
    BY <2>1, TakingIs DEF Held, Posts
  <2>3. QED BY <1>1, <2>2, FS_Singleton DEF Taking
<1>2. CASE \A th \in Posts : pc[th] # "taking"
  <2>1. Held = {}
    BY <1>2 DEF Held, Posts
  <2>2. QED BY <1>2, <2>1, FS_EmptySet DEF Taking
<1>3. QED BY <1>1, <1>2

LEMMA WaitingIsLeft ==
    ASSUME Flow
    PROVE  /\ Waiting = [k \in 1 .. Left |-> pushed[taken + k]]
           /\ Left \in Nat /\ taken + Left = Len(pushed) /\ taken \in Nat
<1>1. Size \in Nat \ {0} /\ pos_read \in 0 .. Size - 1 /\ sem_read \in Nat
      /\ sem_fill \in Nat /\ taken \in Nat
  BY SetupFacts DEF Flow, TypeInv, RingType
<1>2. Left \in Nat /\ sem_read + Cardinality(Held) = Left
  BY <1>1, HeldIsTaking DEF Flow, Left, Taking
<1>3. Left <= Size
  BY <1>1, <1>2 DEF Flow, Ring
<1>4. \A k \in 1 .. Left : (pos_read + k - 1) % Size = Wrap(pos_read + k - 1)
  BY <1>1, <1>2, <1>3 DEF Wrap
<1>5. \A k \in 1 .. Left : buffer[(pos_read + k - 1) % Size] = pushed[taken + k]
  BY <1>4 DEF Flow, Ring
<1>6. Waiting = [k \in 1 .. Left |-> buffer[(pos_read + k - 1) % Size]]
  BY <1>2 DEF Waiting
<1>7. QED BY <1>1, <1>2, <1>5, <1>6 DEF Flow, Ring

(* BufferIsQueue: push and send_work, which do not exclude each other,     *)
(* keep the circular buffer a queue, for every size of it.                 *)
THEOREM BufferHolds == Spec => []BufferIsQueue
<1>1. ASSUME Flow PROVE BufferIsQueue
  <2>1. Waiting = [k \in 1 .. Left |-> pushed[taken + k]] /\ Left \in Nat
        /\ taken + Left = Len(pushed) /\ taken \in Nat
    BY <1>1, WaitingIsLeft
  <2>2. Len(Waiting) = Left
    BY <2>1
  <2>3. sem_fill + Len(Waiting) = Size
    BY <1>1, <2>2 DEF Flow, Ring
  <2>4. Waiting = SubSeq(pushed, taken + 1, Len(pushed))
    BY <1>1, <2>1 DEF Flow, TypeInv, RingType
  <2>5. QED BY <2>3, <2>4 DEF BufferIsQueue
<1>2. QED BY <1>1, FlowHolds, PTL

-----------------------------------------------------------------------------
(* Which slaves the master knows, and which are on the dead list.          *)

Broadcasts == {MESG, COMPLETE}

(* net handles a slave whose result it has not processed yet.              *)
Returned ==
    result # None <=> \/ pc["net"] = "callback"
                      \/ pc["net"] \in InSendWork /\ back["net"] = "callback"

Known ==
    /\ \A s \in list : state[s] # "out"
    /\ \A th \in Posts : \A s \in todo[th] : state[s] # "out"
    /\ \A th \in Posts : pc[th] \in InSendWork => state[sock[th]] # "out"
    /\ \A s \in Slaves : state[s] = "out" => idle[s]

(* Nothing comes from a slave on the dead list, and until the master halts *)
(* its slaves are told to leave by nobody.                                 *)
Buried ==
    \A i \in 1 .. Len(dead) :
        state[dead[i]] = "gone" /\ inbox[dead[i]] = <<>> /\ outbox[dead[i]] = <<>>

Open ==
    ~halt_networking =>
        \A s \in Slaves : /\ \A i \in 1 .. Len(inbox[s]) : inbox[s][i] # COMPLETE
                          /\ state[s] = "gone" => inbox[s] = <<>>

LEMMA ReturnedStill ==
    ASSUME TypeInv, Returned, Step
    PROVE  Returned'
<1> USE DEF At, InSendWork, Posts, Threads, AppPlaces, NetPlaces,
            MainPlaces, requests, threads, ring, ends, sockets, slaves,
            frames, TypeInv, PlacesType, ThreadsType, FramesType, Returned
<1>1. ASSUME NEW th \in Posts, SendRefused(th) PROVE Returned'
  BY <1>1, AfterWakePlace, Kinds DEF SendRefused
<1>2. ASSUME NEW th \in Posts, SendMessage(th) PROVE Returned'
  BY <1>2, AfterWakePlace, Kinds DEF SendMessage, Sent
<1>3. ASSUME NEW th \in Posts, LookForWork(th) PROVE Returned'
  BY <1>3, AfterWakePlace, Kinds DEF LookForWork
<1>4. ASSUME NEW th \in Posts, TakeWork(th) PROVE Returned'
  BY <1>4, AfterWakePlace, Kinds DEF TakeWork, Sent
<1>5. ASSUME NEW th \in Posts, EnterIdle(th) PROVE Returned'
  BY <1>5, AfterWakePlace, Kinds DEF EnterIdle
<1>6. CASE WakeIdleStep
  BY <1>6, AfterWakePlace, Kinds DEF WakeIdleStep, WakeIdle
<1>7. CASE NextRequest
  BY <1>7, AfterWakePlace, Kinds DEF NextRequest, Post
<1>8. CASE NoMoreRequests \/ NoneDead \/ RequestSent \/ Reply
  BY <1>8, AfterWakePlace, Kinds DEF NoMoreRequests, NoneDead, RequestSent, Reply
<1>9. CASE Push
  BY <1>9, AfterWakePlace, Kinds DEF Push, Fill
<1>10. CASE Requeue
  BY <1>10, AfterWakePlace, Kinds DEF Requeue, Fill
<1>11. ASSUME NEW s \in Slaves, Receive(s) PROVE Returned'
  BY <1>11, AfterWakePlace, Kinds, HeadTailProperties DEF Receive, SlavesType
<1>12. ASSUME NEW s \in Slaves, Bury(s) PROVE Returned'
  BY <1>12, AfterWakePlace, Kinds DEF Bury
<1>13. ASSUME NEW s \in Slaves, Accept(s) PROVE Returned'
  BY <1>13, AfterWakePlace, Kinds DEF Accept
<1>14. CASE Callback
  BY <1>14, AfterWakePlace, Kinds DEF Callback, Post, Updated, Complete
<1>15. CASE PostFrame \/ NoneOut \/ NothingLeft \/ Halt
  BY <1>15, AfterWakePlace, Kinds
     DEF PostFrame, Updated, NoneOut, NothingLeft, Halt
<1>16. CASE Wait \/ Shutdown \/ Close
  BY <1>16, AfterWakePlace, Kinds DEF Wait, Shutdown, Close
<1>17. ASSUME NEW s \in Slaves, Slave(s) \/ Die(s) PROVE Returned'
  BY <1>17, AfterWakePlace, Kinds DEF Slave, Die
<1>18. QED
  BY <1>1, <1>2, <1>3, <1>4, <1>5, <1>6, <1>7, <1>8, <1>9, <1>10, <1>11,
     <1>12, <1>13, <1>14, <1>15, <1>16, <1>17 DEF Step

LEMMA KnownStill ==
    ASSUME TypeInv, Known, Step
    PROVE  Known'
<1> USE DEF At, InSendWork, Posts, Threads, AppPlaces, NetPlaces,
            MainPlaces, requests, threads, ring, ends, sockets, slaves,
            frames, TypeInv, PlacesType, ThreadsType, SlavesType,
            SocketsType, Known
<1>1. ASSUME NEW th \in Posts, SendRefused(th) PROVE Known'
  BY <1>1, AfterWakePlace, Kinds DEF SendRefused
<1>2. ASSUME NEW th \in Posts, SendMessage(th) PROVE Known'
  BY <1>2, AfterWakePlace, Kinds DEF SendMessage, Sent
<1>3. ASSUME NEW th \in Posts, LookForWork(th) PROVE Known'
  BY <1>3, AfterWakePlace, Kinds DEF LookForWork
<1>4. ASSUME NEW th \in Posts, TakeWork(th) PROVE Known'
  BY <1>4, AfterWakePlace, Kinds DEF TakeWork, Sent
<1>5. ASSUME NEW th \in Posts, EnterIdle(th) PROVE Known'
  BY <1>5, AfterWakePlace, Kinds DEF EnterIdle
<1>6. CASE WakeIdleStep
  <2>1. \A s \in list' : state'[s] # "out"
    BY <1>6, AfterWakePlace DEF WakeIdleStep, WakeIdle
  <2>2. \A th \in Posts : \A s \in todo'[th] : state'[s] # "out"
    BY <1>6, AfterWakePlace DEF WakeIdleStep, WakeIdle
  <2>3. \A th \in Posts : pc'[th] \in InSendWork => state'[sock'[th]] # "out"
    BY <1>6, AfterWakePlace DEF WakeIdleStep, WakeIdle
  <2>4. \A s \in Slaves : state'[s] = "out" => idle'[s]
    BY <1>6, AfterWakePlace DEF WakeIdleStep, WakeIdle
  <2>5. QED BY <2>1, <2>2, <2>3, <2>4
<1>7. CASE NextRequest
  BY <1>7, AfterWakePlace, Kinds DEF NextRequest, Post
<1>8. CASE NoMoreRequests \/ RequestSent \/ Reply
  BY <1>8, AfterWakePlace, Kinds DEF NoMoreRequests, RequestSent, Reply
<1>9. CASE Push
  BY <1>9, AfterWakePlace, Kinds DEF Push, Fill
<1>10. CASE Requeue
  BY <1>10, AfterWakePlace, Kinds DEF Requeue, Fill
<1>11. CASE NoneDead
  <2>1. \A s \in list' : state'[s] # "out"
    BY <1>11 DEF NoneDead
  <2>2. \A th \in Posts : \A s \in todo'[th] : state'[s] # "out"
    BY <1>11 DEF NoneDead
  <2>3. \A th \in Posts : pc'[th] \in InSendWork => state'[sock'[th]] # "out"
    BY <1>11 DEF NoneDead
  <2>4. \A s \in Slaves : state'[s] = "out" => idle'[s]
    BY <1>11 DEF NoneDead
  <2>5. QED BY <2>1, <2>2, <2>3, <2>4
<1>12. ASSUME NEW s \in Slaves, Receive(s) PROVE Known'
  BY <1>12, AfterWakePlace, Kinds DEF Receive
<1>13. ASSUME NEW s \in Slaves, Bury(s) PROVE Known'
  BY <1>13, AfterWakePlace, Kinds DEF Bury
<1>14. ASSUME NEW s \in Slaves, Accept(s) PROVE Known'
  BY <1>14, AfterWakePlace, Kinds DEF Accept
<1>15. CASE Callback
  <2>1. \A s \in list' : state'[s] # "out"
    BY <1>15 DEF Callback, Post
  <2>2. \A th \in Posts : \A s \in todo'[th] : state'[s] # "out"
    BY <1>15 DEF Callback, Post
  <2>3. \A th \in Posts : pc'[th] \in InSendWork => state'[sock'[th]] # "out"
    BY <1>15 DEF Callback, Post
  <2>4. \A s \in Slaves : state'[s] = "out" => idle'[s]
    BY <1>15 DEF Callback, Post
  <2>5. QED BY <2>1, <2>2, <2>3, <2>4
<1>16. CASE PostFrame \/ NoneOut \/ NothingLeft \/ Halt
  BY <1>16, AfterWakePlace, Kinds
     DEF PostFrame, Updated, NoneOut, NothingLeft, Halt
<1>17. CASE Wait \/ Shutdown \/ Close
  BY <1>17, AfterWakePlace, Kinds DEF Wait, Shutdown, Close
<1>18. ASSUME NEW s \in Slaves, Slave(s) PROVE Known'
  BY <1>18 DEF Slave
<1>19. ASSUME NEW s \in Slaves, Die(s) PROVE Known'
  BY <1>19 DEF Die
<1>20. QED
  BY <1>1, <1>2, <1>3, <1>4, <1>5, <1>6, <1>7, <1>8, <1>9, <1>10, <1>11,
     <1>12, <1>13, <1>14, <1>15, <1>16, <1>17, <1>18, <1>19 DEF Step

LEMMA OthersSendNothing ==
    ASSUME SilentStep
    PROVE  UNCHANGED <<dead, state, inbox, outbox, work, computed, halt_networking>>
BY DEF SilentStep, SendRefused, LookForWork, EnterIdle, WakeIdleStep, WakeIdle,
       NextRequest, Post, NoMoreRequests, Push, Fill, NoneDead,
       RequestSent, Reply, Callback, Updated, Complete, PostFrame, NoneOut,
       NothingLeft, Halt, Wait, Shutdown, requests, threads, ring, ends,
       sockets, slaves, frames


LEMMA SentTo ==
    ASSUME TypeInv, NEW s \in Slaves, NEW what, Sent(s, what)
    PROVE  /\ \A t \in Slaves \ {s} : inbox'[t] = inbox[t]
           /\ state[s] = "up" => inbox'[s] = Append(inbox[s], what)
           /\ state[s] # "up" => inbox'[s] = inbox[s]
BY DEF Sent, TypeInv, SlavesType

LEMMA CloseSends ==
    ASSUME TypeInv, Close, NEW s \in Slaves
    PROVE  /\ inbox'[s] \in {inbox[s], Append(inbox[s], COMPLETE)}
           /\ state[s] # "up" => inbox'[s] = inbox[s]
BY DEF Close, TypeInv, SlavesType

(* A slave that is gone stays so, and nothing is sent to it or by it.      *)
Gone(s) == state[s] = "gone" /\ inbox[s] = <<>> /\ outbox[s] = <<>>

LEMMA GoneStill ==
    ASSUME TypeInv, NEW s \in Slaves, Gone(s), Next
    PROVE  Gone(s)'
<1> USE DEF Gone
<1>1. ASSUME NEW th \in Posts, SendMessage(th) PROVE Gone(s)'
  <2>1. sock[th] \in Slaves
    BY <1>1 DEF SendMessage, At, TypeInv, ThreadsType, InSendWork
  <2>2. QED BY <1>1, <2>1, SentTo DEF SendMessage
<1>2. ASSUME NEW th \in Posts, TakeWork(th) PROVE Gone(s)'
  <2>1. sock[th] \in Slaves
    BY <1>2 DEF TakeWork, At, TypeInv, ThreadsType, InSendWork
  <2>2. QED BY <1>2, <2>1, SentTo DEF TakeWork
<1>3. ASSUME Requeue \/ \E t \in Slaves : Bury(t) PROVE Gone(s)'
  BY <1>3 DEF Requeue, Bury, slaves
<1>4. ASSUME NEW t \in Slaves, Accept(t) \/ Receive(t) PROVE Gone(s)'
  BY <1>4 DEF Accept, Receive, TypeInv, SlavesType
<1>5. CASE Close
  BY <1>5, CloseSends DEF Close
<1>6. ASSUME NEW t \in Slaves, Slave(t) \/ Die(t) PROVE Gone(s)'
  BY <1>6 DEF Slave, Die, TypeInv, SlavesType
<1>7. QED BY <1>1, <1>2, <1>3, <1>4, <1>5, <1>6, Steps, OthersSendNothing

LEMMA DeadStep ==
    ASSUME TypeInv, Next
    PROVE  \/ dead' = dead
           \/ dead # <<>> /\ dead' = Tail(dead)
           \/ \E s \in Slaves : Bury(s)
BY Steps, OthersSendNothing
   DEF SendMessage, TakeWork, Requeue, Accept, Receive, Close, Slave, Die, sockets

LEMMA BuriedStill ==
    ASSUME TypeInv, Buried, Open, Next
    PROVE  Buried'
<1>0. Len(dead) \in Nat /\ \A i \in 1 .. Len(dead) : dead[i] \in Slaves
  BY LenProperties, ElementOfSeq DEF TypeInv, SocketsType
<1> DEFINE NowGone(s) == state'[s] = "gone" /\ inbox'[s] = <<>> /\ outbox'[s] = <<>>
<1>1. \A i \in 1 .. Len(dead) : NowGone(dead[i])
  <2> TAKE i \in 1 .. Len(dead)
  <2>1. dead[i] \in Slaves /\ Gone(dead[i])
    BY <1>0 DEF Buried, Gone
  <2>2. \A t \in Slaves : Gone(t) => NowGone(t)
    BY GoneStill DEF Gone
  <2>3. QED BY <2>1, <2>2
<1>2. CASE dead' = dead
  BY <1>1, <1>2 DEF Buried, Gone
<1>3. CASE dead # <<>> /\ dead' = Tail(dead)
  <2>1. Len(dead') = Len(dead) - 1 /\ \A i \in 1 .. Len(dead) - 1 : dead'[i] = dead[i + 1]
    BY <1>3, HeadTailProperties DEF TypeInv, SocketsType
  <2>2. \A i \in 1 .. Len(dead) - 1 : i + 1 \in 1 .. Len(dead)
    BY <1>0
  <2>3. QED BY <1>1, <2>1, <2>2 DEF Buried, Gone
<1>4. ASSUME NEW s \in Slaves, Bury(s) PROVE Buried'
  <2>1. NowGone(s)
    BY <1>4 DEF Bury, Gone, Open, slaves
  <2>2. dead' = <<s>> \o dead
    BY <1>4 DEF Bury
  <2>3. dead \in Seq(Slaves) /\ <<s>> \in Seq(Slaves) /\ Len(<<s>>) = 1
    BY DEF TypeInv, SocketsType
  <2>4. Len(dead') = 1 + Len(dead) /\ dead'[1] = s
        /\ \A i \in 2 .. Len(dead) + 1 : dead'[i] = dead[i - 1]
    BY <1>0, <2>2, <2>3, ConcatProperties
  <2>5. \A i \in 2 .. Len(dead) + 1 : i - 1 \in 1 .. Len(dead)
    BY <1>0
  <2>6. \A i \in 1 .. Len(dead) + 1 : i = 1 \/ i \in 2 .. Len(dead) + 1
    BY <1>0
  <2>7. QED BY <1>0, <1>1, <2>1, <2>4, <2>5, <2>6 DEF Buried
<1>5. QED BY <1>2, <1>3, <1>4, DeadStep

LEMMA AppendedIs ==
    ASSUME NEW T, NEW q \in Seq(T), NEW x \in T
    PROVE  /\ Append(q, x) \in Seq(T) /\ Len(Append(q, x)) = Len(q) + 1
           /\ Len(q) \in Nat
           /\ \A i \in 1 .. Len(q) : Append(q, x)[i] = q[i]
           /\ Append(q, x)[Len(q) + 1] = x
BY AppendProperties, LenProperties

LEMMA TailIs ==
    ASSUME NEW T, NEW q \in Seq(T), q # <<>>
    PROVE  /\ Tail(q) \in Seq(T) /\ Len(Tail(q)) = Len(q) - 1 /\ Len(q) \in Nat \ {0}
           /\ Head(q) = q[1] /\ Head(q) \in T
           /\ \A i \in 1 .. Len(q) - 1 : Tail(q)[i] = q[i + 1]
<1>1. Len(q) \in Nat /\ Len(q) # 0
  BY LenProperties, EmptySeq
<1>2. QED BY <1>1, HeadTailProperties

LEMMA OpenStill ==
    ASSUME TypeInv, Ring, Open, Next
    PROVE  Open'
<1> DEFINE T == Units \cup {MESG, COMPLETE}
<1> DEFINE Clean(s) == /\ \A i \in 1 .. Len(inbox[s]) : inbox[s][i] # COMPLETE
                       /\ state[s] = "gone" => inbox[s] = <<>>
<1>1. \A s \in Slaves : inbox[s] \in Seq(T)
  BY DEF TypeInv, SlavesType
<1>2. \A u \in Units : u \in T /\ u # COMPLETE
  BY Kinds
<1>3. MESG \in T /\ MESG # COMPLETE
  BY Kinds
<1>4. ASSUME NEW s \in Slaves, NEW x \in T \ {COMPLETE}, Sent(s, x), UNCHANGED state,
             \A t \in Slaves : Clean(t)
      PROVE  \A t \in Slaves : Clean(t)'
  <2> TAKE t \in Slaves
  <2>1. CASE inbox'[t] = inbox[t]
    BY <1>4, <2>1
  <2>2. CASE t = s /\ state[s] = "up"
    <3>1. inbox'[t] = Append(inbox[t], x)
      BY <1>4, <2>2, SentTo
    <3> HIDE DEF T
    <3>2. \A i \in 1 .. Len(inbox'[t]) : i = Len(inbox[t]) + 1 \/ i \in 1 .. Len(inbox[t])
      BY <1>1, <3>1, AppendedIs
    <3>3. QED BY <1>1, <1>4, <2>2, <3>1, <3>2, AppendedIs
  <2>3. QED BY <1>4, <2>1, <2>2, SentTo
<1>5. ASSUME NEW th \in Posts, SendMessage(th) PROVE Open'
  <2>1. sock[th] \in Slaves
    BY <1>5 DEF SendMessage, At, TypeInv, ThreadsType, InSendWork
  <2>2. QED BY <1>3, <1>4, <1>5, <2>1 DEF SendMessage, Open, ends
<1>6. ASSUME NEW th \in Posts, TakeWork(th) PROVE Open'
  <2>1. sock[th] \in Slaves /\ buffer[pos_read] \in Units
    BY <1>6, TakenIsUnit DEF TakeWork, At
  <2>2. QED BY <1>2, <1>4, <1>6, <2>1 DEF TakeWork, Open, ends
<1>7. ASSUME Requeue \/ \E t \in Slaves : Bury(t) \/ Receive(t) PROVE Open'
  BY <1>7 DEF Requeue, Bury, Receive, Open, slaves, ends
<1>8. ASSUME NEW t \in Slaves, Accept(t) PROVE Open'
  BY <1>8 DEF Accept, Open, TypeInv, SlavesType, ends
<1>9. CASE Close
  BY <1>9 DEF Close, Open
<1>10. ASSUME NEW t \in Slaves, Slave(t) PROVE Open'
  <2>1. inbox[t] \in Seq(T) /\ inbox[t] # <<>> /\ inbox' = [inbox EXCEPT ![t] = Tail(inbox[t])]
    BY <1>1, <1>10 DEF Slave
  <2>2. inbox'[t] = Tail(inbox[t]) /\ \A s \in Slaves \ {t} : inbox'[s] = inbox[s]
    BY <2>1 DEF TypeInv, SlavesType
  <2>3. Len(inbox[t]) \in Nat \ {0} /\ Head(inbox[t]) = inbox[t][1]
        /\ Len(inbox'[t]) = Len(inbox[t]) - 1
        /\ \A i \in 1 .. Len(inbox[t]) - 1 : inbox'[t][i] = inbox[t][i + 1]
    <3> HIDE DEF T
    <3>1. /\ Len(Tail(inbox[t])) = Len(inbox[t]) - 1 /\ Len(inbox[t]) \in Nat \ {0}
          /\ Head(inbox[t]) = inbox[t][1]
          /\ \A i \in 1 .. Len(inbox[t]) - 1 : Tail(inbox[t])[i] = inbox[t][i + 1]
      BY <2>1, TailIs
    <3>2. QED BY <2>2, <3>1
  <2>4. SUFFICES ASSUME ~halt_networking
                 PROVE  \A s \in Slaves : Clean(s)'
    BY <1>10 DEF Slave, Open, ends
  <2>5. \A s \in Slaves : Clean(s)
    BY <2>4 DEF Open
  <2>6. Head(inbox[t]) # COMPLETE
    BY <2>3, <2>5
  <2>7. state' = state
    BY <1>10, <2>6 DEF Slave
  <2>8. \A i \in 1 .. Len(inbox[t]) - 1 : i + 1 \in 1 .. Len(inbox[t])
    BY <2>3
  <2>9. Clean(t)'
    BY <1>10, <2>3, <2>5, <2>7, <2>8 DEF Slave
  <2>10. QED BY <2>2, <2>5, <2>7, <2>9
<1>11. ASSUME NEW t \in Slaves, Die(t) PROVE Open'
  BY <1>11 DEF Die, Open, TypeInv, SlavesType, ends
<1>12. QED BY <1>5, <1>6, <1>7, <1>8, <1>9, <1>10, <1>11, Steps,
OthersSendNothing DEF Open

-----------------------------------------------------------------------------
(* A slave has at most one unit, the one in its socket's work.             *)

NoUnit(q) == \A i \in 1 .. Len(q) : q[i] \in Broadcasts

OneUnit(q, u) ==
    /\ u \notin Broadcasts
    /\ \E i \in 1 .. Len(q) : q[i] = u /\ \A j \in (1 .. Len(q)) \ {i} : q[j] \in Broadcasts

Free(s) == NoUnit(inbox[s]) /\ outbox[s] = <<>>
Asked(s) == work[s] # None /\ OneUnit(inbox[s], work[s]) /\ outbox[s] = <<>>
Answered(s) == work[s] # None /\ NoUnit(inbox[s]) /\ outbox[s] = <<work[s]>>
Loaded(s) == Asked(s) \/ Answered(s)

(* Its last unit is back.                                                  *)
Settled(s) == Free(s) /\ work[s] \in seen \cup {result, None}

Serves(th, s) == pc[th] \in InSendWork /\ sock[th] = s
Returning(s) == Serves("net", s) /\ back["net"] = "callback"

Service ==
    /\ \A s \in Slaves : Free(s) \/ Loaded(s)
    /\ \A s \in Slaves : idle[s] => Settled(s)
    /\ \A th \in Posts, s \in Slaves : Serves(th, s) => Settled(s)
    /\ \A th \in Posts : pc[th] = "taking" => ~idle[sock[th]]
    /\ \A s \in Slaves : Returning(s) => ~idle[s] /\ ~Serves("app", s)

(* net goes round the slaves it has a broadcast for.                       *)
Waking ==
    \/ pc["net"] \in {"wake", "post"}
    \/ pc["net"] \in InSendWork /\ back["net"] = "wake"

(* Meanwhile no unit is sent.                                              *)
Quiet == Waking => \A th \in Posts : pc[th] # "taking"

LEMMA UnitAppended ==
    ASSUME NEW T, NEW q \in Seq(T), NEW x \in T
    PROVE  /\ x \in Broadcasts =>
                 /\ NoUnit(q) => NoUnit(Append(q, x))
                 /\ \A u : OneUnit(q, u) => OneUnit(Append(q, x), u)
           /\ x \notin Broadcasts /\ NoUnit(q) => OneUnit(Append(q, x), x)
<1> DEFINE r == Append(q, x)
<1>1. /\ Len(r) = Len(q) + 1 /\ Len(q) \in Nat
      /\ \A i \in 1 .. Len(q) : r[i] = q[i]
      /\ r[Len(q) + 1] = x
  BY AppendedIs
<1> HIDE DEF r
<1>2. \A i \in 1 .. Len(r) : i \in 1 .. Len(q) \/ i = Len(q) + 1
  BY <1>1
<1>3. x \in Broadcasts /\ NoUnit(q) => NoUnit(r)
  BY <1>1, <1>2 DEF NoUnit
<1>4. ASSUME x \in Broadcasts, NEW u, OneUnit(q, u) PROVE OneUnit(r, u)
  BY <1>1, <1>2, <1>4 DEF OneUnit
<1>5. ASSUME x \notin Broadcasts, NoUnit(q) PROVE OneUnit(r, x)
  <2>1. Len(q) + 1 \in 1 .. Len(r)
    BY <1>1
  <2>2. \A j \in (1 .. Len(r)) \ {Len(q) + 1} : r[j] \in Broadcasts
    BY <1>1, <1>2, <1>5 DEF NoUnit
  <2>3. QED BY <1>1, <1>5, <2>1, <2>2 DEF OneUnit
<1>6. QED BY <1>3, <1>4, <1>5 DEF r

LEMMA UnitRemoved ==
    ASSUME NEW T, NEW q \in Seq(T), q # <<>>
    PROVE  /\ NoUnit(q) => Head(q) \in Broadcasts /\ NoUnit(Tail(q))
           /\ \A u : OneUnit(q, u) /\ Head(q) \in Broadcasts => OneUnit(Tail(q), u)
           /\ \A u : OneUnit(q, u) /\ Head(q) \notin Broadcasts =>
                         Head(q) = u /\ NoUnit(Tail(q))
<1> DEFINE r == Tail(q)
<1>1. /\ Len(r) = Len(q) - 1 /\ Len(q) \in Nat \ {0} /\ Head(q) = q[1]
      /\ \A i \in 1 .. Len(q) - 1 : r[i] = q[i + 1]
  BY TailIs
<1> HIDE DEF r
<1>2. \A i \in 1 .. Len(r) : i + 1 \in 1 .. Len(q) /\ i + 1 # 1 /\ r[i] = q[i + 1]
  BY <1>1
<1>3. NoUnit(q) => Head(q) \in Broadcasts /\ NoUnit(r)
  BY <1>1, <1>2 DEF NoUnit
<1>4. ASSUME NEW u, OneUnit(q, u), Head(q) \in Broadcasts PROVE OneUnit(r, u)
  <2>1. PICK i \in 1 .. Len(q) :
                q[i] = u /\ \A j \in (1 .. Len(q)) \ {i} : q[j] \in Broadcasts
    BY <1>4 DEF OneUnit
  <2>2. u \notin Broadcasts
    BY <1>4 DEF OneUnit
  <2>3. i # 1
    BY <1>1, <1>4, <2>1, <2>2
  <2>4. i - 1 \in 1 .. Len(r) /\ r[i - 1] = u
    BY <1>1, <2>1, <2>3
  <2>5. \A j \in (1 .. Len(r)) \ {i - 1} : r[j] \in Broadcasts
    BY <1>1, <1>2, <2>1
  <2>6. QED BY <2>2, <2>4, <2>5 DEF OneUnit
<1>5. ASSUME NEW u, OneUnit(q, u), Head(q) \notin Broadcasts
      PROVE  Head(q) = u /\ NoUnit(r)
  <2>1. PICK i \in 1 .. Len(q) :
                q[i] = u /\ \A j \in (1 .. Len(q)) \ {i} : q[j] \in Broadcasts
    BY <1>5 DEF OneUnit
  <2>2. i = 1
    BY <1>1, <1>5, <2>1
  <2>3. QED BY <1>1, <1>2, <2>1, <2>2 DEF NoUnit
<1>6. QED BY <1>3, <1>4, <1>5 DEF r

LEMMA NotBoth ==
    /\ \A q, u : ~(NoUnit(q) /\ OneUnit(q, u))
    /\ NoUnit(<<>>)
BY DEF NoUnit, OneUnit

-----------------------------------------------------------------------------
(* What a step makes of a slave.                                           *)

Keeps(s) ==
    /\ Free(s) => Free(s)'
    /\ Asked(s) => Asked(s)'
    /\ Answered(s) => Answered(s)'
    /\ work'[s] = work[s]

LEMMA KeepsStill ==
    ASSUME NEW s, inbox'[s] = inbox[s], outbox'[s] = outbox[s], work'[s] = work[s]
    PROVE  Keeps(s)
BY DEF Keeps, Free, Asked, Answered

LEMMA KeepsTold ==
    ASSUME TypeInv, NEW s \in Slaves, NEW b \in Broadcasts,
           inbox'[s] \in {inbox[s], Append(inbox[s], b)},
           outbox'[s] = outbox[s], work'[s] = work[s]
    PROVE  Keeps(s)
<1> DEFINE T == Units \cup Broadcasts
<1>1. inbox[s] \in Seq(T) /\ b \in T
  BY DEF TypeInv, SlavesType, Broadcasts
<1> HIDE DEF T
<1>2. QED BY <1>1, UnitAppended DEF Keeps, Free, Asked, Answered

LEMMA KeepsSendMessage ==
    ASSUME TypeInv, NEW th \in Posts, SendMessage(th)
    PROVE  \A s \in Slaves : Keeps(s)
<1>1. sock[th] \in Slaves /\ MESG \in Broadcasts
  BY DEF SendMessage, At, TypeInv, ThreadsType, InSendWork, Broadcasts
<1>2. \A s \in Slaves : inbox'[s] \in {inbox[s], Append(inbox[s], MESG)}
  BY <1>1, SentTo DEF SendMessage, TypeInv, SlavesType
<1>3. QED BY <1>1, <1>2, KeepsTold DEF SendMessage

LEMMA KeepsClose ==
    ASSUME TypeInv, Close
    PROVE  \A s \in Slaves : Keeps(s)
<1>1. COMPLETE \in Broadcasts
  BY DEF Broadcasts
<1>2. QED BY <1>1, CloseSends, KeepsTold DEF Close, sockets

LEMMA SlotTakeWork ==
    ASSUME TypeInv, Ring, NEW th \in Posts, TakeWork(th),
           NEW s, s = sock[th], Free(s)
    PROVE  /\ s \in Slaves /\ work'[s] = pushed[taken + 1]
           /\ state[s] = "up" => Asked(s)'
           /\ state[s] # "up" => Free(s)'
           /\ \A t \in Slaves \ {s} : Keeps(t)
<1> DEFINE u == buffer[pos_read]
           T == Units \cup Broadcasts
<1>1. s \in Slaves /\ u \in Units /\ u = pushed[taken + 1] /\ sock' = sock
  BY TakenIsUnit DEF TakeWork, At, threads
<1>2. u \notin Broadcasts /\ u # None
  BY <1>1, Kinds DEF Broadcasts
<1>3. work' = [work EXCEPT ![s] = u] /\ Sent(s, u) /\ outbox' = outbox
  BY DEF TakeWork
<1>4. work'[s] = u /\ \A t \in Slaves \ {s} : work'[t] = work[t]
  BY <1>1, <1>3 DEF TypeInv, SocketsType
<1>5. \A t \in Slaves \ {s} : Keeps(t)
  BY <1>1, <1>3, <1>4, SentTo, KeepsStill
<1>6. inbox[s] \in Seq(T) /\ u \in T
  BY <1>1 DEF TypeInv, SlavesType, Broadcasts
<1>7. state[s] = "up" => OneUnit(inbox'[s], u)
  <2> SUFFICES ASSUME state[s] = "up" PROVE OneUnit(inbox'[s], u)
    OBVIOUS
  <2>1. inbox'[s] = Append(inbox[s], u)
    BY <1>1, <1>3, SentTo
  <2> HIDE DEF T
  <2>2. QED BY <1>2, <1>6, <2>1, UnitAppended DEF Free
<1>8. state[s] # "up" => inbox'[s] = inbox[s]
  BY <1>1, <1>3, SentTo
<1>9. outbox'[s] = <<>>
  BY <1>3 DEF Free
<1>10. QED BY <1>1, <1>2, <1>4, <1>5, <1>7, <1>8, <1>9 DEF Asked, Free

LEMMA SlotReceive ==
    ASSUME TypeInv, NEW s \in Slaves, Free(s) \/ Loaded(s), Receive(s)
    PROVE  /\ Answered(s) /\ ~Free(s) /\ Free(s)' /\ result' = work[s] /\ work' = work
           /\ \A t \in Slaves \ {s} : Keeps(t)
<1>1. outbox[s] # <<>> /\ outbox' = [outbox EXCEPT ![s] = Tail(outbox[s])]
      /\ inbox' = inbox /\ work' = work /\ result' = Head(outbox[s])
  BY DEF Receive, sockets
<1>2. Answered(s)
  BY <1>1 DEF Free, Loaded, Asked
<1>3. Tail(outbox[s]) = <<>> /\ Head(outbox[s]) = work[s]
  BY <1>2 DEF Answered
<1>4. outbox'[s] = <<>> /\ \A t \in Slaves \ {s} : outbox'[t] = outbox[t]
  BY <1>1, <1>3 DEF TypeInv, SlavesType
<1>5. QED BY <1>1, <1>2, <1>3, <1>4, KeepsStill DEF Free, Answered

LEMMA SlotRequeue ==
    ASSUME TypeInv, Buried, NEW s, s = Head(dead), Requeue
    PROVE  /\ s \in Slaves /\ Free(s) /\ Free(s)' /\ work'[s] = None
           /\ \A t \in Slaves \ {s} : Keeps(t)
<1>1. dead # <<>> /\ inbox' = inbox /\ outbox' = outbox
      /\ (IF work[s] = None THEN work' = work ELSE work' = [work EXCEPT ![s] = None])
  BY DEF Requeue, slaves
<1>2. s \in Slaves /\ s = dead[1] /\ 1 \in 1 .. Len(dead)
  BY <1>1, TailIs DEF TypeInv, SocketsType
<1>3. Gone(s)
  BY <1>2 DEF Buried, Gone
<1>4. work'[s] = None /\ \A t \in Slaves \ {s} : work'[t] = work[t]
  BY <1>1, <1>2 DEF TypeInv, SocketsType
<1>5. inbox'[s] = <<>> /\ outbox'[s] = <<>>
  BY <1>1, <1>3 DEF Gone
<1>6. QED BY <1>1, <1>2, <1>3, <1>4, <1>5, NotBoth, KeepsStill DEF Free, Gone

LEMMA SlotSlave ==
    ASSUME TypeInv, NEW s \in Slaves, Free(s) \/ Loaded(s), Slave(s)
    PROVE  /\ \/ Head(inbox[s]) \in Broadcasts /\ Keeps(s)
              \/ Asked(s) /\ Head(inbox[s]) = work[s] /\ Answered(s)'
           /\ Free(s) => Free(s)'
           /\ Loaded(s) => Loaded(s)'
           /\ work' = work
           /\ \A t \in Slaves \ {s} : Keeps(t)
<1> DEFINE T == Units \cup Broadcasts
           what == Head(inbox[s])
<1>1. inbox[s] \in Seq(T) /\ inbox[s] # <<>> /\ work' = work
      /\ inbox'[s] = Tail(inbox[s]) /\ \A t \in Slaves \ {s} : inbox'[t] = inbox[t]
  BY DEF Slave, TypeInv, SlavesType, sockets, Broadcasts
<1>2. what \in Broadcasts => UNCHANGED outbox
  BY Kinds DEF Slave, Broadcasts
<1>3. what \notin Broadcasts => outbox' = [outbox EXCEPT ![s] = Append(@, what)]
  BY DEF Slave, Broadcasts
<1>4. \A t \in Slaves \ {s} : outbox'[t] = outbox[t]
  BY DEF Slave, TypeInv, SlavesType
<1>5. what \notin Broadcasts => outbox'[s] = Append(outbox[s], what)
  BY <1>3 DEF TypeInv, SlavesType
<1> HIDE DEF T
<1>6. /\ NoUnit(inbox[s]) => what \in Broadcasts /\ NoUnit(inbox'[s])
      /\ OneUnit(inbox[s], work[s]) /\ what \in Broadcasts => OneUnit(inbox'[s], work[s])
      /\ OneUnit(inbox[s], work[s]) /\ what \notin Broadcasts =>
             what = work[s] /\ NoUnit(inbox'[s])
  BY <1>1, UnitRemoved
<1> HIDE DEF what
<1>7. ASSUME Free(s) PROVE Free(s)'
  BY <1>2, <1>6, <1>7 DEF Free
<1>8. ASSUME Answered(s) PROVE Answered(s)'
  BY <1>1, <1>2, <1>6, <1>8 DEF Answered
<1>9. ASSUME Asked(s), what \in Broadcasts PROVE Asked(s)'
  BY <1>1, <1>2, <1>6, <1>9 DEF Asked
<1>10. ASSUME Asked(s), what \notin Broadcasts PROVE what = work[s] /\ Answered(s)'
  <2>1. outbox'[s] = <<work[s]>>
    BY <1>5, <1>6, <1>10 DEF Asked
  <2>2. QED BY <1>1, <1>6, <1>10, <2>1 DEF Asked, Answered
<1>11. what \notin Broadcasts => Asked(s)
  BY <1>6 DEF Free, Loaded, Answered
<1>12. \A t \in Slaves \ {s} : Keeps(t)
  BY <1>1, <1>4, KeepsStill
<1>13. QED BY <1>1, <1>7, <1>8, <1>9, <1>10, <1>11, <1>12 DEF Loaded, Keeps, what

LEMMA SlotDie ==
    ASSUME TypeInv, NEW s \in Slaves, Die(s)
    PROVE  /\ Free(s) => Free(s)'
           /\ Loaded(s) => Free(s)' \/ Loaded(s)'
           /\ work' = work
           /\ \A t \in Slaves \ {s} : Keeps(t)
<1>1. inbox'[s] = <<>> /\ outbox'[s] \in {outbox[s], <<>>} /\ work' = work
      /\ \A t \in Slaves \ {s} : inbox'[t] = inbox[t] /\ outbox'[t] = outbox[t]
  BY DEF Die, TypeInv, SlavesType, sockets
<1>2. QED BY <1>1, NotBoth, KeepsStill DEF Free, Loaded, Asked, Answered

-----------------------------------------------------------------------------
(* Service goes on.                                                        *)

(* No slave is marked idle and no thread comes to stand at one.            *)
Rests ==
    /\ seen \cup {result, None} \subseteq seen' \cup {result', None}
    /\ \A s \in Slaves : idle'[s] => idle[s]
    /\ \A th \in Posts : pc'[th] \in InSendWork =>
           pc[th] \in InSendWork /\ UNCHANGED <<sock[th], back[th]>>
    /\ \A th \in Posts : pc'[th] = "taking" => pc[th] = "taking"

LEMMA OthersRest ==
    ASSUME TypeInv, Returned, RestingStep
    PROVE  Rests
<1> USE DEF At, InSendWork, Posts, Threads, AppPlaces, NetPlaces,
            MainPlaces, requests, threads, ring, ends, sockets, slaves,
            frames, TypeInv, PlacesType, ThreadsType, Rests
<1>1. ASSUME NEW th \in Posts, SendRefused(th) PROVE Rests
  BY <1>1, AfterWakePlace, Kinds DEF SendRefused
<1>2. ASSUME NEW th \in Posts, SendMessage(th) PROVE Rests
  BY <1>2, AfterWakePlace, Kinds DEF SendMessage, Sent
<1>3. CASE NextRequest
  BY <1>3, AfterWakePlace, Kinds DEF NextRequest, Post
<1>4. CASE NoMoreRequests \/ NoneDead \/ RequestSent \/ Reply
  BY <1>4, AfterWakePlace, Kinds DEF NoMoreRequests, NoneDead, RequestSent, Reply
<1>5. CASE Push
  BY <1>5, AfterWakePlace, Kinds DEF Push, Fill
<1>6. ASSUME NEW s \in Slaves, Bury(s) PROVE Rests
  BY <1>6, AfterWakePlace, Kinds DEF Bury
<1>7. ASSUME NEW s \in Slaves, Accept(s) PROVE Rests
  BY <1>7, AfterWakePlace, Kinds DEF Accept
<1>8. CASE Callback
  BY <1>8, AfterWakePlace, Kinds DEF Callback, Post, Updated, Complete, Returned
<1>9. CASE PostFrame \/ NoneOut \/ NothingLeft \/ Halt
  BY <1>9, AfterWakePlace, Kinds
     DEF PostFrame, Updated, NoneOut, NothingLeft, Halt
<1>10. CASE Wait \/ Shutdown \/ Close
  BY <1>10, AfterWakePlace, Kinds DEF Wait, Shutdown, Close
<1>11. ASSUME NEW s \in Slaves, Slave(s) \/ Die(s) PROVE Rests
  BY <1>11, AfterWakePlace, Kinds DEF Slave, Die
<1>12. QED BY <1>1, <1>2, <1>3, <1>4, <1>5, <1>6, <1>7, <1>8, <1>9, <1>10,
<1>11 DEF RestingStep

LEMMA ServiceRests ==
    ASSUME TypeInv, Service, Rests,
           \A s \in Slaves : /\ Free(s) => Free(s)'
                             /\ Loaded(s) => Free(s)' \/ Loaded(s)'
                             /\ work'[s] = work[s]
    PROVE  Service'
<1>1. \A s \in Slaves : Settled(s) => Settled(s)'
  BY DEF Settled, Rests
<1>2. \A th \in Posts, s \in Slaves : Serves(th, s)' => Serves(th, s)
  BY DEF Rests, Serves
<1>3. \A s \in Slaves : Returning(s)' => Returning(s)
  BY <1>2 DEF Rests, Returning, Serves, Posts
<1>4. \A th \in Posts : pc'[th] = "taking" => ~idle'[sock'[th]]
  BY DEF Rests, Service, TypeInv, ThreadsType, InSendWork
<1>5. "app" \in Posts
  BY DEF Posts
<1>6. QED BY <1>1, <1>2, <1>3, <1>4, <1>5 DEF Service, Rests

LEMMA ServiceOthers ==
    ASSUME TypeInv, Returned, Service,
           RestingStep
    PROVE  Service'
<1>1. Rests
  BY OthersRest
<1>2. ASSUME NEW th \in Posts, SendMessage(th) PROVE Service'
  BY <1>1, <1>2, KeepsSendMessage, ServiceRests DEF Keeps, Loaded
<1>3. CASE Close
  BY <1>1, <1>3, KeepsClose, ServiceRests DEF Keeps, Loaded
<1>4. ASSUME NEW s \in Slaves, Slave(s) PROVE Service'
  BY <1>1, <1>4, SlotSlave, ServiceRests DEF Service, Keeps, Loaded
<1>5. ASSUME NEW s \in Slaves, Die(s) PROVE Service'
  BY <1>1, <1>5, SlotDie, ServiceRests DEF Keeps, Loaded
<1>6. ASSUME NEW s \in Slaves, Bury(s) \/ Accept(s) PROVE Service'
  <2>1. \A t \in Slaves : Keeps(t)
    BY <1>6, KeepsStill DEF Bury, Accept, slaves
  <2>2. QED BY <1>1, <2>1, ServiceRests DEF Keeps, Loaded
<1>7. ASSUME UNCHANGED <<inbox, outbox, work>> PROVE Service'
  BY <1>1, <1>7, KeepsStill, ServiceRests DEF Keeps, Loaded
<1>8. QED BY <1>2, <1>3, <1>4, <1>5, <1>6, <1>7, OthersSendNothing DEF RestingStep,
SilentStep

LEMMA ServiceLookForWork ==
    ASSUME TypeInv, Service, Mutex, NEW th \in Posts, LookForWork(th)
    PROVE  Service'
<1> USE DEF Posts, Threads
<1>1. sock[th] \in Slaves /\ Serves(th, sock[th])
  BY DEF LookForWork, At, TypeInv, ThreadsType, InSendWork, Serves
<1>2. UNCHANGED <<inbox, outbox, work, seen, result, sock, back>>
      /\ \A s \in Slaves : idle'[s] => idle[s]
  BY DEF LookForWork, slaves, frames, threads, TypeInv, SocketsType
<1>3. \A s \in Slaves : Keeps(s) /\ (Settled(s) => Settled(s)')
  BY <1>2, KeepsStill DEF Settled, Free
<1>4. \A t \in Posts, s \in Slaves : Serves(t, s)' <=> Serves(t, s)
  BY <1>2 DEF LookForWork, At, Serves, InSendWork, TypeInv, PlacesType
<1>5. \A s \in Slaves : Returning(s)' => Returning(s)
  BY <1>2, <1>4 DEF Returning
<1>6. \A t \in Posts : pc[t] # "taking"
  BY Kinds DEF LookForWork, Mutex
<1>7. \A t \in Posts : pc'[t] = "taking" => ~idle'[sock'[t]]
  BY <1>1, <1>2, <1>6 DEF LookForWork, At, TypeInv, PlacesType, SocketsType
<1>8. QED BY <1>2, <1>3, <1>4, <1>5, <1>7 DEF Service, Keeps, Loaded

(* The mark follows the look at the semaphore: another thread could only   *)
(* have taken a unit for this slave by standing at it too.                 *)
LEMMA ServiceEnterIdle ==
    ASSUME TypeInv, Service, Mutex, NEW th \in Posts, EnterIdle(th)
    PROVE  Service'
<1> USE DEF Posts, Threads
<1>0. PICK s : s = sock[th]
  OBVIOUS
<1>1. s \in Slaves /\ Serves(th, s) /\ pc[th] = "resting"
  BY <1>0 DEF EnterIdle, At, TypeInv, ThreadsType, InSendWork, Serves
<1>2. UNCHANGED <<inbox, outbox, work, seen, result, sock, back>>
      /\ idle' = [idle EXCEPT ![s] = TRUE]
  BY <1>0 DEF EnterIdle, slaves, frames, threads
<1>3. \A t \in Slaves : Keeps(t) /\ (Settled(t) => Settled(t)')
  BY <1>2, KeepsStill DEF Settled, Free
<1>4. /\ \A t \in Posts, u \in Slaves : Serves(t, u)' => Serves(t, u)
      /\ ~Serves(th, s)'
  BY <1>1, <1>2 DEF EnterIdle, At, Serves, InSendWork, TypeInv, PlacesType,
       ThreadsType
<1>5. \A u \in Slaves : Returning(u)' => Returning(u) /\ u # s
  <2>1. Serves("app", s) => ~Returning(s)
    BY <1>1 DEF Service
  <2>2. th = "net" => ~Returning(s)'
    BY <1>4 DEF Returning
  <2>3. QED BY <1>1, <1>2, <1>4, <2>1, <2>2 DEF Returning
<1>6. \A t \in Posts : pc'[t] # "taking"
  BY <1>1 DEF EnterIdle, At, Mutex, TypeInv, PlacesType, ThreadsType
<1>7. Settled(s)
  BY <1>1 DEF Service
<1>8. QED BY <1>1, <1>2, <1>3, <1>4, <1>5, <1>6, <1>7
      DEF Service, Keeps, Loaded, TypeInv, SocketsType

LEMMA ServiceWakeIdle ==
    ASSUME TypeInv, Service, WakeIdleStep
    PROVE  Service'
<1> USE DEF Posts, Threads
<1>1. UNCHANGED <<inbox, outbox, work, seen, result, idle>>
  BY DEF WakeIdleStep, WakeIdle, slaves, frames, sockets
<1>2. \A t \in Slaves : Keeps(t) /\ (Settled(t) => Settled(t)')
  BY <1>1, KeepsStill DEF Settled, Free
<1>3. \A th \in Posts : UNCHANGED <<pc[th], sock[th], back[th]>>
                        \/ pc'[th] \notin InSendWork
                        \/ /\ pc'[th] = "send" /\ back'[th] = "wake"
                           /\ sock'[th] \in Slaves /\ idle[sock'[th]]
  BY AfterWakePlace DEF WakeIdleStep, WakeIdle, At, InSendWork, TypeInv, PlacesType,
     ThreadsType, threads
<1>4. \A th \in Posts, s \in Slaves : Serves(th, s)' => Serves(th, s) \/ idle[s]
  BY <1>3 DEF Serves
<1>5. \A s \in Slaves : Returning(s)' => Returning(s)
  BY <1>3 DEF Returning, Serves
<1>6. \A th \in Posts : pc'[th] = "taking" => pc[th] = "taking" /\ sock'[th] = sock[th]
  BY <1>3 DEF InSendWork
<1>7. QED BY <1>1, <1>2, <1>4, <1>5, <1>6 DEF Service, Keeps, Loaded

LEMMA ServiceReceive ==
    ASSUME TypeInv, Returned, Service, NEW s \in Slaves, Receive(s)
    PROVE  Service'
<1> USE DEF Posts, Threads
<1>1. /\ Answered(s) /\ ~Free(s) /\ Free(s)' /\ result' = work[s] /\ work' = work
      /\ \A t \in Slaves \ {s} : Keeps(t)
  BY SlotReceive DEF Service
<1>2. pc["net"] = "select" /\ result = None
  BY DEF Receive, At, Returned, InSendWork
<1>3. Settled(s)' /\ \A t \in Slaves : Settled(t) => Settled(t)'
  BY <1>1, <1>2 DEF Settled, Receive, frames, Keeps
<1>4. UNCHANGED idle /\ ~idle[s] /\ \A th \in Posts : ~Serves(th, s)
  BY <1>1 DEF Service, Settled, Receive, sockets
<1>5. \A th \in Posts, t \in Slaves : Serves(th, t)' => Serves(th, t) \/ (t = s /\ th = "net")
  BY DEF Serves, Receive, At, TypeInv, PlacesType, ThreadsType, InSendWork
<1>6. \A t \in Slaves : Returning(t)' => t = s
  BY <1>2, <1>5 DEF Returning, Serves, InSendWork
<1>7. \A th \in Posts : pc'[th] = "taking" => pc[th] = "taking" /\ sock'[th] = sock[th]
  BY DEF Receive, At, TypeInv, PlacesType, ThreadsType
<1>8. QED BY <1>1, <1>3, <1>4, <1>5, <1>6, <1>7 DEF Service, Keeps, Loaded

LEMMA ServiceRequeue ==
    ASSUME TypeInv, Buried, Service, Requeue
    PROVE  Service'
<1> USE DEF Posts, Threads
<1>0. PICK s : s = Head(dead)
  OBVIOUS
<1>1. /\ s \in Slaves /\ Free(s) /\ NoUnit(inbox'[s]) /\ outbox'[s] = <<>> /\ work'[s] = None
      /\ \A t \in Slaves \ {s} : Keeps(t)
  BY <1>0, SlotRequeue DEF Free
<1>2. UNCHANGED <<seen, result, sock, back, idle>>
  BY DEF Requeue, frames, threads
<1>3. \A t \in Slaves : Settled(t) => Settled(t)'
  BY <1>1, <1>2 DEF Settled, Keeps, Free
<1>4. \A t \in Slaves : Free(t)' \/ Loaded(t)'
  BY <1>1 DEF Service, Keeps, Loaded, Free
<1>5. \A th \in Posts, t \in Slaves : Serves(th, t)' => Serves(th, t)
  BY <1>2 DEF Serves, Requeue, At, TypeInv, PlacesType, InSendWork
<1>6. \A t \in Slaves : Returning(t)' => Returning(t)
  BY <1>2, <1>5 DEF Returning
<1>7. \A th \in Posts : pc'[th] = "taking" => pc[th] = "taking"
  BY DEF Requeue, At, TypeInv, PlacesType
<1>8. QED BY <1>2, <1>3, <1>4, <1>5, <1>6, <1>7 DEF Service

LEMMA ServiceTakeWork ==
    ASSUME TypeInv, Ring, Mutex, Quiet, Service, NEW th \in Posts, TakeWork(th)
    PROVE  Service'
<1> USE DEF Posts, Threads
<1>0. PICK s : s = sock[th]
  OBVIOUS
<1>1. s \in Slaves /\ Serves(th, s) /\ pc[th] = "taking" /\ ~idle[s]
  BY <1>0 DEF TakeWork, At, TypeInv, ThreadsType, InSendWork, Serves, Service
<1>2. Settled(s)
  BY <1>1 DEF Service
<1>3. UNCHANGED <<seen, result, sock, back, idle>>
  BY DEF TakeWork, frames, threads
<1>4. /\ work'[s] = pushed[taken + 1]
      /\ Asked(s)' \/ Free(s)'
      /\ \A t \in Slaves \ {s} : Keeps(t)
  <2>1. state[s] = "up" => Asked(s)'
    BY <1>0, <1>2, SlotTakeWork DEF Settled, Asked
  <2>2. state[s] # "up" => Free(s)'
    BY <1>0, <1>2, SlotTakeWork DEF Settled, Free
  <2>3. QED BY <1>0, <1>2, <2>1, <2>2, SlotTakeWork DEF Settled
<1>5. ~Waking
  BY <1>1 DEF Quiet
<1>6. \A t \in Posts : t # th => ~Serves(t, s)
  <2>1. CASE th = "app"
    <3>1. ~Returning(s)
      BY <1>1, <2>1 DEF Service
    <3>2. QED BY <1>5, <2>1, <3>1 DEF Returning, Waking, Serves, TypeInv,
    ThreadsType
  <2>2. CASE th = "net"
    <3>1. Returning(s)
      BY <1>1, <1>5, <2>2 DEF Returning, Waking, Serves, TypeInv, ThreadsType
    <3>2. QED BY <1>1, <2>2, <3>1 DEF Service
  <2>3. QED BY <2>1, <2>2
<1>7. /\ \A t \in Posts, u \in Slaves : Serves(t, u)' => Serves(t, u)
      /\ ~Serves(th, s)'
  BY <1>1, <1>3 DEF TakeWork, At, Serves, InSendWork, TypeInv, PlacesType,
       ThreadsType
<1>8. \A u \in Slaves : Returning(u)' => Returning(u)
  BY <1>3, <1>7 DEF Returning
<1>9. \A t \in Posts : pc'[t] # "taking"
  BY <1>1, TakingIs DEF TakeWork, At, TypeInv, PlacesType, ThreadsType
<1>10. \A t \in Slaves \ {s} : Settled(t) => Settled(t)'
  BY <1>3, <1>4 DEF Settled, Keeps
<1>11. \A t \in Posts, u \in Slaves : Serves(t, u)' => u # s
  <2> SUFFICES ASSUME NEW t \in Posts, Serves(t, s)' PROVE FALSE
    BY <1>3
  <2>1. t = th
    BY <1>1, <1>6, <1>7
  <2>2. QED BY <1>3, <1>7, <2>1 DEF Serves
<1>12. \A t \in Slaves : Free(t)' \/ Loaded(t)'
  BY <1>3, <1>4 DEF Service, Keeps, Loaded
<1>13. QED BY <1>1, <1>3, <1>7, <1>8, <1>9, <1>10, <1>11, <1>12 DEF Service

LEMMA ServiceStill ==
    ASSUME TypeInv, Ring, Mutex, Returned, Buried, Quiet, Service, Next
    PROVE  Service'
BY Steps, ServiceOthers, ServiceLookForWork, ServiceEnterIdle, ServiceWakeIdle,
   ServiceReceive, ServiceRequeue, ServiceTakeWork

-----------------------------------------------------------------------------
(* Every unit that has left the buffer is somewhere.                       *)

Kept(u) ==
    \/ \E s \in Slaves : work[s] = u /\ (Loaded(s) \/ state[s] = "gone")
    \/ u \in seen
    \/ u = result

Cover ==
    \A j \in 1 .. taken :
        \/ Kept(pushed[j])
        \/ \E k \in taken + 1 .. Len(pushed) : pushed[k] = pushed[j]

LEMMA SeenStays ==
    ASSUME TypeInv, Returned, Next
    PROVE  seen \cup {result, None} \subseteq seen' \cup {result', None}
<1>1. ASSUME NEW th \in Posts, LookForWork(th) \/ TakeWork(th) \/ EnterIdle(th)
      PROVE  UNCHANGED <<seen, result>>
  BY <1>1 DEF LookForWork, TakeWork, EnterIdle, frames
<1>2. ASSUME WakeIdleStep \/ Requeue PROVE UNCHANGED <<seen, result>>
  BY <1>2 DEF WakeIdleStep, WakeIdle, Requeue, frames
<1>3. ASSUME NEW s \in Slaves, Receive(s) PROVE UNCHANGED seen /\ result = None
  BY <1>3 DEF Receive, At, Returned, InSendWork, frames
<1>4. QED BY <1>1, <1>2, <1>3, Steps, OthersRest DEF Rests

LEMMA WorkKept ==
    ASSUME TypeInv, Service, NEW s \in Slaves, Loaded(s) \/ state[s] = "gone", KeepingStep
    PROVE  \/ work'[s] = work[s] /\ (Loaded(s)' \/ state'[s] = "gone")
           \/ result' = work[s]
<1> DEFINE Now == \/ work'[s] = work[s] /\ (Loaded(s)' \/ state'[s] = "gone")
                  \/ result' = work[s]
<1>1. ASSUME NEW th \in Posts, SendMessage(th) PROVE Now
  BY <1>1, KeepsSendMessage DEF SendMessage, Keeps, Loaded
<1>2. CASE Close
  BY <1>2, KeepsClose DEF Close, Keeps, Loaded
<1>3. ASSUME NEW t \in Slaves, Receive(t) PROVE Now
  BY <1>3, SlotReceive DEF Service, Receive, Keeps, Loaded
<1>4. ASSUME NEW t \in Slaves, Slave(t) PROVE Now
  <2>1. state[s] = "gone" => state'[s] = "gone"
    BY <1>4 DEF Slave, TypeInv, SlavesType
  <2>2. QED BY <1>4, <2>1, SlotSlave DEF Service, Keeps, Loaded
<1>5. ASSUME NEW t \in Slaves, Die(t) PROVE Now
  <2>1. state'[t] = "gone" /\ (state[s] = "gone" => state'[s] = "gone")
    BY <1>5 DEF Die, TypeInv, SlavesType
  <2>2. QED BY <1>5, <2>1, SlotDie DEF Keeps, Loaded
<1>6. ASSUME NEW t \in Slaves, Accept(t) \/ Bury(t) PROVE Now
  <2>1. Keeps(s)
    BY <1>6, KeepsStill DEF Bury, Accept, slaves
  <2>2. state[s] = "gone" => state'[s] = "gone"
    BY <1>6 DEF Bury, Accept, slaves, TypeInv, SlavesType
  <2>3. QED BY <2>1, <2>2 DEF Keeps, Loaded
<1>7. ASSUME UNCHANGED <<inbox, outbox, work, state>> PROVE Now
  BY <1>7, KeepsStill DEF Keeps, Loaded
<1>8. QED BY <1>1, <1>2, <1>3, <1>4, <1>5, <1>6, <1>7,
OthersSendNothing DEF KeepingStep, SilentStep

KeptNow(u) ==
    \/ \E s \in Slaves : work'[s] = u /\ (Loaded(s)' \/ state'[s] = "gone")
    \/ u \in seen'
    \/ u = result'

LEMMA KeptStill ==
    ASSUME TypeInv, Returned, Service, NEW u \in Units, Kept(u),
           KeepingStep
    PROVE  KeptNow(u)
<1>1. u # None
  BY Kinds
<1>2. CASE u \in seen \/ u = result
  <2>1. Next
    BY DEF Next, app, listener, main, send_work, WakeIdleStep, Posts, KeepingStep
  <2>2. QED BY <1>1, <1>2, <2>1, SeenStays DEF KeptNow
<1>3. ASSUME NEW s \in Slaves, work[s] = u, Loaded(s) \/ state[s] = "gone"
      PROVE  KeptNow(u)
  BY <1>3, WorkKept DEF KeptNow
<1>4. QED BY <1>2, <1>3 DEF Kept

LEMMA CoverFrom ==
    ASSUME TypeInv, Cover, taken <= Len(pushed), taken' = taken,
           Len(pushed') \in Nat, Len(pushed) <= Len(pushed'),
           \A i \in 1 .. Len(pushed) : pushed'[i] = pushed[i],
           \A u \in Units : Kept(u) =>
               KeptNow(u) \/ \E k \in taken + 1 .. Len(pushed') : pushed'[k] = u
    PROVE  Cover'
<1>1. taken \in Nat /\ Len(pushed) \in Nat
      /\ \A j \in 1 .. Len(pushed) : pushed[j] \in Units
  BY LenProperties, ElementOfSeq DEF TypeInv, RingType
<1>2. \A j \in 1 .. taken : pushed[j] \in Units /\ pushed'[j] = pushed[j]
  BY <1>1
<1>3. \A k \in taken + 1 .. Len(pushed) :
          k \in taken + 1 .. Len(pushed') /\ pushed'[k] = pushed[k]
  BY <1>1
<1>4. \A j \in 1 .. taken :
          KeptNow(pushed[j]) \/ \E k \in taken + 1 .. Len(pushed') : pushed'[k] = pushed[j]
  BY <1>2, <1>3 DEF Cover
<1>5. \A j \in 1 .. taken : KeptNow(pushed'[j])
                       \/ \E k \in taken + 1 .. Len(pushed') : pushed'[k] = pushed'[j]
  BY <1>2, <1>4
<1>6. QED BY <1>5 DEF Cover, KeptNow, Kept

LEMMA LeftOver ==
    ASSUME TypeInv, Ring
    PROVE  taken \in Nat /\ Left \in Nat /\ Len(pushed) \in Nat /\ taken + Left = Len(pushed)
           /\ taken <= Len(pushed) /\ \A k \in 1 .. Len(pushed) : pushed[k] \in Units
BY LenProperties, ElementOfSeq DEF Ring, Left, Taking, TypeInv, RingType

LEMMA CoverTakeWork ==
    ASSUME TypeInv, Ring, Known, Service, Cover, NEW th \in Posts, TakeWork(th)
    PROVE  Cover'
<1>0. PICK s : s = sock[th]
  OBVIOUS
<1>1. s \in Slaves /\ Serves(th, s) /\ pc[th] = "taking" /\ state[s] # "out"
  BY <1>0 DEF TakeWork, At, TypeInv, ThreadsType, InSendWork, Serves, Known
<1>2. Settled(s)
  BY <1>1 DEF Service
<1>3. UNCHANGED <<seen, result, state, pushed>> /\ taken' = taken + 1
  BY DEF TakeWork, frames
<1>4. taken \in Nat /\ Len(pushed) \in Nat /\ taken + 1 \in 1 .. Len(pushed)
      /\ \A k \in 1 .. Len(pushed) : pushed[k] \in Units
  BY <1>1, TakenIsUnit, LeftOver
<1>5. KeptNow(pushed[taken + 1])
  <2>1. work'[s] = pushed[taken + 1] /\ pushed[taken + 1] # None
    BY <1>0, <1>2, <1>4, SlotTakeWork, Kinds DEF Settled
  <2>2. state[s] = "up" => Asked(s)'
    BY <1>0, <1>2, SlotTakeWork DEF Settled
  <2>3. state[s] # "up" => state'[s] = "gone"
    BY <1>1, <1>3 DEF TypeInv, SlavesType
  <2>4. QED BY <1>1, <2>1, <2>2, <2>3 DEF KeptNow, Loaded
<1>6. ASSUME NEW u \in Units, Kept(u) PROVE KeptNow(u)
  <2>1. CASE u \in seen \/ u = result
    BY <1>3, <2>1 DEF KeptNow
  <2>2. ASSUME NEW t \in Slaves, work[t] = u, Loaded(t) \/ state[t] = "gone"
        PROVE  KeptNow(u)
    <3>1. CASE t = s
      <4>1. u # None
        BY Kinds
      <4>2. QED BY <1>2, <1>3, <2>2, <3>1, <4>1 DEF Settled, KeptNow
    <3>2. CASE t # s
      <4>1. Keeps(t)
        BY <1>0, <1>2, <3>2, SlotTakeWork DEF Settled
      <4>2. QED BY <1>3, <2>2, <4>1 DEF Keeps, Loaded, KeptNow
    <3>3. QED BY <3>1, <3>2
  <2>3. QED BY <1>6, <2>1, <2>2 DEF Kept
<1>7. ASSUME NEW j \in 1 .. taken + 1
      PROVE  KeptNow(pushed[j]) \/ \E k \in taken + 2 .. Len(pushed) : pushed[k] = pushed[j]
  <2>1. CASE j = taken + 1
    BY <1>5, <2>1
  <2>2. CASE j \in 1 .. taken
    <3>1. CASE Kept(pushed[j])
      BY <1>4, <1>6, <2>2, <3>1
    <3>2. ASSUME NEW k \in taken + 1 .. Len(pushed), pushed[k] = pushed[j]
          PROVE  KeptNow(pushed[j])
                 \/ \E i \in taken + 2 .. Len(pushed) : pushed[i] = pushed[j]
      BY <1>4, <1>5, <3>2
    <3>3. QED BY <2>2, <3>1, <3>2 DEF Cover
  <2>3. QED BY <1>4, <2>1, <2>2
<1>8. taken' + 1 = taken + 2
  BY <1>3, <1>4
<1>9. QED BY <1>3, <1>7, <1>8 DEF Cover, Kept, KeptNow

LEMMA CoverRequeue ==
    ASSUME TypeInv, Ring, Buried, Service, Cover, Requeue
    PROVE  Cover'
<1>0. PICK s : s = Head(dead)
  OBVIOUS
<1>1. /\ s \in Slaves /\ Free(s) /\ work'[s] = None
      /\ \A t \in Slaves \ {s} : Keeps(t)
  BY <1>0, SlotRequeue
<1>2. UNCHANGED <<seen, result, state, taken>>
  BY DEF Requeue, frames, slaves, Fill, ring
<1>3. taken \in Nat /\ Len(pushed) \in Nat /\ taken <= Len(pushed) /\ pushed \in Seq(Units)
  BY LeftOver DEF TypeInv, RingType
<1>4. ASSUME NEW u \in Units, Kept(u) PROVE KeptNow(u) \/ u = work[s]
  <2>1. CASE u \in seen \/ u = result
    BY <1>2, <2>1 DEF KeptNow
  <2>2. ASSUME NEW t \in Slaves \ {s}, work[t] = u, Loaded(t) \/ state[t] = "gone"
        PROVE  KeptNow(u)
    BY <1>1, <1>2, <2>2 DEF Keeps, Loaded, KeptNow
  <2>3. QED BY <1>4, <2>1, <2>2 DEF Kept
<1>5. CASE work[s] = None
  <2>1. UNCHANGED pushed
    BY <1>0, <1>5 DEF Requeue, ring
  <2>2. \A u \in Units : Kept(u) => KeptNow(u)
    BY <1>4, <1>5, Kinds
  <2>3. QED BY <1>2, <1>3, <2>1, <2>2, CoverFrom
<1>6. CASE work[s] # None
  <2>1. pushed' = Append(pushed, work[s]) /\ work[s] \in Units
    BY <1>0, <1>1, <1>6 DEF Requeue, Fill, TypeInv, SocketsType
  <2>2. Len(pushed') = Len(pushed) + 1 /\ pushed'[Len(pushed) + 1] = work[s]
        /\ \A i \in 1 .. Len(pushed) : pushed'[i] = pushed[i]
    BY <1>3, <2>1, AppendedIs
  <2>3. Len(pushed) + 1 \in taken + 1 .. Len(pushed')
    BY <1>3, <2>2
  <2>4. \A u \in Units : Kept(u) =>
            KeptNow(u) \/ \E k \in taken + 1 .. Len(pushed') : pushed'[k] = u
    BY <1>4, <2>2, <2>3
  <2>5. QED BY <1>2, <1>3, <2>2, <2>4, CoverFrom
<1>7. QED BY <1>5, <1>6

LEMMA CoverOthers ==
    ASSUME TypeInv, Ring, Returned, Service, Cover,
           KeepingStep
    PROVE  Cover'
<1>1. \A u \in Units : Kept(u) => KeptNow(u)
  BY KeptStill
<1>2. taken \in Nat /\ Len(pushed) \in Nat /\ taken <= Len(pushed) /\ pushed \in Seq(Units)
  BY LeftOver DEF TypeInv, RingType
<1>3. CASE Push
  <2>1. pushed' = Append(pushed, <<request, tile + 1>>) /\ taken' = taken
    BY <1>3 DEF Push, Fill
  <2>2. Len(pushed') = Len(pushed) + 1 /\ \A i \in 1 .. Len(pushed) : pushed'[i] = pushed[i]
    <3>1. pushed \in Seq(Units \cup {<<request, tile + 1>>})
      BY <1>2
    <3>2. QED BY <2>1, <3>1, AppendedIs
  <2>3. QED BY <1>1, <1>2, <2>1, <2>2, CoverFrom
<1>4. ASSUME UNCHANGED <<pushed, taken>> PROVE Cover'
  BY <1>1, <1>2, <1>4, CoverFrom
<1>5. ASSUME NEW th \in Posts, LookForWork(th) PROVE UNCHANGED <<pushed, taken>>
  BY <1>5 DEF LookForWork
<1>6. QED BY <1>3, <1>4, <1>5, OthersTakeNothing DEF ring, KeepingStep, OtherStep

LEMMA CoverStill ==
    ASSUME TypeInv, Ring, Returned, Known, Buried, Service, Cover, Next
    PROVE  Cover'
BY Steps, CoverOthers, CoverRequeue, CoverTakeWork

-----------------------------------------------------------------------------
(* One request after the other, as long as no slave dies.                  *)

Serving == pc["app"] \notin {"next", "over"}
Op == Script[request]
Taken == {pushed[k] : k \in 1 .. taken}
SeenTiles == {i \in Tiles : <<request, i>> \in seen}

(* Slaves leave when they are told to, at the end.                         *)
Calm ==
    /\ dead = <<>> /\ pc["app"] # "crashed"
    /\ \A s \in Slaves : state[s] = "gone" => halt_networking
    /\ shutdown_state \/ halt_networking => pc["main"] # "wait"
    /\ pc["main"] # "wait" => pc["app"] = "over"

(* No unit is pushed twice, and a request is answered when its units are   *)
(* back.                                                                   *)
Order ==
    /\ \A j, k \in 1 .. Len(pushed) : pushed[j] = pushed[k] => j = k
    /\ \A k \in 1 .. Len(pushed) :
           /\ pushed[k][1] <= request
           /\ pushed[k][1] = request => pushed[k][2] \in 1 .. tile
           /\ pushed[k] \in seen \/ (Serving /\ pushed[k][1] = request)

(* Where app is in a request that has one unit, or none.                   *)
Turn ==
    Serving =>
        /\ Op = "SHOTLINE" => /\ tile = IF pc["app"] = "push" THEN 0 ELSE 1
                              /\ pc["app"] # "pushed"
        /\ Op \in {"FRAME_ATTR", "LOAD"} =>
               tile = 0 /\ pc["app"] \in {"wake", "pushed", "reply"} \cup InSendWork
        /\ Op = "LOAD" => pc["app"] \notin {"pushed", "reply"}

(* A unit that has been taken is with one slave, or being processed, or    *)
(* has been.                                                               *)
OnceOnly ==
    /\ \A s \in Slaves : Loaded(s) => work[s] \in Taken /\ work[s] \notin seen \cup {result}
    /\ \A s, t \in Slaves : Loaded(s) /\ Loaded(t) /\ work[s] = work[t] => s = t
    /\ result # None => result \in Taken /\ result \notin seen
    /\ seen \subseteq Taken

(* net wakes slaves when a shot line is back and not yet answered.         *)
Shot ==
    Waking => /\ Serving /\ Op = "SHOTLINE" /\ pc["app"] # "push"
              /\ <<request, 1>> \in seen /\ frame_sem = 0

(* frame_sem and frame_ind count what is back of the request.              *)
Counts ==
    /\ Serving /\ Op = "FRAME" =>
          /\ frame_sem = IF SeenTiles = Tiles THEN 1 ELSE 0
          /\ frame_ind = IF SeenTiles = Tiles THEN 0 ELSE Cardinality(SeenTiles)
          /\ \A i \in SeenTiles : image[i] = request
    /\ Serving /\ Op = "SHOTLINE" =>
          frame_sem \in {0, 1} /\ (frame_sem = 1 => <<request, 1>> \in seen)
    /\ Serving /\ Op = "FRAME_ATTR" =>
          frame_sem = IF pc["app"] = "reply" THEN 1 ELSE 0
    /\ Serving /\ Op = "LOAD" => frame_sem = 0
    /\ ~Serving => frame_sem = 0
    /\ ~(Serving /\ Op = "FRAME") => frame_ind = 0

Alone == Calm /\ Order /\ Turn /\ OnceOnly /\ Shot /\ Counts

LEMMA UnitIsPair ==
    ASSUME TypeInv, NEW u \in Units
    PROVE  /\ u = <<u[1], u[2]>> /\ u[1] \in 1 .. Len(Script) /\ u[2] \in Tiles
           /\ u[1] \in Nat /\ u[2] \in Nat /\ u # None
<1>1. u \in (1 .. Len(Script)) \X Tiles
  BY SetupFacts
<1>2. u # None
  BY Kinds
<1>3. QED BY <1>1, <1>2, SetupFacts DEF Tiles

LEMMA OpIs ==
    ASSUME TypeInv, Pushing, Serving, Calm
    PROVE  request \in 1 .. Len(Script) /\ request \in Nat \ {0} /\ Op \in Requests
<1>1. request > 0
  BY DEF Serving, Calm, Pushing, TypeInv, PlacesType, AppPlaces
<1>2. request \in 1 .. Len(Script)
  BY <1>1, SetupFacts DEF TypeInv, RequestsType
<1>3. QED BY <1>1, <1>2, SetupFacts, ElementOfSeq DEF Op

LEMMA AllSeen ==
    ASSUME TypeInv, Ring, Order, OnceOnly, \A k \in 1 .. Len(pushed) : pushed[k] \in seen
    PROVE  /\ Left = 0 /\ sem_read = 0 /\ \A th \in Posts : pc[th] # "taking"
           /\ \A s \in Slaves : ~Loaded(s)
           /\ result = None
<1>1. taken \in Nat /\ Left \in Nat /\ Len(pushed) \in Nat /\ taken + Left = Len(pushed)
  BY LeftOver
<1>2. \A k \in 1 .. Len(pushed) : k <= taken
  <2> TAKE k \in 1 .. Len(pushed)
  <2>1. PICK j \in 1 .. taken : pushed[k] = pushed[j]
    BY DEF OnceOnly, Taken
  <2>2. j \in 1 .. Len(pushed)
    BY <1>1
  <2>3. QED BY <1>1, <2>1, <2>2 DEF Order
<1>3. Left = 0
  BY <1>1, <1>2
<1>4. sem_read = 0 /\ \A th \in Posts : pc[th] # "taking"
  BY <1>3 DEF Left, Taking, TypeInv, RingType
<1>5. \A u \in Taken : u \in seen
  BY <1>1 DEF Taken
<1>6. QED BY <1>3, <1>4, <1>5 DEF OnceOnly

LEMMA NothingOut ==
    ASSUME TypeInv, Ring, Pushing, Calm, Order, Turn, OnceOnly, Shot,
           ~Serving \/ Waking \/ Op \in {"FRAME_ATTR", "LOAD"}
    PROVE  /\ Left = 0 /\ sem_read = 0 /\ \A th \in Posts : pc[th] # "taking"
           /\ \A s \in Slaves : ~Loaded(s)
           /\ result = None
           /\ \A k \in 1 .. Len(pushed) : pushed[k] \in seen
<1>1. ASSUME NEW k \in 1 .. Len(pushed), pushed[k] \notin seen PROVE FALSE
  <2>1. Serving /\ pushed[k][1] = request /\ pushed[k][2] \in 1 .. tile
    BY <1>1 DEF Order
  <2>2. CASE Op \in {"FRAME_ATTR", "LOAD"}
    BY <2>1, <2>2 DEF Turn
  <2>3. CASE Waking
    <3>1. tile = 1 /\ <<request, 1>> \in seen
      BY <2>3 DEF Shot, Turn
    <3>2. pushed[k] = <<request, 1>>
      BY <2>1, <3>1, LeftOver, UnitIsPair
    <3>3. QED BY <1>1, <3>1, <3>2
  <2>4. QED BY <2>1, <2>2, <2>3
<1>2. QED BY <1>1, AllSeen

LEMMA AloneIsQuiet ==
    ASSUME TypeInv, Ring, Pushing, Alone
    PROVE  Quiet
BY NothingOut DEF Alone, Quiet

(* A unit whose result has come belongs to the request app serves.         *)
LEMMA ResultIsCurrent ==
    ASSUME TypeInv, Ring, Pushing, Alone, result # None
    PROVE  /\ Serving /\ ~Waking /\ Op \in {"FRAME", "SHOTLINE"} /\ result \in Units
           /\ result[1] = request /\ result[2] \in 1 .. tile /\ result[2] \in Tiles
           /\ result = <<request, result[2]>> /\ result \notin seen
<1>1. Serving /\ ~Waking /\ Op \notin {"FRAME_ATTR", "LOAD"}
  BY NothingOut DEF Alone
<1>2. Op \in Requests
  BY <1>1, OpIs DEF Alone
<1>3. result \in Units /\ result \notin seen /\ result \in Taken
  BY DEF TypeInv, FramesType, Alone, OnceOnly
<1>4. PICK k \in 1 .. Len(pushed) : result = pushed[k]
  BY <1>3, LeftOver DEF Taken
<1>5. result[1] = request /\ result[2] \in 1 .. tile
  BY <1>3, <1>4 DEF Alone, Order
<1>6. result = <<result[1], result[2]>> /\ result[2] \in Tiles
  BY <1>3, UnitIsPair
<1>7. QED BY <1>1, <1>2, <1>3, <1>5, <1>6 DEF Requests

(* A thread that takes a unit serves a request, and its slave is up.       *)
LEMMA TakenInTime ==
    ASSUME TypeInv, Ring, Pushing, Known, Alone, NEW th \in Posts, pc[th] = "taking"
    PROVE  /\ Serving /\ state[sock[th]] = "up" /\ sock[th] \in Slaves
<1>1. Serving
  BY NothingOut DEF Alone
<1>2. ~halt_networking
  BY <1>1 DEF Alone, Calm, Serving
<1>3. sock[th] \in Slaves
  BY DEF TypeInv, ThreadsType, InSendWork
<1>4. QED BY <1>1, <1>2, <1>3 DEF Known, Alone, Calm, TypeInv, SlavesType,
InSendWork

LEMMA NobodyDies ==
    ASSUME TypeInv, NoDeaths, NEW s \in Slaves
    PROVE  ~Die(s)
<1>1. {u \in Slaves : state[u] = "gone"} \subseteq Slaves
  OBVIOUS
<1>2. Cardinality({u \in Slaves : state[u] = "gone"}) \in Nat
  BY <1>1, SlavesAssumption, FS_Subset, FS_CardinalityType
<1>3. setup.deaths = 0
  BY DEF NoDeaths
<1>4. QED BY <1>2, <1>3 DEF Die

LEMMA NobodyBuried ==
    ASSUME TypeInv, Calm
    PROVE  ~Requeue /\ \A s \in Slaves : ~Bury(s)
BY DEF Calm, Requeue, Bury

LEMMA NobodyTold ==
    ASSUME TypeInv, Open, NEW s \in Slaves, Slave(s), ~halt_networking
    PROVE  state' = state
<1>1. inbox[s] # <<>> /\ inbox[s] \in Seq(Units \cup {MESG, COMPLETE})
  BY DEF Slave, TypeInv, SlavesType
<1>2. Head(inbox[s]) = inbox[s][1] /\ 1 \in 1 .. Len(inbox[s])
  BY <1>1, TailIs
<1>3. Head(inbox[s]) # COMPLETE
  BY <1>2 DEF Open
<1>4. QED BY <1>3 DEF Slave

(* The steps that are left when no slave dies.                             *)
AliveStep ==
    \/ \E th \in Posts : SendRefused(th) \/ SendMessage(th) \/ LookForWork(th)
                         \/ TakeWork(th) \/ EnterIdle(th)
    \/ WakeIdleStep \/ NextRequest \/ NoMoreRequests \/ Push
    \/ NoneDead \/ RequestSent \/ Reply \/ Callback
    \/ PostFrame \/ NoneOut \/ NothingLeft \/ Halt \/ Wait
    \/ Shutdown \/ Close
    \/ \E s \in Slaves : Receive(s) \/ Accept(s) \/ Slave(s)

LEMMA AliveSteps ==
    ASSUME TypeInv, NoDeaths, Calm, Step
    PROVE  AliveStep
BY NobodyDies, NobodyBuried DEF Step, AliveStep

LEMMA CalmStill ==
    ASSUME TypeInv, Open, Calm, AliveStep
    PROVE  Calm'
<1> USE DEF At, InSendWork, Posts, Threads, AppPlaces, NetPlaces,
            MainPlaces, requests, threads, ring, ends, sockets, slaves,
            frames, TypeInv, PlacesType, ThreadsType, SlavesType, EndsType,
            Calm
<1>1. ASSUME NEW th \in Posts, SendRefused(th) PROVE Calm'
  BY <1>1, AfterWakePlace DEF SendRefused
<1>2. ASSUME NEW th \in Posts, SendMessage(th) PROVE Calm'
  BY <1>2, AfterWakePlace DEF SendMessage, Sent
<1>3. ASSUME NEW th \in Posts, LookForWork(th) PROVE Calm'
  BY <1>3, AfterWakePlace DEF LookForWork
<1>4. ASSUME NEW th \in Posts, TakeWork(th) PROVE Calm'
  BY <1>4, AfterWakePlace DEF TakeWork, Sent
<1>5. ASSUME NEW th \in Posts, EnterIdle(th) PROVE Calm'
  BY <1>5, AfterWakePlace DEF EnterIdle
<1>6. CASE WakeIdleStep
  BY <1>6, AfterWakePlace DEF WakeIdleStep, WakeIdle
<1>7. CASE NextRequest
  BY <1>7, AfterWakePlace DEF NextRequest, Post
<1>8. CASE NoMoreRequests \/ NoneDead \/ RequestSent \/ Reply
  BY <1>8, AfterWakePlace DEF NoMoreRequests, NoneDead, RequestSent, Reply
<1>9. CASE Push
  BY <1>9, AfterWakePlace DEF Push, Fill
<1>10. ASSUME NEW s \in Slaves, Receive(s) PROVE Calm'
  BY <1>10, AfterWakePlace DEF Receive
<1>11. ASSUME NEW s \in Slaves, Accept(s) PROVE Calm'
  BY <1>11 DEF Accept
<1>12. CASE Callback
  BY <1>12, AfterWakePlace DEF Callback, Post, Updated, Complete
<1>13. CASE PostFrame \/ NoneOut \/ NothingLeft \/ Halt
  BY <1>13, AfterWakePlace DEF PostFrame, Updated, NoneOut, NothingLeft, Halt
<1>14. CASE Wait \/ Shutdown \/ Close
  BY <1>14, AfterWakePlace DEF Wait, Shutdown, Close
<1>15. ASSUME NEW s \in Slaves, Slave(s) PROVE Calm'
  BY <1>15, NobodyTold DEF Slave
<1>16. QED
  BY <1>1, <1>2, <1>3, <1>4, <1>5, <1>6, <1>7, <1>8, <1>9, <1>10, <1>11,
     <1>12, <1>13, <1>14, <1>15 DEF AliveStep

(* The steps that leave the request where it is, and what has been pushed. *)
StandingStep ==
    \/ \E th \in Posts : SendRefused(th) \/ SendMessage(th) \/ LookForWork(th)
                         \/ TakeWork(th) \/ EnterIdle(th)
    \/ NoMoreRequests \/ NoneDead \/ RequestSent \/ Callback
    \/ PostFrame \/ NoneOut \/ NothingLeft \/ Halt \/ Wait
    \/ Shutdown \/ Close
    \/ \E s \in Slaves : Receive(s) \/ Accept(s) \/ Slave(s)


LEMMA StandingStill ==
    ASSUME TypeInv, StandingStep
    PROVE  /\ UNCHANGED <<request, tile, setup, pushed>>
           /\ Serving' = Serving /\ Op' = Op
           /\ (pc["app"] = "push" <=> pc'["app"] = "push")
<1> USE DEF At, InSendWork, Posts, Threads, AppPlaces, NetPlaces,
            MainPlaces, requests, threads, ring, ends, sockets, slaves,
            frames, TypeInv, PlacesType, ThreadsType, Serving, Op, Script
<1> DEFINE Goal == /\ UNCHANGED <<request, tile, setup, pushed>>
                   /\ Serving' = Serving /\ Op' = Op
                   /\ (pc["app"] = "push" <=> pc'["app"] = "push")
<1>1. ASSUME NEW th \in Posts, SendRefused(th) PROVE Goal
  BY <1>1, AfterWakePlace DEF SendRefused
<1>2. ASSUME NEW th \in Posts, SendMessage(th) PROVE Goal
  BY <1>2, AfterWakePlace DEF SendMessage, Sent
<1>3. ASSUME NEW th \in Posts, LookForWork(th) PROVE Goal
  BY <1>3, AfterWakePlace DEF LookForWork
<1>4. ASSUME NEW th \in Posts, TakeWork(th) PROVE Goal
  BY <1>4, AfterWakePlace DEF TakeWork, Sent
<1>5. ASSUME NEW th \in Posts, EnterIdle(th) PROVE Goal
  BY <1>5, AfterWakePlace DEF EnterIdle
<1>6. CASE NoMoreRequests \/ NoneDead \/ RequestSent
  BY <1>6, AfterWakePlace DEF NoMoreRequests, NoneDead, RequestSent
<1>7. ASSUME NEW s \in Slaves, Receive(s) PROVE Goal
  BY <1>7, AfterWakePlace DEF Receive
<1>8. ASSUME NEW s \in Slaves, Accept(s) PROVE Goal
  BY <1>8, AfterWakePlace DEF Accept
<1>9. CASE Callback
  BY <1>9, AfterWakePlace DEF Callback, Post, Updated, Complete
<1>10. CASE PostFrame \/ NoneOut \/ NothingLeft \/ Halt
  BY <1>10, AfterWakePlace DEF PostFrame, Updated, NoneOut, NothingLeft, Halt
<1>11. CASE Wait \/ Shutdown \/ Close
  BY <1>11, AfterWakePlace DEF Wait, Shutdown, Close
<1>12. ASSUME NEW s \in Slaves, Slave(s) PROVE Goal
  BY <1>12, AfterWakePlace DEF Slave
<1>13. QED
  BY <1>1, <1>2, <1>3, <1>4, <1>5, <1>6, <1>7, <1>8, <1>9, <1>10, <1>11,
     <1>12 DEF StandingStep

LEMMA OrderFrom ==
    ASSUME TypeInv, Order, UNCHANGED <<request, tile, pushed>>, seen \subseteq seen',
           \A k \in 1 .. Len(pushed) : pushed[k] \in seen' \/ Serving'
    PROVE  Order'
BY DEF Order

LEMMA SeenGrows ==
    ASSUME Next
    PROVE  seen \subseteq seen'
BY DEF Next, app, listener, main, send_work, WakeIdle, SendRefused, SendMessage,
       LookForWork, TakeWork, EnterIdle, NextRequest, NoMoreRequests, Push, Requeue,
       NoneDead, RequestSent, Reply, Receive, Bury, Accept, Callback, PostFrame,
       NoneOut, NothingLeft, Halt, Wait, Shutdown, Close, Slave, Die, frames

LEMMA OrderNextRequest ==
    ASSUME TypeInv, Ring, Order, NextRequest
    PROVE  Order'
<1>1. UNCHANGED <<pushed, seen>> /\ request' = request + 1
  BY DEF NextRequest, ring, frames
<1>2. ~Serving /\ Serving'
  BY DEF NextRequest, At, Serving, TypeInv, PlacesType, Threads
<1>3. \A k \in 1 .. Len(pushed) : pushed[k][1] <= request /\ pushed[k][1] \in Nat
  BY LeftOver, UnitIsPair DEF Order
<1>4. request \in Nat
  BY SetupFacts DEF TypeInv, RequestsType
<1>5. QED BY <1>1, <1>2, <1>3, <1>4 DEF Order

LEMMA OrderPush ==
    ASSUME TypeInv, Ring, Pushing, Order, Push
    PROVE  Order'
<1> DEFINE u == <<request, tile + 1>>
<1>1. u \in Units /\ pushed' = Append(pushed, u) /\ pushed \in Seq(Units)
  BY UnitPushed DEF Push, Fill, TypeInv, RingType
<1>2. UNCHANGED <<seen, request>> /\ tile' = tile + 1 /\ tile \in Nat /\ request \in Nat
  BY SetupFacts DEF Push, frames, TypeInv, RequestsType
<1>3. Serving /\ Serving'
  BY DEF Push, At, Serving, TypeInv, PlacesType, Threads
<1>4. Len(pushed') = Len(pushed) + 1 /\ Len(pushed) \in Nat /\ pushed'[Len(pushed) + 1] = u
      /\ \A i \in 1 .. Len(pushed) : pushed'[i] = pushed[i]
  BY <1>1, AppendedIs
<1>5. \A k \in 1 .. Len(pushed) : pushed[k] # u /\ pushed[k][2] \in Nat
  <2> TAKE k \in 1 .. Len(pushed)
  <2>1. pushed[k][2] \in Nat
    BY LeftOver, UnitIsPair
  <2>2. pushed[k] = u => tile + 1 \in 1 .. tile
    BY DEF Order
  <2>3. QED BY <1>2, <2>1, <2>2
<1>6. u[1] = request /\ u[2] = tile + 1
  OBVIOUS
<1> HIDE DEF u
<1>7. \A k \in 1 .. Len(pushed') : k \in 1 .. Len(pushed) \/ k = Len(pushed) + 1
  BY <1>4
<1>8. \A j, k \in 1 .. Len(pushed') : pushed'[j] = pushed'[k] => j = k
  BY <1>4, <1>5, <1>7 DEF Order
<1>9. ASSUME NEW k \in 1 .. Len(pushed')
      PROVE  /\ pushed'[k][1] <= request'
             /\ pushed'[k][1] = request' => pushed'[k][2] \in 1 .. tile'
             /\ pushed'[k] \in seen' \/ (Serving' /\ pushed'[k][1] = request')
  <2>1. CASE k \in 1 .. Len(pushed)
    BY <1>2, <1>3, <1>4, <1>5, <2>1 DEF Order
  <2>2. CASE k = Len(pushed) + 1
    BY <1>2, <1>3, <1>4, <1>6, <2>2
  <2>3. QED BY <1>7, <2>1, <2>2
<1>10. QED BY <1>8, <1>9 DEF Order

(* A reply waits for the units of its request.                             *)
LEMMA OrderReply ==
    ASSUME TypeInv, Ring, Pushing, Alone, Reply
    PROVE  Order'
<1>1. UNCHANGED <<request, tile, pushed, seen>> /\ frame_sem > 0
  BY DEF Reply, requests, ring
<1>2. Serving /\ pc["app"] = "reply"
  BY DEF Reply, At, Serving
<1>3. ASSUME NEW k \in 1 .. Len(pushed), pushed[k] \notin seen PROVE FALSE
  <2>1. pushed[k][1] = request /\ pushed[k][2] \in 1 .. tile
    BY <1>3 DEF Alone, Order
  <2>2. pushed[k] = <<request, pushed[k][2]>> /\ pushed[k][2] \in Tiles
    BY <2>1, LeftOver, UnitIsPair
  <2>3. CASE Op = "FRAME"
    <3>1. SeenTiles = Tiles
      BY <1>1, <1>2, <2>3 DEF Alone, Counts
    <3>2. QED BY <1>3, <2>2, <3>1 DEF SeenTiles
  <2>4. CASE Op = "SHOTLINE"
    <3>1. <<request, 1>> \in seen /\ tile = 1
      BY <1>1, <1>2, <2>4 DEF Alone, Counts, Turn
    <3>2. QED BY <1>3, <2>1, <2>2, <3>1
  <2>5. CASE Op \in {"FRAME_ATTR", "LOAD"}
    BY <1>3, <2>5, NothingOut DEF Alone
  <2>6. QED BY <1>2, <2>3, <2>4, <2>5, OpIs DEF Requests, Alone
<1>4. QED BY <1>1, <1>3, OrderFrom DEF Alone

LEMMA AfterWakeIs ==
    ASSUME TypeInv, Pushing, Calm, Serving
    PROVE  /\ Op = "FRAME" => AfterWake \in {"push", "pushed"}
           /\ Op = "FRAME_ATTR" => AfterWake = "pushed"
           /\ Op = "SHOTLINE" => AfterWake = "reply"
           /\ Op = "LOAD" => AfterWake = "next"
           /\ Op \in Requests
BY OpIs DEF AfterWake, Op, Requests

LEMMA WakeIdleMoves ==
    ASSUME TypeInv, WakeIdleStep
    PROVE  /\ UNCHANGED <<requests, result, ring, sem_out, ends, send_mut, sockets,
                          slaves, frames>>
           /\ Op' = Op
           /\ \/ pc["app"] = "wake" /\ pc'["app"] \in {"wake", "send"} /\ UNCHANGED pc["net"]
              \/ pc["app"] = "wake" /\ pc'["app"] = AfterWake /\ UNCHANGED pc["net"]
              \/ UNCHANGED pc["app"] /\ pc["net"] = "wake" /\ Waking /\ Waking'
BY DEF WakeIdleStep, WakeIdle, At, Op, Script, requests, Waking, InSendWork,
     TypeInv,
       PlacesType, ThreadsType, Posts, Threads

LEMMA OrderWakeIdle ==
    ASSUME TypeInv, Ring, Pushing, Alone, WakeIdleStep
    PROVE  Order'
<1>1. UNCHANGED <<request, tile, pushed, seen>>
  BY WakeIdleMoves DEF requests, ring, frames
<1>2. CASE Serving => Serving'
  BY <1>1, <1>2, OrderFrom DEF Alone, Order
<1>3. CASE Serving /\ ~Serving'
  <2>1. Op \notin {"FRAME", "SHOTLINE", "FRAME_ATTR"}
    BY <1>3, WakeIdleMoves, AfterWakeIs DEF Serving, Alone
  <2>2. Op = "LOAD"
    BY <1>3, <2>1, OpIs DEF Requests, Alone
  <2>3. QED BY <1>1, <2>2, NothingOut, OrderFrom DEF Alone
<1>4. QED BY <1>2, <1>3

LEMMA OrderStill ==
    ASSUME TypeInv, Ring, Pushing, Alone, AliveStep, Next
    PROVE  Order'
<1>1. CASE StandingStep
  BY <1>1, StandingStill, SeenGrows, OrderFrom DEF Alone, Order
<1>2. QED BY <1>1, OrderNextRequest, OrderPush, OrderReply, OrderWakeIdle
      DEF AliveStep, StandingStep, Alone

-----------------------------------------------------------------------------

LEMMA TurnNextRequest ==
    ASSUME TypeInv, NextRequest
    PROVE  Turn'
<1>1. UNCHANGED setup /\ tile' = 0 /\ Op' = Script[request + 1]
  BY DEF NextRequest, Op, Script
<1>2. \/ pc'["app"] = "push" /\ Op' \in {"FRAME", "SHOTLINE"}
      \/ pc'["app"] = "wake" /\ Op' \in {"FRAME_ATTR", "LOAD"}
  BY <1>1 DEF NextRequest, At, TypeInv, PlacesType, Threads
<1>3. QED BY <1>1, <1>2 DEF Turn

LEMMA TurnPush ==
    ASSUME TypeInv, Turn, Push
    PROVE  Turn'
<1>1. Op' = Op /\ tile' = tile + 1 /\ Serving /\ pc["app"] = "push" /\ pc'["app"] = "dead"
  BY DEF Push, At, Op, Script, Serving, TypeInv, PlacesType, Threads
<1>2. QED BY <1>1 DEF Turn, InSendWork

LEMMA TurnWakeIdle ==
    ASSUME TypeInv, Pushing, Calm, Turn, WakeIdleStep
    PROVE  Turn'
<1>1. UNCHANGED tile /\ Op' = Op
  BY WakeIdleMoves DEF requests
<1>2. CASE UNCHANGED pc["app"]
  BY <1>1, <1>2 DEF Turn, Serving
<1>3. CASE pc["app"] = "wake" /\ pc'["app"] \in {"wake", "send"}
  BY <1>1, <1>3 DEF Turn, Serving, InSendWork
<1>4. CASE pc["app"] = "wake" /\ pc'["app"] = AfterWake
  <2>1. Serving
    BY <1>4 DEF Serving
  <2>2. QED BY <1>1, <1>4, <2>1, AfterWakeIs DEF Turn, Serving
<1>5. QED BY <1>2, <1>3, <1>4, WakeIdleMoves

(* What a standing step does to app.                                       *)

LEMMA StandingMoves ==
    ASSUME TypeInv, StandingStep
    PROVE  \/ pc'["app"] = pc["app"]
           \/ pc["app"] \in {"next", "over"} /\ pc'["app"] \in {"next", "over"}
           \/ pc["app"] \in InSendWork /\ pc'["app"] \in {"wake"} \cup InSendWork
           \/ pc["app"] = "dead" /\ pc'["app"] = "wake"
           \/ pc["app"] = "pushed" /\ pc'["app"] = "reply"
<1> USE DEF At, InSendWork, Posts, Threads, AppPlaces, NetPlaces,
            MainPlaces, requests, threads, ring, ends, sockets, slaves,
            frames, TypeInv, PlacesType, ThreadsType
<1> DEFINE Goal == \/ pc'["app"] = pc["app"]
                   \/ pc["app"] \in {"next", "over"} /\ pc'["app"] \in {"next", "over"}
                   \/ pc["app"] \in InSendWork /\ pc'["app"] \in {"wake"} \cup InSendWork
                   \/ pc["app"] = "dead" /\ pc'["app"] = "wake"
                   \/ pc["app"] = "pushed" /\ pc'["app"] = "reply"
<1>1. ASSUME NEW th \in Posts, SendRefused(th) PROVE Goal
  BY <1>1, AfterWakePlace DEF SendRefused
<1>2. ASSUME NEW th \in Posts, SendMessage(th) PROVE Goal
  BY <1>2, AfterWakePlace DEF SendMessage, Sent
<1>3. ASSUME NEW th \in Posts, LookForWork(th) PROVE Goal
  BY <1>3, AfterWakePlace DEF LookForWork
<1>4. ASSUME NEW th \in Posts, TakeWork(th) PROVE Goal
  BY <1>4, AfterWakePlace DEF TakeWork, Sent
<1>5. ASSUME NEW th \in Posts, EnterIdle(th) PROVE Goal
  BY <1>5, AfterWakePlace DEF EnterIdle
<1>6. CASE NoMoreRequests \/ NoneDead \/ RequestSent
  BY <1>6, AfterWakePlace DEF NoMoreRequests, NoneDead, RequestSent
<1>7. ASSUME NEW s \in Slaves, Receive(s) PROVE Goal
  BY <1>7, AfterWakePlace DEF Receive
<1>8. ASSUME NEW s \in Slaves, Accept(s) PROVE Goal
  BY <1>8, AfterWakePlace DEF Accept
<1>9. CASE Callback
  BY <1>9, AfterWakePlace DEF Callback, Post, Updated, Complete
<1>10. CASE PostFrame \/ NoneOut \/ NothingLeft \/ Halt
  BY <1>10, AfterWakePlace DEF PostFrame, Updated, NoneOut, NothingLeft, Halt
<1>11. CASE Wait \/ Shutdown \/ Close
  BY <1>11, AfterWakePlace DEF Wait, Shutdown, Close
<1>12. ASSUME NEW s \in Slaves, Slave(s) PROVE Goal
  BY <1>12, AfterWakePlace DEF Slave
<1>13. QED
  BY <1>1, <1>2, <1>3, <1>4, <1>5, <1>6, <1>7, <1>8, <1>9, <1>10, <1>11,
     <1>12 DEF StandingStep

LEMMA TurnStill ==
    ASSUME TypeInv, Pushing, Calm, Turn, AliveStep
    PROVE  Turn'
<1>1. CASE StandingStep
  <2>1. UNCHANGED tile /\ Op' = Op /\ Serving' = Serving
    BY <1>1, StandingStill
  <2>2. QED BY <1>1, <2>1, StandingMoves DEF Turn, Serving, InSendWork
<1>2. CASE Reply
  BY <1>2 DEF Reply, At, Turn, Serving, TypeInv, PlacesType, Threads
<1>3. QED BY <1>1, <1>2, TurnNextRequest, TurnPush, TurnWakeIdle
      DEF AliveStep, StandingStep

-----------------------------------------------------------------------------

LEMMA Apart ==
    ASSUME NEW s
    PROVE  /\ ~(Free(s) /\ Loaded(s)) /\ ~(Free(s)' /\ Loaded(s)')
           /\ ~(Asked(s) /\ Answered(s)) /\ ~(Asked(s)' /\ Answered(s)')
<1>1. \A x : <<x>> # << >>
  OBVIOUS
<1>2. /\ ~(Asked(s) /\ Answered(s)) /\ ~(Free(s) /\ Answered(s))
      /\ ~(Asked(s)' /\ Answered(s)') /\ ~(Free(s)' /\ Answered(s)')
  BY <1>1 DEF Free, Asked, Answered
<1>3. ~(Free(s) /\ Asked(s)) /\ ~(Free(s)' /\ Asked(s)')
  BY NotBoth DEF Free, Asked
<1>4. QED BY <1>2, <1>3 DEF Loaded

LEMMA KeptExactly ==
    ASSUME Service, NEW s \in Slaves, Keeps(s)
    PROVE  /\ Loaded(s)' <=> Loaded(s)
           /\ Answered(s)' <=> Answered(s)
           /\ work'[s] = work[s]
BY Apart DEF Keeps, Service, Loaded

(* Steps that leave every unit where it is, but for the buffer.            *)
CarryingStep ==
    \/ \E th \in Posts : SendRefused(th) \/ SendMessage(th) \/ LookForWork(th)
                         \/ EnterIdle(th)
    \/ WakeIdleStep \/ NextRequest \/ NoMoreRequests \/ Push
    \/ NoneDead \/ RequestSent \/ Reply \/ Callback
    \/ PostFrame \/ NoneOut \/ NothingLeft \/ Halt \/ Wait
    \/ Shutdown \/ Close
    \/ \E s \in Slaves : Accept(s)

LEMMA CarryingKeeps ==
    ASSUME TypeInv, CarryingStep
    PROVE  \A s \in Slaves : Keeps(s)
<1>1. ASSUME NEW th \in Posts, SendMessage(th) PROVE \A s \in Slaves : Keeps(s)
  BY <1>1, KeepsSendMessage
<1>2. CASE Close
  BY <1>2, KeepsClose
<1>3. ASSUME NEW t \in Slaves, Accept(t) PROVE \A s \in Slaves : Keeps(s)
  BY <1>3, KeepsStill DEF Accept
<1>4. CASE SilentStep
  BY <1>4, OthersSendNothing, KeepsStill
<1>5. QED BY <1>1, <1>2, <1>3, <1>4 DEF CarryingStep, SilentStep

LEMMA TakenStays ==
    ASSUME TypeInv, Ring, Pushing, CarryingStep \/ \E s \in Slaves : Receive(s) \/ Slave(s)
    PROVE  Taken' = Taken
<1>1. taken \in Nat /\ Len(pushed) \in Nat /\ taken <= Len(pushed) /\ pushed \in Seq(Units)
  BY LeftOver DEF TypeInv, RingType
<1>2. CASE UNCHANGED <<pushed, taken>>
  BY <1>2 DEF Taken
<1>3. CASE Push
  <2>1. pushed' = Append(pushed, <<request, tile + 1>>) /\ taken' = taken
    BY <1>3 DEF Push, Fill
  <2>2. \A k \in 1 .. Len(pushed) : pushed'[k] = pushed[k]
    <3>1. <<request, tile + 1>> \in Units
      BY <1>3, UnitPushed
    <3>2. QED BY <1>1, <2>1, <3>1, AppendedIs
  <2>3. \A k \in 1 .. taken : pushed'[k] = pushed[k]
    BY <1>1, <2>2
  <2>4. QED BY <2>1, <2>3 DEF Taken
<1>4. ASSUME NEW th \in Posts, LookForWork(th) PROVE UNCHANGED <<pushed, taken>>
  BY <1>4 DEF LookForWork
<1>5. OtherStep => UNCHANGED <<pushed, taken>>
  BY OthersTakeNothing DEF ring
<1>6. QED BY <1>2, <1>3, <1>4, <1>5 DEF CarryingStep, OtherStep

LEMMA TakenGrows ==
    ASSUME TypeInv, Ring, Order, NEW th \in Posts, TakeWork(th)
    PROVE  /\ Taken' = Taken \cup {pushed[taken + 1]} /\ pushed[taken + 1] \notin Taken
           /\ pushed[taken + 1] \in Units
<1>1. taken \in Nat /\ Len(pushed) \in Nat /\ taken + 1 \in 1 .. Len(pushed)
      /\ \A k \in 1 .. Len(pushed) : pushed[k] \in Units
  BY TakenIsUnit, LeftOver DEF TakeWork, At
<1>2. UNCHANGED pushed /\ taken' = taken + 1
  BY DEF TakeWork
<1>3. \A k \in 1 .. taken + 1 : k \in 1 .. taken \/ k = taken + 1
  BY <1>1
<1>4. Taken' = Taken \cup {pushed[taken + 1]}
  BY <1>1, <1>2, <1>3 DEF Taken
<1>5. pushed[taken + 1] \notin Taken
  BY <1>1 DEF Taken, Order
<1>6. QED BY <1>1, <1>4, <1>5

(* A unit that is taken comes to a slave that has none.                    *)
LEMMA TakeWorkLoads ==
    ASSUME TypeInv, Ring, Pushing, Known, Service, Alone, NEW th \in Posts, TakeWork(th),
           NEW s, s = sock[th]
    PROVE  /\ s \in Slaves /\ Free(s) /\ ~Loaded(s) /\ Asked(s)'
           /\ work'[s] = pushed[taken + 1]
           /\ \A t \in Slaves \ {s} : Keeps(t)
           /\ UNCHANGED <<seen, result, computed>>
<1>1. pc[th] = "taking" /\ UNCHANGED <<seen, result, computed>>
  BY DEF TakeWork, At, frames
<1>2. s \in Slaves /\ state[s] = "up"
  BY <1>1, TakenInTime
<1>3. Free(s)
  BY <1>1, <1>2 DEF Service, Settled, Serves, InSendWork
<1>4. QED BY <1>1, <1>2, <1>3, SlotTakeWork, Apart

LEMMA OnceTakeWork ==
    ASSUME TypeInv, Ring, Pushing, Known, Service, Alone, NEW th \in Posts, TakeWork(th)
    PROVE  OnceOnly'
<1> DEFINE u == pushed[taken + 1]
<1>0. PICK s : s = sock[th]
  OBVIOUS
<1>1. /\ s \in Slaves /\ Asked(s)' /\ work'[s] = u
      /\ \A t \in Slaves \ {s} : Keeps(t)
      /\ UNCHANGED <<seen, result>>
  BY <1>0, TakeWorkLoads
<1>2. Taken' = Taken \cup {u} /\ u \notin Taken /\ u # None
  BY TakenGrows, Kinds DEF Alone
<1>3. \A t \in Slaves \ {s} : (Loaded(t)' <=> Loaded(t)) /\ work'[t] = work[t]
  BY <1>1, KeptExactly
<1> HIDE DEF u
<1>4. u \notin seen \cup {result}
  BY <1>2 DEF Alone, OnceOnly
<1>5. \A t \in Slaves \ {s} : Loaded(t) => work[t] # u
  BY <1>2 DEF Alone, OnceOnly
<1>6. /\ \A t \in Slaves \ {s} :
              Loaded(t)' => work'[t] \in Taken /\ work'[t] \notin seen \cup {result}
      /\ \A t, v \in Slaves \ {s} :
              Loaded(t)' /\ Loaded(v)' /\ work'[t] = work'[v] => t = v
  BY <1>3 DEF Alone, OnceOnly
<1>7. seen \subseteq Taken /\ (result # None => result \in Taken /\ result \notin seen)
  BY DEF Alone, OnceOnly
<1>8. \A t \in Slaves \ {s} : Loaded(t)' => work'[t] # u
  BY <1>3, <1>5
<1>9. QED BY <1>1, <1>2, <1>4, <1>6, <1>7, <1>8 DEF OnceOnly

LEMMA OnceReceive ==
    ASSUME TypeInv, Ring, Pushing, Returned, Service, Alone, NEW s \in Slaves, Receive(s)
    PROVE  OnceOnly'
<1>1. /\ Loaded(s) /\ ~Loaded(s)' /\ result' = work[s]
      /\ \A t \in Slaves \ {s} : Keeps(t)
  BY SlotReceive, Apart DEF Service, Loaded
<1>2. UNCHANGED seen /\ Taken' = Taken /\ result = None
  BY TakenStays DEF Receive, At, frames, Returned, InSendWork
<1>3. \A t \in Slaves \ {s} : (Loaded(t)' <=> Loaded(t)) /\ work'[t] = work[t]
  BY <1>1, KeptExactly
<1>4. \A t \in Slaves : Loaded(t)' => t # s
  BY <1>1
<1>5. QED BY <1>1, <1>2, <1>3, <1>4 DEF Alone, OnceOnly

LEMMA OnceSlave ==
    ASSUME TypeInv, Ring, Pushing, Service, Alone, NEW s \in Slaves, Slave(s)
    PROVE  OnceOnly'
<1>1. /\ Free(s) => Free(s)'
      /\ Loaded(s) => Loaded(s)'
      /\ work' = work
      /\ \A t \in Slaves \ {s} : Keeps(t)
  BY SlotSlave DEF Service
<1>2. UNCHANGED <<seen, result>> /\ Taken' = Taken
  BY TakenStays DEF Slave, frames
<1>3. \A t \in Slaves : Loaded(t)' <=> Loaded(t)
  BY <1>1, KeptExactly, Apart DEF Service
<1>4. QED BY <1>1, <1>2, <1>3 DEF Alone, OnceOnly

LEMMA OnceCarrying ==
    ASSUME TypeInv, Ring, Pushing, Service, Alone, CarryingStep
    PROVE  OnceOnly'
<1>1. \A s \in Slaves : (Loaded(s)' <=> Loaded(s)) /\ work'[s] = work[s]
  BY CarryingKeeps, KeptExactly
<1>2. Taken' = Taken
  BY TakenStays
<1>3. CASE Callback
  <2>1. result # None /\ seen' = seen \cup {result} /\ result' = None
    BY <1>3 DEF Callback
  <2>2. \A s \in Slaves : work[s] = None => ~Loaded(s)
    BY DEF Loaded, Asked, Answered
  <2>3. QED BY <1>1, <1>2, <2>1, <2>2 DEF Alone, OnceOnly
<1>4. ASSUME UNCHANGED <<seen, result>> PROVE OnceOnly'
  BY <1>1, <1>2, <1>4 DEF Alone, OnceOnly
<1>5. CarryingStep => Callback \/ UNCHANGED <<seen, result>>
  BY DEF CarryingStep, WakeIdleStep, WakeIdle, SendRefused, SendMessage,
       LookForWork,
         EnterIdle, NextRequest, NoMoreRequests, Push, NoneDead, RequestSent, Reply,
         Accept, PostFrame, NoneOut, NothingLeft, Halt, Wait, Shutdown, Close,
         frames
<1>6. QED BY <1>3, <1>4, <1>5

LEMMA OnceStill ==
    ASSUME TypeInv, Ring, Pushing, Returned, Known, Service, Alone, AliveStep
    PROVE  OnceOnly'
BY OnceTakeWork, OnceReceive, OnceSlave, OnceCarrying DEF AliveStep, CarryingStep

-----------------------------------------------------------------------------

(* net starts to wake slaves when it processes a result.                   *)
LEMMA WakingStays ==
    ASSUME TypeInv,
           \/ \E th \in Posts : SendRefused(th) \/ SendMessage(th)
                                \/ LookForWork(th) \/ TakeWork(th) \/ EnterIdle(th)
           \/ WakeIdleStep \/ NextRequest \/ NoMoreRequests \/ Push
           \/ NoneDead \/ RequestSent \/ Reply \/ PostFrame
           \/ NoneOut \/ NothingLeft \/ Halt \/ Wait \/ Shutdown
           \/ Close
           \/ \E s \in Slaves : Receive(s) \/ Accept(s) \/ Slave(s)
    PROVE  Waking' => Waking /\ (UNCHANGED frame_sem \/ RequestSent \/ Reply)
<1> USE DEF At, InSendWork, Posts, Threads, AppPlaces, NetPlaces,
            MainPlaces, requests, threads, ring, ends, sockets, slaves,
            frames, TypeInv, PlacesType, ThreadsType, Waking
<1>1. ASSUME NEW th \in Posts, SendRefused(th)
      PROVE  Waking' => Waking /\ (UNCHANGED frame_sem \/ RequestSent \/ Reply)
  BY <1>1, AfterWakePlace DEF SendRefused
<1>2. ASSUME NEW th \in Posts, SendMessage(th)
      PROVE  Waking' => Waking /\ (UNCHANGED frame_sem \/ RequestSent \/ Reply)
  BY <1>2, AfterWakePlace DEF SendMessage, Sent
<1>3. ASSUME NEW th \in Posts, LookForWork(th)
      PROVE  Waking' => Waking /\ (UNCHANGED frame_sem \/ RequestSent \/ Reply)
  BY <1>3, AfterWakePlace DEF LookForWork
<1>4. ASSUME NEW th \in Posts, TakeWork(th)
      PROVE  Waking' => Waking /\ (UNCHANGED frame_sem \/ RequestSent \/ Reply)
  BY <1>4, AfterWakePlace DEF TakeWork, Sent
<1>5. ASSUME NEW th \in Posts, EnterIdle(th)
      PROVE  Waking' => Waking /\ (UNCHANGED frame_sem \/ RequestSent \/ Reply)
  BY <1>5, AfterWakePlace DEF EnterIdle
<1>6. CASE WakeIdleStep
  BY <1>6, AfterWakePlace DEF WakeIdleStep, WakeIdle
<1>7. CASE NextRequest
  BY <1>7, AfterWakePlace DEF NextRequest, Post
<1>8. CASE NoMoreRequests \/ NoneDead
  BY <1>8, AfterWakePlace DEF NoMoreRequests, NoneDead
<1>9. CASE Push
  BY <1>9, AfterWakePlace DEF Push, Fill
<1>10. CASE RequestSent
  BY <1>10 DEF RequestSent
<1>11. CASE Reply
  BY <1>11 DEF Reply
<1>12. ASSUME NEW s \in Slaves, Receive(s)
      PROVE  Waking' => Waking /\ (UNCHANGED frame_sem \/ RequestSent \/ Reply)
  BY <1>12, AfterWakePlace DEF Receive
<1>13. ASSUME NEW s \in Slaves, Accept(s)
      PROVE  Waking' => Waking /\ (UNCHANGED frame_sem \/ RequestSent \/ Reply)
  BY <1>13, AfterWakePlace DEF Accept
<1>14. CASE PostFrame \/ NoneOut \/ NothingLeft \/ Halt
  BY <1>14, AfterWakePlace DEF PostFrame, Updated, NoneOut, NothingLeft, Halt
<1>15. CASE Wait \/ Shutdown \/ Close
  BY <1>15, AfterWakePlace DEF Wait, Shutdown, Close
<1>16. ASSUME NEW s \in Slaves, Slave(s)
      PROVE  Waking' => Waking /\ (UNCHANGED frame_sem \/ RequestSent \/ Reply)
  BY <1>16, AfterWakePlace DEF Slave
<1>17. QED
  BY <1>1, <1>2, <1>3, <1>4, <1>5, <1>6, <1>7, <1>8, <1>9, <1>10, <1>11,
     <1>12, <1>13, <1>14, <1>15, <1>16

LEMMA ShotCallback ==
    ASSUME TypeInv, Ring, Pushing, Alone, Callback
    PROVE  Shot'
<1>1. SUFFICES ASSUME Waking'
               PROVE  Serving' /\ Op' = "SHOTLINE" /\ pc'["app"] # "push"
                      /\ <<request', 1>> \in seen' /\ frame_sem' = 0
  BY DEF Shot
<1>2. /\ result # None /\ Script[result[1]] = "SHOTLINE"
      /\ seen' = seen \cup {result} /\ frame_sem' = frame_sem
  BY <1>1 DEF Callback, At, Waking, InSendWork, TypeInv, PlacesType, Threads
<1>3. /\ UNCHANGED <<request, tile>> /\ Op' = Op /\ Serving' = Serving
      /\ (pc["app"] = "push" <=> pc'["app"] = "push")
  BY StandingStill DEF StandingStep
<1>4. /\ Serving /\ result[1] = request /\ result[2] \in 1 .. tile /\ result \notin seen
      /\ result = <<request, result[2]>>
  BY <1>2, ResultIsCurrent
<1>5. Op = "SHOTLINE"
  BY <1>2, <1>4 DEF Op
<1>6. tile = 1 /\ pc["app"] # "push"
  BY <1>4, <1>5 DEF Alone, Turn
<1>7. result = <<request, 1>>
  BY <1>4, <1>6
<1>8. frame_sem = 0
  BY <1>4, <1>5, <1>7 DEF Alone, Counts
<1>9. QED BY <1>2, <1>3, <1>4, <1>5, <1>6, <1>7, <1>8

LEMMA ShotStill ==
    ASSUME TypeInv, Ring, Pushing, Alone, AliveStep, Next
    PROVE  Shot'
<1>1. CASE Callback
  BY <1>1, ShotCallback
<1>2. ASSUME ~Callback, Waking'
      PROVE  Serving' /\ Op' = "SHOTLINE" /\ pc'["app"] # "push"
                      /\ <<request', 1>> \in seen' /\ frame_sem' = 0
  <2>1. Waking /\ (UNCHANGED frame_sem \/ RequestSent \/ Reply)
    BY <1>2, WakingStays DEF AliveStep
  <2>2. /\ Serving /\ Op = "SHOTLINE" /\ pc["app"] # "push"
        /\ <<request, 1>> \in seen /\ frame_sem = 0
    BY <2>1 DEF Alone, Shot
  <2>3. pc["app"] # "pushed"
    BY <2>2 DEF Alone, Turn
  <2>4. ~Reply /\ ~RequestSent /\ ~Push /\ ~NextRequest
    BY <2>2, <2>3 DEF Reply, RequestSent, Push, NextRequest, At, Serving
  <2>5. <<request, 1>> \in seen'
    BY <2>2, SeenGrows
  <2>6. CASE WakeIdleStep
    <3>1. Op' = Op /\ request' = request
      BY <2>6, WakeIdleMoves DEF requests
    <3>2. pc'["app"] \in {pc["app"], "wake", "send", "reply"}
      BY <2>2, <2>6, WakeIdleMoves, AfterWakeIs DEF Alone
    <3>3. QED BY <2>1, <2>2, <2>4, <2>5, <3>1, <3>2 DEF Serving
  <2>7. CASE StandingStep
    BY <2>1, <2>2, <2>4, <2>5, <2>7, StandingStill
  <2>8. QED BY <2>4, <2>6, <2>7 DEF AliveStep, StandingStep
<1>3. QED BY <1>1, <1>2 DEF Shot

-----------------------------------------------------------------------------

LEMMA SeenTilesFacts ==
    ASSUME TypeInv
    PROVE  /\ SeenTiles \subseteq Tiles /\ IsFiniteSet(SeenTiles) /\ IsFiniteSet(Tiles)
           /\ Cardinality(Tiles) = setup.tile_num /\ setup.tile_num \in Nat \ {0}
           /\ Cardinality(SeenTiles) \in Nat /\ Cardinality(SeenTiles) <= setup.tile_num
           /\ Cardinality(SeenTiles) = setup.tile_num => SeenTiles = Tiles
<1>1. setup.tile_num \in Nat \ {0} /\ SeenTiles \subseteq Tiles
  BY SetupFacts DEF SeenTiles
<1>2. IsFiniteSet(Tiles) /\ Cardinality(Tiles) = setup.tile_num
  BY <1>1, FS_Interval DEF Tiles
<1>3. IsFiniteSet(SeenTiles) /\ Cardinality(SeenTiles) <= setup.tile_num
      /\ (Cardinality(SeenTiles) = setup.tile_num => SeenTiles = Tiles)
  BY <1>1, <1>2, FS_Subset
<1>4. QED BY <1>1, <1>2, <1>3, FS_CardinalityType

LEMMA CountsFrom ==
    ASSUME Counts, UNCHANGED <<setup, request, frame_sem, frame_ind, image, seen>>,
           Serving' = Serving, Op' = Op,
           Serving => (pc'["app"] = "reply" <=> pc["app"] = "reply")
    PROVE  Counts'
<1>1. SeenTiles' = SeenTiles /\ Tiles' = Tiles
  BY DEF SeenTiles, Tiles
<1>2. QED BY <1>1 DEF Counts

(* Steps that have nothing to do with the image and the replies.           *)
FrameStillStep ==
    \/ \E th \in Posts : SendRefused(th) \/ SendMessage(th) \/ LookForWork(th)
                         \/ TakeWork(th) \/ EnterIdle(th)
    \/ NoMoreRequests \/ Push \/ NoneDead \/ NoneOut
    \/ NothingLeft \/ Halt \/ Wait \/ Shutdown \/ Close
    \/ \E s \in Slaves : Receive(s) \/ Accept(s) \/ Slave(s)


LEMMA FrameStill ==
    ASSUME TypeInv, FrameStillStep
    PROVE  /\ UNCHANGED <<setup, request, frames>> /\ Serving' = Serving /\ Op' = Op
           /\ (pc'["app"] = "reply" <=> pc["app"] = "reply")
<1> USE DEF At, InSendWork, Posts, Threads, AppPlaces, NetPlaces,
            MainPlaces, requests, threads, ring, ends, sockets, slaves,
            frames, TypeInv, PlacesType, ThreadsType, Serving, Op, Script
<1> DEFINE Goal == /\ UNCHANGED <<setup, request, frames>>
                   /\ Serving' = Serving /\ Op' = Op
                   /\ (pc'["app"] = "reply" <=> pc["app"] = "reply")
<1>1. ASSUME NEW th \in Posts, SendRefused(th) PROVE Goal
  BY <1>1, AfterWakePlace DEF SendRefused
<1>2. ASSUME NEW th \in Posts, SendMessage(th) PROVE Goal
  BY <1>2, AfterWakePlace DEF SendMessage, Sent
<1>3. ASSUME NEW th \in Posts, LookForWork(th) PROVE Goal
  BY <1>3, AfterWakePlace DEF LookForWork
<1>4. ASSUME NEW th \in Posts, TakeWork(th) PROVE Goal
  BY <1>4, AfterWakePlace DEF TakeWork, Sent
<1>5. ASSUME NEW th \in Posts, EnterIdle(th) PROVE Goal
  BY <1>5, AfterWakePlace DEF EnterIdle
<1>6. CASE NoMoreRequests
  BY <1>6, AfterWakePlace DEF NoMoreRequests
<1>7. CASE Push
  BY <1>7, AfterWakePlace DEF Push, Fill
<1>8. CASE NoneDead
  BY <1>8, AfterWakePlace DEF NoneDead
<1>9. ASSUME NEW s \in Slaves, Receive(s) PROVE Goal
  BY <1>9, AfterWakePlace DEF Receive
<1>10. ASSUME NEW s \in Slaves, Accept(s) PROVE Goal
  BY <1>10, AfterWakePlace DEF Accept
<1>11. CASE NoneOut \/ NothingLeft \/ Halt
  BY <1>11, AfterWakePlace DEF NoneOut, NothingLeft, Halt
<1>12. CASE Wait \/ Shutdown \/ Close
  BY <1>12, AfterWakePlace DEF Wait, Shutdown, Close
<1>13. ASSUME NEW s \in Slaves, Slave(s) PROVE Goal
  BY <1>13, AfterWakePlace DEF Slave
<1>14. QED
  BY <1>1, <1>2, <1>3, <1>4, <1>5, <1>6, <1>7, <1>8, <1>9, <1>10, <1>11,
     <1>12, <1>13 DEF FrameStillStep

LEMMA CountsNextRequest ==
    ASSUME TypeInv, Ring, Pushing, Alone, NextRequest
    PROVE  Counts'
<1>1. UNCHANGED <<setup, seen, frame_sem, frame_ind, image>> /\ request' = request + 1
  BY DEF NextRequest, frames
<1>2. ~Serving /\ Serving' /\ pc'["app"] # "reply"
  BY DEF NextRequest, At, Serving, TypeInv, PlacesType, Threads
<1>3. frame_sem = 0 /\ frame_ind = 0
  BY <1>2 DEF Alone, Counts
<1>4. request \in Nat
  BY SetupFacts DEF TypeInv, RequestsType
<1>5. \A i \in Tiles : <<request + 1, i>> \notin seen
  <2> SUFFICES ASSUME NEW i \in Tiles, <<request + 1, i>> \in seen PROVE FALSE
    OBVIOUS
  <2>1. PICK k \in 1 .. taken : pushed[k] = <<request + 1, i>>
    BY DEF Alone, OnceOnly, Taken
  <2>2. k \in 1 .. Len(pushed)
    BY LeftOver
  <2>3. request + 1 <= request
    BY <2>1, <2>2 DEF Alone, Order
  <2>4. QED BY <1>4, <2>3
<1>6. SeenTiles' = {} /\ Tiles' = Tiles
  BY <1>1, <1>5 DEF SeenTiles, Tiles
<1>7. Tiles # {} /\ Cardinality({}) = 0
  BY SetupFacts, FS_EmptySet DEF Tiles
<1>8. QED BY <1>1, <1>2, <1>3, <1>6, <1>7 DEF Counts

LEMMA CountsRequestSent ==
    ASSUME TypeInv, Pushing, Alone, RequestSent
    PROVE  Counts'
<1>1. UNCHANGED <<setup, request, frame_ind, image, seen>> /\ Op' = Op
      /\ frame_sem' = IF Op = "FRAME" THEN frame_sem ELSE frame_sem + 1
  BY DEF RequestSent, Op, Script, requests
<1>2. Serving /\ Serving' /\ pc["app"] = "pushed" /\ pc'["app"] = "reply"
  BY DEF RequestSent, At, Serving, TypeInv, PlacesType, Threads
<1>3. Op \in {"FRAME", "FRAME_ATTR"}
  BY <1>2, OpIs DEF Alone, Turn, Requests
<1>4. SeenTiles' = SeenTiles /\ Tiles' = Tiles
  BY <1>1 DEF SeenTiles, Tiles
<1>5. QED BY <1>1, <1>2, <1>3, <1>4 DEF Alone, Counts

LEMMA CountsReply ==
    ASSUME TypeInv, Pushing, Alone, Reply
    PROVE  Counts'
<1>1. UNCHANGED frame_ind /\ frame_sem > 0 /\ frame_sem' = frame_sem - 1
  BY DEF Reply
<1>2. Serving /\ ~Serving' /\ pc["app"] = "reply"
  BY DEF Reply, At, Serving, TypeInv, PlacesType, Threads
<1>3. Op \in Requests
  BY <1>2, OpIs DEF Alone
<1>4. frame_sem = 1 /\ frame_ind = 0
  BY <1>1, <1>2, <1>3 DEF Alone, Counts, Requests
<1>5. QED BY <1>1, <1>2, <1>4 DEF Counts

LEMMA CountsWakeIdle ==
    ASSUME TypeInv, Pushing, Alone, WakeIdleStep
    PROVE  Counts'
<1>1. UNCHANGED <<setup, request, frame_sem, frame_ind, image, seen>> /\ Op' = Op
  BY WakeIdleMoves DEF requests, frames
<1>2. CASE pc["app"] = pc'["app"] \/ (pc["app"] = "wake" /\ pc'["app"] \in {"wake", "send"})
  BY <1>1, <1>2, CountsFrom DEF Alone, Serving
<1>3. CASE pc["app"] = "wake" /\ pc'["app"] = AfterWake
  <2>1. Serving
    BY <1>3 DEF Serving
  <2>2. CASE Op \in {"FRAME", "FRAME_ATTR"}
    <3>1. pc'["app"] \in {"push", "pushed"}
      BY <1>3, <2>1, <2>2, AfterWakeIs DEF Alone
    <3>2. QED BY <1>1, <1>3, <3>1, CountsFrom DEF Alone, Serving
  <2>3. CASE Op = "SHOTLINE"
    <3>1. Serving' /\ SeenTiles' = SeenTiles
      BY <1>1, <1>3, <2>1, <2>3, AfterWakeIs DEF Alone, Serving, SeenTiles, Tiles
    <3>2. QED BY <1>1, <2>1, <2>3, <3>1 DEF Alone, Counts
  <2>4. CASE Op = "LOAD"
    BY <1>1, <2>1, <2>4 DEF Alone, Counts
  <2>5. QED BY <2>1, <2>2, <2>3, <2>4, AfterWakeIs DEF Requests, Alone
<1>4. QED BY <1>2, <1>3, WakeIdleMoves

LEMMA CountsPostFrame ==
    ASSUME TypeInv, Pushing, Alone, PostFrame
    PROVE  Counts'
<1>1. UNCHANGED <<request, frame_ind, seen>> /\ Op' = Op /\ Serving' = Serving
      /\ frame_sem' = Updated
  BY StandingStill DEF PostFrame, StandingStep
<1>2. Waking
  BY DEF PostFrame, At, Waking
<1>3. QED BY <1>1, <1>2 DEF Alone, Shot, Counts, Updated

(* The last tile of a frame to come back is the one that completes it.     *)
LEMMA CountsCallback ==
    ASSUME TypeInv, Ring, Pushing, Alone, Callback
    PROVE  Counts'
<1> DEFINE r == result
           i == result[2]
           c == Cardinality(SeenTiles)
<1>1. /\ Serving /\ Op \in {"FRAME", "SHOTLINE"} /\ r[1] = request /\ i \in Tiles
      /\ r = <<request, i>> /\ r \notin seen
  BY ResultIsCurrent DEF Callback
<1>2. UNCHANGED <<request, setup>> /\ Op' = Op /\ Serving' = Serving
      /\ seen' = seen \cup {r} /\ Tiles' = Tiles
  BY StandingStill, Fixed DEF Callback, StandingStep
<1>3. Op = Script[r[1]]
  BY <1>1 DEF Op
<1>4. CASE Op = "SHOTLINE"
  <2>1. UNCHANGED <<frame_sem, frame_ind>>
    BY <1>3, <1>4 DEF Callback
  <2>2. QED BY <1>1, <1>2, <1>4, <2>1 DEF Alone, Counts
<1>5. CASE Op = "FRAME"
  <2>1. SeenTiles' = SeenTiles \cup {i} /\ i \notin SeenTiles
    BY <1>1, <1>2 DEF SeenTiles, Tiles
  <2>2. frame_sem = 0 /\ frame_ind = c /\ \A j \in SeenTiles : image[j] = request
    BY <1>1, <1>5, <2>1 DEF Alone, Counts
  <2>3. c \in Nat /\ setup.tile_num \in Nat \ {0} /\ IsFiniteSet(SeenTiles)
        /\ SeenTiles \subseteq Tiles /\ IsFiniteSet(Tiles)
        /\ Cardinality(Tiles) = setup.tile_num
    BY SeenTilesFacts
  <2> HIDE DEF c
  <2>4. Cardinality(SeenTiles \cup {i}) = c + 1
    BY <2>1, <2>3, FS_AddElement DEF c
  <2>5. SeenTiles \cup {i} \subseteq Tiles
    BY <1>1, <2>3
  <2>6. c + 1 <= setup.tile_num /\ (c + 1 = setup.tile_num <=> SeenTiles \cup {i} = Tiles)
    BY <2>3, <2>4, <2>5, FS_Subset
  <2>7. /\ image' = [image EXCEPT ![i] = request]
        /\ IF c + 1 = setup.tile_num
           THEN frame_ind' = 0 /\ frame_sem' = 1
           ELSE frame_ind' = (c + 1) % setup.tile_num /\ frame_sem' = 0
    BY <1>1, <1>3, <1>5, <2>2 DEF Callback, Complete, Updated
  <2>8. c + 1 # setup.tile_num => (c + 1) % setup.tile_num = c + 1
    BY <2>3, <2>6
  <2>9. \A j \in SeenTiles \cup {i} : image'[j] = request
    BY <2>2, <2>3, <2>5, <2>7 DEF TypeInv, FramesType
  <2>10. QED BY <1>1, <1>2, <1>5, <2>1, <2>4, <2>6, <2>7, <2>8, <2>9 DEF Counts
<1>6. QED BY <1>1, <1>4, <1>5

LEMMA CountsStill ==
    ASSUME TypeInv, Ring, Pushing, Alone, AliveStep
    PROVE  Counts'
<1>1. CASE FrameStillStep
  BY <1>1, FrameStill, CountsFrom DEF Alone, frames
<1>2. QED BY <1>1, CountsNextRequest, CountsRequestSent, CountsReply,
CountsWakeIdle,
             CountsPostFrame, CountsCallback DEF AliveStep, FrameStillStep

-----------------------------------------------------------------------------
(* What the slaves have done and what they are told.                       *)

(* A unit that a slave has computed has left the buffer for good.          *)
Computed ==
    \A u \in Units :
        /\ computed[u] <= 1
        /\ computed[u] = 1 => \/ u \in seen \cup {result}
                              \/ \E s \in Slaves : Answered(s) /\ work[s] = u

Out == sem_out = Cardinality({s \in Slaves : Loaded(s)})

Awake ==
    \A s \in list : \/ idle[s]
                    \/ Loaded(s)
                    \/ Returning(s)
                    \/ \E th \in Posts : pc[th] = "taking" /\ sock[th] = s

(* Thread th is on its way to slave s.                                     *)
Tells(th, s) ==
    \/ pc[th] = "send" /\ sock[th] = s
    \/ pc[th] \in {"wake"} \cup InSendWork /\ s \in todo[th]

(* A broadcast waits only for a slave that a thread is on its way to.      *)
Told ==
    \A s \in Slaves : mesg[s] =>
        /\ s \in list
        /\ \/ Serving /\ Op \in {"FRAME_ATTR", "LOAD"} /\ Tells("app", s)
           \/ Waking /\ Tells("net", s)

LEMMA ComputedSlave ==
    ASSUME TypeInv, Service, OnceOnly, Computed, NEW s \in Slaves, Slave(s)
    PROVE  Computed'
<1>1. UNCHANGED <<seen, result, work, setup>> /\ Units' = Units
  BY Fixed DEF Slave, frames, sockets, requests
<1>2. \A t \in Slaves \ {s} : Answered(t)' <=> Answered(t)
  BY SlotSlave, KeptExactly DEF Service
<1>3. CASE Head(inbox[s]) \in Broadcasts /\ Keeps(s)
  <2>1. computed' = computed
    BY <1>3, Kinds DEF Slave, Broadcasts
  <2>2. \A t \in Slaves : Answered(t)' <=> Answered(t)
    BY <1>2, <1>3, KeptExactly
  <2>3. QED BY <1>1, <2>1, <2>2 DEF Computed
<1>4. CASE Asked(s) /\ Head(inbox[s]) = work[s] /\ Answered(s)'
  <2>1. work[s] \in Units /\ work[s] \notin Broadcasts
    BY <1>4, Kinds DEF Asked, TypeInv, SocketsType, Broadcasts
  <2>2. computed' = [computed EXCEPT ![work[s]] = @ + 1]
    BY <1>4, <2>1 DEF Slave, Broadcasts
  <2>3. work[s] \notin seen \cup {result}
    BY <1>4 DEF OnceOnly, Loaded
  <2>4. \A t \in Slaves : Answered(t) => work[t] # work[s]
    BY <1>4, Apart DEF OnceOnly, Loaded
  <2>5. computed[work[s]] = 0
    <3>1. computed[work[s]] \in Nat
      BY <2>1 DEF TypeInv, SlavesType
    <3>2. computed[work[s]] <= 1 /\ computed[work[s]] # 1
      BY <2>1, <2>3, <2>4 DEF Computed
    <3>3. QED BY <3>1, <3>2
  <2>6. \A u \in Units \ {work[s]} : computed'[u] = computed[u]
    BY <2>1, <2>2 DEF TypeInv, SlavesType
  <2>7. computed'[work[s]] = 1
    BY <2>1, <2>2, <2>5 DEF TypeInv, SlavesType
  <2>8. \A t \in Slaves : Answered(t) => Answered(t)'
    BY <1>2, <1>4
  <2>9. QED BY <1>1, <1>4, <2>6, <2>7, <2>8 DEF Computed
<1>5. QED BY <1>3, <1>4, SlotSlave DEF Service

LEMMA ComputedStill ==
    ASSUME TypeInv, Ring, Pushing, Returned, Known, Service, Alone, Computed, AliveStep,
           setup' = setup
    PROVE  Computed'
<1>1. Units' = Units
  BY Fixed
<1>2. CASE CarryingStep
  <2>1. \A s \in Slaves : (Answered(s)' <=> Answered(s)) /\ work'[s] = work[s]
    BY <1>2, CarryingKeeps, KeptExactly
  <2>2. UNCHANGED <<seen, result>> \/ (seen' = seen \cup {result})
    BY <1>2 DEF CarryingStep, WakeIdleStep, WakeIdle, SendRefused, SendMessage,
         LookForWork, EnterIdle, NextRequest, NoMoreRequests, Push, NoneDead,
         RequestSent, Reply, Callback, Accept, PostFrame, NoneOut, NothingLeft,
         Halt,
         Wait, Shutdown, Close, frames
  <2>3. UNCHANGED computed
    BY <1>2 DEF CarryingStep, WakeIdleStep, WakeIdle, SendRefused, SendMessage,
         LookForWork, EnterIdle, NextRequest, NoMoreRequests, Push, NoneDead,
         RequestSent, Reply, Callback, Accept, PostFrame, NoneOut, NothingLeft,
         Halt,
         Wait, Shutdown, Close, slaves
  <2>4. QED BY <1>1, <2>1, <2>2, <2>3 DEF Computed
<1>3. ASSUME NEW th \in Posts, TakeWork(th) PROVE Computed'
  <2>0. PICK s : s = sock[th]
    OBVIOUS
  <2>1. /\ s \in Slaves /\ ~Loaded(s) /\ UNCHANGED <<seen, result, computed>>
        /\ \A t \in Slaves \ {s} : Keeps(t)
    BY <1>3, <2>0, TakeWorkLoads
  <2>2. \A t \in Slaves : Answered(t) => Answered(t)' /\ work'[t] = work[t]
    BY <2>1 DEF Keeps, Loaded
  <2>3. QED BY <1>1, <2>1, <2>2 DEF Computed
<1>4. ASSUME NEW s \in Slaves, Receive(s) PROVE Computed'
  <2>1. /\ result' = work[s] /\ work' = work /\ \A t \in Slaves \ {s} : Keeps(t)
    BY <1>4, SlotReceive DEF Service
  <2>2. UNCHANGED <<seen, computed>> /\ result = None
    BY <1>4 DEF Receive, At, frames, Returned, InSendWork
  <2>3. \A u \in Units : u # None
    BY Kinds
  <2>4. QED BY <1>1, <2>1, <2>2, <2>3 DEF Computed, Keeps
<1>5. QED BY <1>2, <1>3, <1>4, ComputedSlave DEF AliveStep, CarryingStep, Alone

LEMMA OutStill ==
    ASSUME TypeInv, Ring, Pushing, Returned, Known, Service, Alone, Out, AliveStep
    PROVE  Out'
<1> DEFINE L == {s \in Slaves : Loaded(s)}
<1>1. IsFiniteSet(L)
  BY SlavesAssumption, FS_Subset
<1>2. CASE CarryingStep
  <2>1. L' = L
    BY <1>2, CarryingKeeps, KeptExactly
  <2>2. UNCHANGED sem_out
    BY <1>2 DEF CarryingStep, WakeIdleStep, WakeIdle, SendRefused, SendMessage,
         LookForWork, EnterIdle, NextRequest, NoMoreRequests, Push, NoneDead,
         RequestSent, Reply, Callback, Accept, PostFrame, NoneOut, NothingLeft,
         Halt,
         Wait, Shutdown, Close
  <2>3. QED BY <2>1, <2>2 DEF Out
<1>3. ASSUME NEW th \in Posts, TakeWork(th) PROVE Out'
  <2>0. PICK s : s = sock[th]
    OBVIOUS
  <2>1. /\ s \in Slaves /\ ~Loaded(s) /\ Loaded(s)'
        /\ \A t \in Slaves \ {s} : Loaded(t)' <=> Loaded(t)
    BY <1>3, <2>0, TakeWorkLoads, KeptExactly DEF Loaded
  <2>2. L' = L \cup {s} /\ s \notin L
    BY <2>1
  <2>3. sem_out' = sem_out + 1
    BY <1>3 DEF TakeWork
  <2>4. QED BY <1>1, <2>2, <2>3, FS_AddElement DEF Out
<1>4. ASSUME NEW s \in Slaves, Receive(s) PROVE Out'
  <2>1. /\ Loaded(s) /\ ~Loaded(s)'
        /\ \A t \in Slaves \ {s} : Loaded(t)' <=> Loaded(t)
    BY <1>4, SlotReceive, Apart, KeptExactly DEF Service, Loaded
  <2>2. L' = L \ {s} /\ s \in L
    BY <2>1
  <2>3. sem_out' = sem_out - 1
    BY <1>4 DEF Receive
  <2>4. QED BY <1>1, <2>2, <2>3, FS_RemoveElement DEF Out
<1>5. ASSUME NEW s \in Slaves, Slave(s) PROVE Out'
  <2>1. \A t \in Slaves : Loaded(t)' <=> Loaded(t)
    BY <1>5, SlotSlave, KeptExactly, Apart DEF Service
  <2>2. L' = L /\ UNCHANGED sem_out
    BY <1>5, <2>1 DEF Slave
  <2>3. QED BY <2>2 DEF Out
<1>6. QED BY <1>2, <1>3, <1>4, <1>5 DEF AliveStep, CarryingStep

-----------------------------------------------------------------------------

LEMMA NoMessage ==
    ASSUME TypeInv, Ring, Pushing, Returned, Alone, Told,
           result # None \/ ~Serving
    PROVE  \A s \in Slaves : ~mesg[s]
<1>1. Serving /\ Op \in {"FRAME_ATTR", "LOAD"} => result = None
  BY NothingOut DEF Alone
<1>2. Waking => Serving /\ result = None
  BY NothingOut DEF Alone, Shot
<1>3. QED BY <1>1, <1>2 DEF Told

(* A slave that a thread has a message for is idle.                        *)
LEMMA ToldIsIdle ==
    ASSUME TypeInv, Ring, Pushing, Returned, Alone, Awake, Told, NEW s \in Slaves, mesg[s]
    PROVE  idle[s] /\ ~Returning(s)
<1>1. Waking \/ Op \in {"FRAME_ATTR", "LOAD"}
  BY DEF Told
<1>2. ~Loaded(s) /\ result = None /\ \A th \in Posts : pc[th] # "taking"
  BY <1>1, NothingOut DEF Alone
<1>3. ~Returning(s)
  BY <1>2 DEF Returning, Serves, Returned
<1>4. s \in list
  BY DEF Told
<1>5. QED BY <1>2, <1>3, <1>4 DEF Awake

LEMMA NotRefused ==
    ASSUME TypeInv, Ring, Pushing, Alone, NEW th \in Posts, SendRefused(th)
    PROVE  ~Serving /\ result = None /\ th = "net" /\ ~Waking
<1>1. ~Serving /\ pc["app"] \notin InSendWork
  BY DEF SendRefused, Alone, Calm, Serving, InSendWork
<1>2. QED BY <1>1, NothingOut DEF Alone, Shot, SendRefused, At, InSendWork, Posts

(* Steps that move no thread at a slave.                                   *)
RestfulStep ==
    \/ WakeIdleStep \/ NextRequest \/ NoMoreRequests \/ Push
    \/ NoneDead \/ RequestSent \/ Reply \/ Callback
    \/ PostFrame \/ NoneOut \/ NothingLeft \/ Halt \/ Wait
    \/ Shutdown \/ Close
    \/ \E s \in Slaves : Slave(s)

LEMMA AwakeStays ==
    ASSUME TypeInv, RestfulStep
    PROVE  /\ UNCHANGED <<idle, list>>
           /\ \A th \in Posts : pc[th] = "taking" => pc'[th] = "taking" /\ UNCHANGED sock[th]
           /\ pc["net"] \in InSendWork => UNCHANGED <<pc["net"], sock["net"], back["net"]>>
<1> USE DEF At, InSendWork, Posts, Threads, AppPlaces, NetPlaces,
            MainPlaces, requests, threads, ring, ends, sockets, slaves,
            frames, TypeInv, PlacesType, ThreadsType
<1> DEFINE Goal == /\ UNCHANGED <<idle, list>>
                   /\ \A th \in Posts : pc[th] = "taking" => pc'[th] = "taking" /\ UNCHANGED sock[th]
                   /\ pc["net"] \in InSendWork => UNCHANGED <<pc["net"], sock["net"], back["net"]>>
<1>1. CASE WakeIdleStep
  BY <1>1, AfterWakePlace DEF WakeIdleStep, WakeIdle
<1>2. CASE NextRequest
  BY <1>2, AfterWakePlace DEF NextRequest, Post
<1>3. CASE NoMoreRequests \/ NoneDead \/ RequestSent \/ Reply
  BY <1>3, AfterWakePlace DEF NoMoreRequests, NoneDead, RequestSent, Reply
<1>4. CASE Push
  BY <1>4, AfterWakePlace DEF Push, Fill
<1>5. CASE Callback
  BY <1>5, AfterWakePlace DEF Callback, Post, Updated, Complete
<1>6. CASE PostFrame \/ NoneOut \/ NothingLeft \/ Halt
  BY <1>6, AfterWakePlace DEF PostFrame, Updated, NoneOut, NothingLeft, Halt
<1>7. CASE Wait \/ Shutdown \/ Close
  BY <1>7, AfterWakePlace DEF Wait, Shutdown, Close
<1>8. ASSUME NEW s \in Slaves, Slave(s) PROVE Goal
  BY <1>8, AfterWakePlace DEF Slave
<1>9. QED BY <1>1, <1>2, <1>3, <1>4, <1>5, <1>6, <1>7, <1>8 DEF RestfulStep

LEMMA AwakeStill ==
    ASSUME TypeInv, Ring, Mutex, Pushing, Returned, Known, Service, Alone, Awake, Told, AliveStep
    PROVE  Awake'
<1> USE DEF Posts, Threads
<1>1. ASSUME CarryingStep, UNCHANGED <<idle, list>>,
             \A s \in Slaves : Returning(s) => Returning(s)' \/ idle[s],
             \A th \in Posts : pc[th] = "taking" => pc'[th] = "taking" /\ UNCHANGED sock[th]
      PROVE  Awake'
  <2>1. \A s \in Slaves : Loaded(s)' <=> Loaded(s)
    BY <1>1, CarryingKeeps, KeptExactly
  <2>2. list \subseteq Slaves
    BY DEF TypeInv, SocketsType
  <2>3. QED BY <1>1, <2>1, <2>2 DEF Awake
<1>2. ASSUME NEW th \in Posts, SendRefused(th) PROVE Awake'
  <2>1. \A s \in Slaves : ~Returning(s)
    BY <1>2, NotRefused DEF Returning, Serves, Returned
  <2>2. QED BY <1>1, <1>2, <2>1 DEF SendRefused, At, CarryingStep, TypeInv,
  PlacesType,
               threads, sockets
<1>3. ASSUME NEW th \in Posts, SendMessage(th) PROVE Awake'
  <2>1. mesg[sock[th]] /\ sock[th] \in Slaves /\ pc[th] = "send"
    BY <1>3 DEF SendMessage, At, TypeInv, ThreadsType, InSendWork
  <2>2. ~Returning(sock[th])
    BY <2>1, ToldIsIdle
  <2>3. \A s \in Slaves : Returning(s) => Returning(s)'
    BY <1>3, <2>1, <2>2 DEF SendMessage, At, TypeInv, PlacesType, threads,
         Returning,
       Serves, InSendWork
  <2>4. \A t \in Posts : pc[t] = "taking" => pc'[t] = "taking" /\ UNCHANGED sock[t]
    BY <1>3, <2>1 DEF SendMessage, At, TypeInv, PlacesType, threads
  <2>5. QED BY <1>1, <1>3, <2>3, <2>4 DEF SendMessage, CarryingStep
<1>4. ASSUME NEW th \in Posts, LookForWork(th) PROVE Awake'
  <2>1. \A s \in Slaves : Loaded(s)' <=> Loaded(s)
    BY <1>4, CarryingKeeps, KeptExactly DEF CarryingStep
  <2>2. \A s \in Slaves : Returning(s) => Returning(s)'
    BY <1>4 DEF LookForWork, At, TypeInv, PlacesType, threads, Returning, Serves,
         InSendWork
  <2>3. \A t \in Posts : pc[t] = "taking" => pc'[t] = "taking" /\ UNCHANGED sock[t]
    BY <1>4 DEF LookForWork, At, TypeInv, PlacesType, threads
  <2>4. \A s \in Slaves : idle[s] => idle'[s] \/ (pc'[th] = "taking" /\ sock'[th] = s)
    BY <1>4 DEF LookForWork, At, TypeInv, PlacesType, SocketsType, threads
  <2>5. list' = list /\ list \subseteq Slaves
    BY <1>4 DEF LookForWork, TypeInv, SocketsType
  <2>6. QED BY <2>1, <2>2, <2>3, <2>4, <2>5 DEF Awake
<1>5. ASSUME NEW th \in Posts, TakeWork(th) PROVE Awake'
  <2>0. PICK s : s = sock[th]
    OBVIOUS
  <2>1. /\ s \in Slaves /\ Loaded(s)'
        /\ \A t \in Slaves \ {s} : Loaded(t)' <=> Loaded(t)
    BY <1>5, <2>0, TakeWorkLoads, KeptExactly DEF Loaded
  <2>2. \A t \in Slaves \ {s} : Returning(t) => Returning(t)'
    BY <1>5, <2>0 DEF TakeWork, At, TypeInv, PlacesType, threads, Returning, Serves
  <2>3. \A t \in Posts : pc[t] = "taking" => sock[t] = s
    BY <1>5, <2>0, TakingIs DEF TakeWork, At
  <2>4. UNCHANGED <<list, idle>> /\ list \subseteq Slaves
    BY <1>5 DEF TakeWork, TypeInv, SocketsType
  <2>5. QED BY <2>1, <2>2, <2>3, <2>4 DEF Awake
<1>6. ASSUME NEW th \in Posts, EnterIdle(th) PROVE Awake'
  <2>0. PICK s : s = sock[th]
    OBVIOUS
  <2>1. \A t \in Slaves : Loaded(t)' <=> Loaded(t)
    BY <1>6, CarryingKeeps, KeptExactly DEF CarryingStep
  <2>2. s \in Slaves /\ idle'[s] /\ (\A t \in Slaves : idle[t] => idle'[t])
    BY <1>6, <2>0 DEF EnterIdle, At, TypeInv, ThreadsType, SocketsType, InSendWork
  <2>3. \A t \in Slaves \ {s} : Returning(t) => Returning(t)'
    BY <1>6, <2>0 DEF EnterIdle, At, TypeInv, PlacesType, threads, Returning, Serves
  <2>4. \A t \in Posts : pc[t] = "taking" => pc'[t] = "taking" /\ UNCHANGED sock[t]
    BY <1>6 DEF EnterIdle, At, TypeInv, PlacesType, threads
  <2>5. UNCHANGED list /\ list \subseteq Slaves
    BY <1>6 DEF EnterIdle, TypeInv, SocketsType
  <2>6. QED BY <2>1, <2>2, <2>3, <2>4, <2>5 DEF Awake
<1>7. ASSUME NEW s \in Slaves, Receive(s) PROVE Awake'
  <2>1. \A t \in Slaves \ {s} : Loaded(t)' <=> Loaded(t)
    BY <1>7, SlotReceive, KeptExactly DEF Service
  <2>2. Returning(s)' /\ \A t \in Slaves : ~Returning(t)
    BY <1>7 DEF Receive, At, TypeInv, PlacesType, ThreadsType, Returning, Serves,
         InSendWork
  <2>3. \A t \in Posts : pc[t] = "taking" => pc'[t] = "taking" /\ UNCHANGED sock[t]
    BY <1>7 DEF Receive, At, TypeInv, PlacesType, ThreadsType
  <2>4. UNCHANGED <<list, idle>> /\ list \subseteq Slaves
    BY <1>7 DEF Receive, TypeInv, SocketsType, sockets
  <2>5. QED BY <2>1, <2>2, <2>3, <2>4 DEF Awake
<1>8. ASSUME NEW s \in Slaves, Accept(s) PROVE Awake'
  <2>1. \A t \in Slaves : Loaded(t)' <=> Loaded(t)
    BY <1>8, CarryingKeeps, KeptExactly DEF CarryingStep
  <2>2. idle[s] /\ idle' = idle /\ list' = list \cup {s} /\ list \subseteq Slaves
    BY <1>8 DEF Accept, Known, TypeInv, SocketsType
  <2>3. \A t \in Slaves : ~Returning(t)
    BY <1>8 DEF Accept, At, Returning, Serves, InSendWork
  <2>4. \A t \in Posts : pc[t] = "taking" => pc'[t] = "taking" /\ UNCHANGED sock[t]
    BY <1>8 DEF Accept, At, TypeInv, PlacesType, threads
  <2>5. QED BY <2>1, <2>2, <2>3, <2>4 DEF Awake
<1>9. ASSUME RestfulStep PROVE Awake'
  <2>1. /\ UNCHANGED <<idle, list>>
        /\ \A th \in Posts : pc[th] = "taking" => pc'[th] = "taking" /\ UNCHANGED sock[th]
        /\ \A t \in Slaves : Returning(t) => Returning(t)'
    BY <1>9, AwakeStays DEF Returning, Serves
  <2>2. CASE CarryingStep
    BY <1>1, <2>1, <2>2
  <2>3. ASSUME NEW s \in Slaves, Slave(s) PROVE Awake'
    <3>1. \A t \in Slaves : Loaded(t)' <=> Loaded(t)
      BY <2>3, SlotSlave, KeptExactly, Apart DEF Service
    <3>2. list \subseteq Slaves
      BY DEF TypeInv, SocketsType
    <3>3. QED BY <2>1, <3>1, <3>2 DEF Awake
  <2>4. QED BY <1>9, <2>2, <2>3 DEF CarryingStep, RestfulStep
<1>10. QED BY <1>2, <1>3, <1>4, <1>5, <1>6, <1>7, <1>8, <1>9 DEF AliveStep,
RestfulStep

(* Steps of a thread that is not telling slaves anything.                  *)
ElsewhereStep ==
    \/ NoMoreRequests \/ Push \/ NoneDead \/ RequestSent
    \/ Reply \/ PostFrame \/ NoneOut \/ NothingLeft \/ Halt
    \/ Wait \/ Shutdown \/ Close
    \/ \E s \in Slaves : Receive(s) \/ Accept(s) \/ Slave(s)


LEMMA ElsewhereStill ==
    ASSUME TypeInv, ElsewhereStep
    PROVE  /\ UNCHANGED <<mesg, request, setup>> /\ list \subseteq list'
           /\ \A t \in Posts : pc[t] \in {"wake"} \cup InSendWork => UNCHANGED <<pc[t], sock[t], back[t], todo[t]>>
<1> USE DEF At, InSendWork, Posts, Threads, AppPlaces, NetPlaces,
            MainPlaces, requests, threads, ring, ends, sockets, slaves,
            frames, TypeInv, PlacesType, ThreadsType
<1> DEFINE Goal == /\ UNCHANGED <<mesg, request, setup>> /\ list \subseteq list'
                   /\ \A t \in Posts : pc[t] \in {"wake"} \cup InSendWork => UNCHANGED <<pc[t], sock[t], back[t], todo[t]>>
<1>1. CASE NoMoreRequests \/ NoneDead \/ RequestSent \/ Reply
  BY <1>1, AfterWakePlace DEF NoMoreRequests, NoneDead, RequestSent, Reply
<1>2. CASE Push
  BY <1>2, AfterWakePlace DEF Push, Fill
<1>3. ASSUME NEW s \in Slaves, Receive(s) PROVE Goal
  BY <1>3, AfterWakePlace DEF Receive
<1>4. ASSUME NEW s \in Slaves, Accept(s) PROVE Goal
  BY <1>4, AfterWakePlace DEF Accept
<1>5. CASE PostFrame \/ NoneOut \/ NothingLeft \/ Halt
  BY <1>5, AfterWakePlace DEF PostFrame, Updated, NoneOut, NothingLeft, Halt
<1>6. CASE Wait \/ Shutdown \/ Close
  BY <1>6, AfterWakePlace DEF Wait, Shutdown, Close
<1>7. ASSUME NEW s \in Slaves, Slave(s) PROVE Goal
  BY <1>7, AfterWakePlace DEF Slave
<1>8. QED BY <1>1, <1>2, <1>3, <1>4, <1>5, <1>6, <1>7 DEF ElsewhereStep

LEMMA ToldElsewhere ==
    ASSUME TypeInv, Told, ElsewhereStep
    PROVE  Told'
<1> USE DEF Posts
<1>1. /\ UNCHANGED <<mesg, request, setup>> /\ list \subseteq list'
      /\ \A t \in Posts : pc[t] \in {"wake"} \cup InSendWork =>
             UNCHANGED <<pc[t], sock[t], back[t], todo[t]>>
  BY ElsewhereStill
<1>2. Op' = Op
  BY <1>1 DEF Op, Script
<1>3. ASSUME NEW s \in Slaves, NEW t \in Posts, Tells(t, s)
      PROVE  Tells(t, s)' /\ UNCHANGED <<pc[t], back[t]>>
  BY <1>1, <1>3 DEF Tells, InSendWork
<1>4. ASSUME NEW s \in Slaves, Serving, Tells("app", s)
      PROVE  Serving' /\ Tells("app", s)'
  BY <1>3, <1>4 DEF Serving
<1>5. ASSUME NEW s \in Slaves, Waking, Tells("net", s)
      PROVE  Waking' /\ Tells("net", s)'
  BY <1>3, <1>5 DEF Waking
<1>6. QED BY <1>1, <1>2, <1>4, <1>5 DEF Told

(* A thread that is not at slave s tells it when it comes to it.           *)
LEMMA ToldFrom ==
    ASSUME TypeInv, Told, UNCHANGED <<setup, request, list>>,
           \A s \in Slaves : mesg'[s] => mesg[s],
           Serving => Serving', Waking => Waking',
           \A th \in Posts, s \in Slaves : Tells(th, s) /\ mesg'[s] => Tells(th, s)'
    PROVE  Told'
<1>1. Op' = Op
  BY DEF Op, Script
<1>2. QED BY <1>1 DEF Told, Posts

LEMMA ToldSends ==
    ASSUME TypeInv, Told, NEW th \in Posts,
           SendMessage(th) \/ LookForWork(th) \/ TakeWork(th) \/ EnterIdle(th),
           Waking \/ th = "app"
    PROVE  Told'
<1> USE DEF Posts, Threads
<1>1. /\ UNCHANGED <<setup, request, list, sock, back, todo>>
      /\ \A t \in Posts \ {th} : pc'[t] = pc[t]
      /\ pc[th] \in InSendWork /\ pc'[th] \in {back[th], "taking", "resting"}
      /\ sock[th] \in Slaves
  BY DEF SendMessage, LookForWork, TakeWork, EnterIdle, At, InSendWork, TypeInv,
         PlacesType, ThreadsType, requests, threads
<1>2. \A s \in Slaves : mesg'[s] => mesg[s] /\ (pc[th] = "send" => s # sock[th])
  BY <1>1 DEF SendMessage, LookForWork, TakeWork, EnterIdle, At, TypeInv,
       SocketsType
<1>3. Serving => Serving'
  BY <1>1 DEF Serving, InSendWork, TypeInv, PlacesType, ThreadsType
<1>4. Waking => Waking' /\ (th = "net" => back["net"] = "wake")
  BY <1>1 DEF Waking, InSendWork, TypeInv, PlacesType, ThreadsType
<1>5. back[th] = "wake"
  BY <1>1, <1>4 DEF TypeInv, ThreadsType
<1>6. ASSUME NEW t \in Posts, NEW s \in Slaves, Tells(t, s), mesg'[s]
      PROVE  Tells(t, s)'
  <2>1. CASE t = th
    <3>1. s \in todo[t]
      BY <1>1, <1>2, <1>6, <2>1 DEF Tells
    <3>2. QED BY <1>1, <1>5, <2>1, <3>1 DEF Tells, InSendWork
  <2>2. CASE t # th
    BY <1>1, <1>6, <2>2 DEF Tells
  <2>3. QED BY <2>1, <2>2
<1>7. QED BY <1>1, <1>2, <1>3, <1>4, <1>6, ToldFrom

(* With a result in hand there is nobody to tell.                          *)
LEMMA ToldReturns ==
    ASSUME TypeInv, Ring, Pushing, Returned, Alone, Told, ~Waking,
           SendRefused("net") \/ SendMessage("net") \/ LookForWork("net") \/ TakeWork("net")
           \/ EnterIdle("net")
    PROVE  Told'
<1>1. pc["net"] \in InSendWork
  BY DEF SendRefused, SendMessage, LookForWork, TakeWork, EnterIdle, At, InSendWork
<1>2. back["net"] = "callback"
  BY <1>1 DEF Waking, TypeInv, ThreadsType, Posts
<1>3. result # None
  BY <1>1, <1>2 DEF Returned
<1>4. \A s \in Slaves : ~mesg[s]
  BY <1>3, NoMessage
<1>5. \A s \in Slaves : ~mesg'[s]
  BY <1>4 DEF SendRefused, SendMessage, LookForWork, TakeWork, EnterIdle, sockets,
              TypeInv, SocketsType
<1>6. QED BY <1>5 DEF Told

LEMMA ToldWakeIdle ==
    ASSUME TypeInv, Ring, Pushing, Returned, Alone, Awake, Told, WakeIdleStep
    PROVE  Told'
<1> USE DEF Posts, Threads
<1>1. UNCHANGED <<setup, request, list, mesg, idle>> /\ Op' = Op
  BY WakeIdleMoves DEF sockets, requests
<1>2. ASSUME NEW th \in Posts, NEW next, WakeIdle(th, next), NEW t \in Posts,
             NEW s \in Slaves, Tells(t, s), mesg[s], next \notin {"wake", "send"}
      PROVE  Tells(t, s)' /\ pc'[t] \in {"wake"} \cup InSendWork
             /\ (pc'[t] # "wake" => (pc'[t] = pc[t] /\ UNCHANGED back) \/ back'[t] = "wake")
  <2>0. idle[s]
    BY <1>2, ToldIsIdle
  <2>1. pc[th] = "wake"
    BY <1>2 DEF WakeIdle, At
  <2>2. CASE t # th
    BY <1>2, <2>1, <2>2 DEF WakeIdle, At, Tells, threads, InSendWork, TypeInv,
       PlacesType, ThreadsType
  <2>3. CASE t = th
    <3>1. s \in todo[th]
      BY <1>2, <2>1, <2>3 DEF Tells
    <3>2. QED BY <1>2, <2>0, <2>1, <2>3, <3>1 DEF WakeIdle, At, Tells, threads,
               InSendWork, TypeInv, PlacesType, ThreadsType
  <2>4. QED BY <2>2, <2>3
<1>3. \A th \in Posts, s \in Slaves : Tells(th, s) /\ mesg[s] => Tells(th, s)'
  <2>1. AfterWake \notin {"wake", "send"} \/ ~(request > 0)
    BY AfterWakePlace
  <2>2. QED BY <1>2, <2>1 DEF WakeIdleStep
<1>4. \A s \in Slaves : Serving /\ Tells("app", s) /\ mesg[s] => Serving'
  <2>1. AfterWake \notin {"wake", "send"} \/ ~(request > 0)
    BY AfterWakePlace
  <2>2. QED BY <1>2, <2>1 DEF WakeIdleStep, Serving, InSendWork
<1>5. \A s \in Slaves : Waking /\ Tells("net", s) /\ mesg[s] => Waking'
  BY WakeIdleMoves DEF WakeIdleStep, WakeIdle, At, Waking, InSendWork, TypeInv,
     PlacesType, ThreadsType, threads
<1>6. QED BY <1>1, <1>3, <1>4, <1>5 DEF Told

LEMMA ToldNextRequest ==
    ASSUME TypeInv, Ring, Pushing, Returned, Alone, Told, NextRequest
    PROVE  Told'
<1> USE DEF Posts, Threads
<1>1. ~Serving
  BY DEF NextRequest, At, Serving
<1>2. \A s \in Slaves : ~mesg[s]
  BY <1>1, NoMessage
<1>3. Op' = Script[request + 1] /\ list' = list
  BY DEF NextRequest, Op, Script
<1>4. CASE Script[request + 1] \in {"FRAME", "SHOTLINE"} /\ UNCHANGED mesg
  BY <1>2, <1>4 DEF Told
<1>5. CASE /\ Script[request + 1] \in {"FRAME_ATTR", "LOAD"}
           /\ At("app", "next", "wake") /\ Post("app")
  <2>1. \A s \in Slaves : mesg'[s] => s \in list
    BY <1>2, <1>5 DEF Post
  <2>2. pc'["app"] = "wake" /\ todo'["app"] = list
    BY <1>5 DEF At, Post, TypeInv, PlacesType, ThreadsType
  <2>3. QED BY <1>3, <1>5, <2>1, <2>2 DEF Told, Tells, Serving
<1>6. QED BY <1>4, <1>5 DEF NextRequest

LEMMA ToldCallback ==
    ASSUME TypeInv, Ring, Pushing, Returned, Alone, Told, Callback
    PROVE  Told'
<1> USE DEF Posts, Threads
<1>1. \A s \in Slaves : ~mesg[s]
  BY NoMessage DEF Callback
<1>2. CASE UNCHANGED mesg
  BY <1>1, <1>2 DEF Told
<1>3. CASE At("net", "callback", "wake") /\ Post("net") /\ UNCHANGED list
  <2>1. \A s \in Slaves : mesg'[s] => s \in list
    BY <1>1, <1>3 DEF Post
  <2>2. pc'["net"] = "wake" /\ todo'["net"] = list
    BY <1>3 DEF At, Post, TypeInv, PlacesType, ThreadsType
  <2>3. QED BY <1>3, <2>1, <2>2 DEF Told, Tells, Waking
<1>4. QED BY <1>2, <1>3 DEF Callback

LEMMA ToldStill ==
    ASSUME TypeInv, Ring, Pushing, Returned, Alone, Awake, Told, AliveStep
    PROVE  Told'
<1>1. ASSUME NEW th \in Posts, SendRefused(th) PROVE Told'
  <2>1. th = "net" /\ ~Waking
    BY <1>1, NotRefused
  <2>2. QED BY <1>1, <2>1, ToldReturns
<1>2. ASSUME NEW th \in Posts,
             SendMessage(th) \/ LookForWork(th) \/ TakeWork(th) \/ EnterIdle(th)
      PROVE  Told'
  <2>1. CASE Waking \/ th = "app"
    BY <1>2, <2>1, ToldSends
  <2>2. CASE ~Waking /\ th = "net"
    BY <1>2, <2>2, ToldReturns
  <2>3. QED BY <2>1, <2>2 DEF Posts
<1>3. QED BY <1>1, <1>2, ToldElsewhere, ToldWakeIdle, ToldNextRequest, ToldCallback
          DEF AliveStep, ElsewhereStep

-----------------------------------------------------------------------------
(* The inductive invariant and its theorems.                               *)

(* No result makes net wake slaves.                                        *)
NoShots == \A r \in DOMAIN Script : Script[r] # "SHOTLINE"

(* What holds as long as no slave dies.                                    *)
Lone == Alone /\ Computed /\ Out /\ Awake /\ Told

IInv ==
    /\ Flow /\ Returned /\ Known /\ Buried /\ Open
    /\ NoShots => ~Waking
    /\ OneWaker => Service /\ Cover
    /\ NoDeaths => Lone

LEMMA NoShotsStill ==
    ASSUME TypeInv, NoShots, ~Waking, Next
    PROVE  ~Waking'
<1>1. CASE Callback
  <2>1. pc'["net"] = "check"
    <3>1. result \in Units
      BY <1>1 DEF Callback, TypeInv, FramesType
    <3>2. Script[result[1]] # "SHOTLINE"
      BY <3>1, UnitIsPair, SetupFacts DEF NoShots
    <3>3. QED BY <1>1, <3>2 DEF Callback, At, TypeInv, PlacesType, Threads
  <2>2. QED BY <2>1 DEF Waking, InSendWork
<1>2. CASE Requeue \/ \E s \in Slaves : Bury(s) \/ Die(s)
  <2>1. pc'["net"] = pc["net"] /\ back' = back
    BY <1>2 DEF Requeue, Bury, Die, At, TypeInv, PlacesType, Threads, threads
  <2>2. QED BY <2>1 DEF Waking
<1>3. QED BY <1>1, <1>2, Steps, WakingStays DEF Step

LEMMA InitEmpty ==
    ASSUME Init
    PROVE  /\ ~Waking /\ ~Serving
           /\ \A s \in Slaves : /\ Free(s) /\ Settled(s) /\ ~Loaded(s)
                                /\ state[s] \in {"out", "up"}
           /\ \A th \in Posts : pc[th] \notin {"wake"} \cup InSendWork
           /\ Taken = {}
<1>1. \A s \in Slaves : inbox[s] = <<>> /\ outbox[s] = <<>> /\ work[s] = None
  BY DEF Init
<1>2. \A s \in Slaves : Free(s) /\ Settled(s) /\ ~Loaded(s)
  BY <1>1 DEF Free, Settled, NoUnit, Loaded, Asked, Answered
<1>3. ~Waking /\ ~Serving /\ \A th \in Posts : pc[th] \notin {"wake"} \cup InSendWork
  BY DEF Init, Waking, Serving, InSendWork, Posts
<1>4. \A s \in Slaves : state[s] \in {"out", "up"}
  BY DEF Init
<1>5. Taken = {}
  BY DEF Init, Taken
<1>6. QED BY <1>2, <1>3, <1>4, <1>5

LEMMA InitLone ==
    ASSUME Init
    PROVE  Lone
<1> USE InitEmpty
<1>1. Calm /\ Order /\ Shot
  <2>1. Calm
    BY DEF Init, Calm
  <2>2. Order
    BY DEF Init, Order
  <2>3. Shot
    BY DEF Shot
  <2>4. QED BY <2>1, <2>2, <2>3
<1>2. Turn /\ OnceOnly
  BY DEF Init, Turn, OnceOnly
<1>3. Counts
  BY DEF Init, Counts
<1>4. Computed
  BY DEF Init, Computed
<1>5. Out
  <2>1. {s \in Slaves : Loaded(s)} = {}
    OBVIOUS
  <2>2. QED BY <2>1, FS_EmptySet DEF Out, Init
<1>6. Awake /\ Told
  <2>1. list \subseteq Slaves
    BY InitFlow DEF Flow, TypeInv, SocketsType
  <2>2. QED BY <2>1 DEF Init, Awake, Told
<1>7. QED BY <1>1, <1>2, <1>3, <1>4, <1>5, <1>6 DEF Lone, Alone

LEMMA InitIInv ==
    ASSUME Init
    PROVE  IInv
<1> USE InitEmpty
<1>1. Flow /\ Lone
  BY InitFlow, InitLone
<1>2. Returned
  BY DEF Init, Returned
<1>3. Known
  <2>1. list \subseteq Slaves
    BY <1>1 DEF Flow, TypeInv, SocketsType
  <2>2. QED BY <2>1 DEF Init, Known, Posts
<1>4. Buried /\ Open
  BY DEF Init, Buried, Open
<1>5. Service
  <2>1. \A th \in Posts, s \in Slaves : ~Serves(th, s)
    BY DEF Serves
  <2>2. \A s \in Slaves : ~Returning(s)
    BY <2>1 DEF Returning, Posts
  <2>3. \A th \in Posts : pc[th] # "taking"
    BY DEF InSendWork
  <2>4. QED BY <2>1, <2>2, <2>3 DEF Service
<1>6. Cover
  BY DEF Init, Cover
<1>7. QED BY <1>1, <1>2, <1>3, <1>4, <1>5, <1>6 DEF IInv

LEMMA NextLone ==
    ASSUME IInv, NoDeaths, Next
    PROVE  Lone'
<1>1. setup' = setup /\ Step
  BY SetupFixed, Steps
<1>2. OneWaker
  BY DEF OneWaker
<1>3. TypeInv /\ Mutex /\ Ring /\ Pushing /\ Returned /\ Known /\ Open /\ Service /\ Lone
  BY <1>2 DEF IInv, Flow
<1>4. AliveStep
  BY <1>1, <1>3, AliveSteps DEF Lone, Alone
<1>5. Calm' /\ Order' /\ Turn' /\ OnceOnly' /\ Shot' /\ Counts'
  BY <1>3, <1>4, CalmStill, OrderStill, TurnStill, OnceStill, ShotStill, CountsStill
     DEF Lone, Alone
<1>6. Computed' /\ Out'
  BY <1>1, <1>3, <1>4, ComputedStill, OutStill DEF Lone
<1>7. Awake' /\ Told'
  BY <1>3, <1>4, AwakeStill, ToldStill DEF Lone
<1>8. QED BY <1>5, <1>6, <1>7 DEF Lone, Alone

LEMMA StutterIInv ==
    ASSUME IInv, UNCHANGED vars
    PROVE  IInv'
<1> USE DEF vars, requests, threads, ring, ends, sockets, slaves, frames
<1>1. Flow'
  BY NextFlow DEF IInv
<1>2. /\ Returned' = Returned /\ Known' = Known /\ Buried' = Buried /\ Open' = Open
      /\ Waking' = Waking
  BY DEF Returned, Known, Buried, Open, Waking
<1>3. NoShots' = NoShots /\ OneWaker' = OneWaker /\ NoDeaths' = NoDeaths
  BY Fixed DEF NoShots, Script
<1>4. \A s \in Slaves : Free(s)' = Free(s) /\ Asked(s)' = Asked(s) /\ Answered(s)' = Answered(s)
                        /\ Loaded(s)' = Loaded(s) /\ Settled(s)' = Settled(s)
                        /\ Returning(s)' = Returning(s)
  BY DEF Free, Asked, Answered, Loaded, Settled, Returning, Serves
<1>5. Service' = Service /\ Cover' = Cover
  <2>1. Service' = Service
    BY <1>4 DEF Service, Serves
  <2>2. Cover' = Cover
    BY <1>4 DEF Cover, Kept
  <2>3. QED BY <2>1, <2>2
<1>6. Alone' = Alone
  <2>1. Serving' = Serving /\ Op' = Op /\ Taken' = Taken /\ SeenTiles' = SeenTiles /\ Tiles' = Tiles
    BY Fixed DEF Serving, Op, Taken, SeenTiles, Script
  <2>2. Calm' = Calm /\ Order' = Order /\ Turn' = Turn /\ Shot' = Shot
    BY <1>2, <2>1 DEF Calm, Order, Turn, Shot
  <2>3. OnceOnly' = OnceOnly
    BY <1>4, <2>1 DEF OnceOnly
  <2>4. Counts' = Counts
    BY <2>1 DEF Counts
  <2>5. QED BY <2>2, <2>3, <2>4 DEF Alone
<1>7. Computed' = Computed /\ Out' = Out /\ Awake' = Awake
  <2>1. Computed' = Computed
    BY <1>4, Fixed DEF Computed
  <2>2. Out' = Out
    BY <1>4 DEF Out
  <2>3. list \subseteq Slaves
    BY DEF IInv, Flow, TypeInv, SocketsType
  <2>4. Awake' = Awake
    BY <1>4, <2>3 DEF Awake
  <2>5. QED BY <2>1, <2>2, <2>4
<1>8. Told' = Told
  <2>1. Serving' = Serving /\ Op' = Op
    BY DEF Serving, Op, Script
  <2>2. \A s \in Slaves : Tells("app", s)' = Tells("app", s) /\ Tells("net",
  s)' = Tells("net", s)
    BY DEF Tells
  <2>3. QED BY <1>2, <2>1, <2>2 DEF Told
<1>9. QED BY <1>1, <1>2, <1>3, <1>5, <1>6, <1>7, <1>8 DEF IInv, Lone

LEMMA NextIInv ==
    ASSUME IInv, [Next]_vars
    PROVE  IInv'
<1>1. CASE Next
  <2> USE <1>1
  <2>1. TypeInv /\ Mutex /\ Ring /\ Pushing /\ Returned /\ Known /\ Buried /\ Open
    BY DEF IInv, Flow
  <2>2. Flow'
    BY NextFlow DEF IInv
  <2>3. Returned' /\ Known' /\ Buried' /\ Open'
    BY <2>1, Steps, ReturnedStill, KnownStill, BuriedStill, OpenStill
  <2>4. NoShots' = NoShots /\ OneWaker' = OneWaker /\ NoDeaths' = NoDeaths
    BY SetupFixed, Fixed DEF NoShots
  <2>5. NoShots => ~Waking'
    BY <2>1, NoShotsStill DEF IInv
  <2>6. ASSUME OneWaker PROVE Service' /\ Cover'
    <3>1. Quiet
      <4>1. CASE NoDeaths
        BY <2>1, <4>1, AloneIsQuiet DEF IInv, Lone
      <4>2. CASE NoShots
        BY <4>2 DEF IInv, Quiet
      <4>3. QED BY <2>6, <4>1, <4>2 DEF OneWaker, NoShots
    <3>2. Service /\ Cover
      BY <2>6 DEF IInv
    <3>3. QED BY <2>1, <3>1, <3>2, ServiceStill, CoverStill
  <2>7. NoDeaths => Lone'
    BY NextLone
  <2>8. QED BY <2>2, <2>3, <2>4, <2>5, <2>6, <2>7 DEF IInv
<1>2. QED BY <1>1, StutterIInv

(* Whatever the slaves, the size of the buffer, the number of tiles and    *)
(* the requests: one invariant describes the master, its slaves and what   *)
(* is on its way between them.                                             *)
THEOREM InvariantHolds == Spec => []IInv
<1>1. Init => IInv
  BY InitIInv
<1>2. IInv /\ [Next]_vars => IInv'
  BY NextIInv
<1>3. QED BY <1>1, <1>2, PTL DEF Spec

-----------------------------------------------------------------------------

(* What is at a slave is its unit, if it has one.                          *)
LEMMA UnitsAtSlave ==
    ASSUME TypeInv, Service, NEW s \in Slaves
    PROVE  UnitsAt(s) = IF Loaded(s) THEN {work[s]} ELSE {}
<1>1. /\ inbox[s] \in Seq(Units \cup {MESG, COMPLETE}) /\ outbox[s] \in Seq(Units)
      /\ work[s] \in Units \cup {None}
  BY DEF TypeInv, SlavesType, SocketsType
<1>2. /\ Range(inbox[s]) = {inbox[s][i] : i \in 1 .. Len(inbox[s])}
      /\ Range(outbox[s]) = {outbox[s][i] : i \in 1 .. Len(outbox[s])}
  BY <1>1, LenProperties DEF Range
<1>3. \A x \in Broadcasts : x \notin Units
  BY Kinds DEF Broadcasts
<1>4. CASE Asked(s)
  <2>1. work[s] \in Units /\ Range(outbox[s]) = {}
    BY <1>1, <1>2, <1>4 DEF Asked
  <2>2. PICK i \in 1 .. Len(inbox[s]) :
            inbox[s][i] = work[s] /\ \A j \in (1 .. Len(inbox[s])) \ {i} : inbox[s][j] \in Broadcasts
    BY <1>4 DEF Asked, OneUnit
  <2>3. {what \in Range(inbox[s]) : what \in Units} = {work[s]}
    BY <1>2, <1>3, <2>1, <2>2
  <2>4. QED BY <1>4, <2>1, <2>3 DEF UnitsAt, Loaded
<1>5. CASE Answered(s)
  <2>1. work[s] \in Units /\ Range(outbox[s]) = {work[s]}
    BY <1>1, <1>2, <1>5 DEF Answered
  <2>2. {what \in Range(inbox[s]) : what \in Units} = {}
    BY <1>2, <1>3, <1>5 DEF Answered, NoUnit
  <2>3. QED BY <1>5, <2>1, <2>2 DEF UnitsAt, Loaded
<1>6. CASE ~Loaded(s)
  <2>1. Free(s)
    BY <1>6 DEF Service
  <2>2. {what \in Range(inbox[s]) : what \in Units} = {} /\ Range(outbox[s]) = {}
    BY <1>2, <1>3, <2>1 DEF Free, NoUnit
  <2>3. QED BY <1>6, <2>2 DEF UnitsAt
<1>7. QED BY <1>4, <1>5, <1>6 DEF Loaded

(* NoUnitLost, for every number of slaves, of deaths and of requests: the  *)
(* death of a slave, at whatever moment, loses no tile, since its last     *)
(* unit is kept in its socket until it is pushed again.                    *)
THEOREM NothingIsLost == Spec => []NoUnitLost
<1>1. ASSUME IInv PROVE NoUnitLost
  <2>1. SUFFICES ASSUME OneWaker, NEW u \in Range(pushed)
                 PROVE  \/ u \in Range(Waiting) \/ \E s \in Slaves : u \in UnitsAt(s)
                        \/ u = result \/ u \in seen
                        \/ \E s \in Slaves : state[s] = "gone" /\ work[s] = u
    BY DEF NoUnitLost
  <2>2. TypeInv /\ Ring /\ Flow /\ Service /\ Cover
    BY <1>1, <2>1 DEF IInv, Flow
  <2>3. pushed \in Seq(Units) /\ Len(pushed) \in Nat /\ DOMAIN pushed = 1 .. Len(pushed)
    BY <2>2, LenProperties DEF TypeInv, RingType
  <2>4. PICK j \in 1 .. Len(pushed) : u = pushed[j]
    BY <2>3 DEF Range
  <2>5. /\ Waiting = [k \in 1 .. Left |-> pushed[taken + k]]
        /\ Left \in Nat /\ taken + Left = Len(pushed) /\ taken \in Nat
    BY <2>2, WaitingIsLeft
  <2>6. ASSUME NEW k \in taken + 1 .. Len(pushed),
  pushed[k] = u PROVE u \in Range(Waiting)
    <3>1. k - taken \in 1 .. Left /\ taken + (k - taken) = k
      BY <2>3, <2>5
    <3>2. k - taken \in DOMAIN Waiting /\ Waiting[k - taken] = u
      BY <2>5, <2>6, <3>1
    <3>3. QED BY <3>2 DEF Range
  <2>7. CASE j \in taken + 1 .. Len(pushed)
    BY <2>4, <2>6, <2>7
  <2>8. CASE j \in 1 .. taken
    <3>1. Kept(u) \/ \E k \in taken + 1 .. Len(pushed) : pushed[k] = u
      BY <2>2, <2>4, <2>8 DEF Cover
    <3>2. QED BY <2>2, <2>6, <3>1, UnitsAtSlave DEF Kept
  <2>9. QED BY <2>3, <2>4, <2>5, <2>7, <2>8
<1>2. QED BY <1>1, InvariantHolds, PTL

(* OneSlavePerUnit: two threads send work, and still no unit goes to two   *)
(* slaves, none goes out twice, and no slave gets a second one before the  *)
(* first is back.                                                          *)
THEOREM OneSlaveEach == Spec => []OneSlavePerUnit
<1>1. ASSUME IInv PROVE OneSlavePerUnit
  <2>1. SUFFICES ASSUME NoDeaths
                 PROVE  /\ \A u \in Units : computed[u] <= 1
                        /\ \A s \in Slaves : Cardinality(UnitsAt(s)) <= 1
                        /\ \A s, t \in Slaves : s # t => UnitsAt(s) \cap UnitsAt(t) = {}
    BY DEF OneSlavePerUnit
  <2>2. TypeInv /\ Service /\ Computed /\ OnceOnly
    BY <1>1, <2>1 DEF IInv, Flow, Lone, Alone, OneWaker
  <2>3. \A s \in Slaves : UnitsAt(s) = IF Loaded(s) THEN {work[s]} ELSE {}
    BY <2>2, UnitsAtSlave
  <2>4. \A s \in Slaves : Cardinality(UnitsAt(s)) <= 1
    <3> TAKE s \in Slaves
    <3>1. UnitsAt(s) = {} \/ UnitsAt(s) = {work[s]}
      BY <2>3
    <3>2. Cardinality({}) = 0 /\ Cardinality({work[s]}) = 1
      BY FS_EmptySet, FS_Singleton
    <3>3. QED BY <3>1, <3>2
  <2>5. \A s, t \in Slaves : s # t => UnitsAt(s) \cap UnitsAt(t) = {}
    BY <2>2, <2>3 DEF OnceOnly
  <2>6. QED BY <2>2, <2>4, <2>5 DEF Computed
<1>2. QED BY <1>1, InvariantHolds, PTL

(* OutIsOut: sem_out, which app and net post and take without a common     *)
(* lock, counts the slaves that have a unit; at the end nobody is waited   *)
(* for in vain.                                                            *)
THEOREM OutCounted == Spec => []OutIsOut
<1>1. ASSUME IInv PROVE OutIsOut
  <2>1. SUFFICES ASSUME NoDeaths
                 PROVE  sem_out = Cardinality({s \in Slaves : UnitsAt(s) # {}})
    BY DEF OutIsOut
  <2>2. TypeInv /\ Service /\ Out
    BY <1>1, <2>1 DEF IInv, Flow, Lone, OneWaker
  <2>3. {s \in Slaves : UnitsAt(s) # {}} = {s \in Slaves : Loaded(s)}
    BY <2>2, UnitsAtSlave
  <2>4. QED BY <2>2, <2>3 DEF Out
<1>2. QED BY <1>1, InvariantHolds, PTL

(* NobodyForgotten: idle is read and written without a lock, and still no  *)
(* slave stays unmarked with nothing to do.                                *)
THEOREM NoneForgotten == Spec => []NobodyForgotten
<1>1. ASSUME IInv PROVE NobodyForgotten
  <2>1. SUFFICES ASSUME NoDeaths, NEW s \in list
                 PROVE  \/ idle[s] \/ UnitsAt(s) # {}
                        \/ \E th \in Posts : pc[th] \in InSendWork /\ sock[th] = s
    BY DEF NobodyForgotten, Posts
  <2>2. TypeInv /\ Service /\ Awake /\ s \in Slaves
    BY <1>1, <2>1 DEF IInv, Flow, Lone, OneWaker, TypeInv, SocketsType
  <2>3. CASE Loaded(s)
    BY <2>2, <2>3, UnitsAtSlave
  <2>4. CASE idle[s] \/ Returning(s) \/ \E th \in Posts : pc[th] = "taking" /\ sock[th] = s
    BY <2>4 DEF Returning, Serves, Posts, InSendWork
  <2>5. QED BY <2>2, <2>3, <2>4 DEF Awake
<1>2. QED BY <1>1, InvariantHolds, PTL

(* FrameIsWhole: the observer is alerted by a count of the tiles that are  *)
(* back, and when it is, each tile of the image is of the frame it asked   *)
(* for.                                                                    *)
THEOREM FramesAreWhole == Spec => []FrameIsWhole
<1>1. ASSUME IInv PROVE FrameIsWhole
  <2>1. SUFFICES ASSUME NoDeaths, frame_sem > 0, Op = "FRAME"
                 PROVE  \A i \in Tiles : image[i] = request
    BY DEF FrameIsWhole, Op
  <2>2. Counts
    BY <1>1, <2>1 DEF IInv, Lone, Alone
  <2>3. Serving
    BY <2>1, <2>2 DEF Counts
  <2>4. SeenTiles = Tiles
    BY <2>1, <2>2, <2>3 DEF Counts
  <2>5. QED BY <2>1, <2>2, <2>3, <2>4 DEF Counts
<1>2. QED BY <1>1, InvariantHolds, PTL

=============================================================================
