---------------------------- MODULE TienetMaster ----------------------------
(***************************************************************************)
(* The master of ADRT, the interactive ray-tracer: it hands the tiles of   *)
(* an image to slaves and gives the observer a frame when all of them are  *)
(* back.                                                                   *)
(*                                                                         *)
(*   tienet_master.c   src/src/adrt/master/   the work buffer, the slaves  *)
(*   dispatcher.c      src/src/adrt/master/   a frame cut into tiles       *)
(*   master.c          src/src/adrt/master/   requests and results         *)
(*   tienet_slave.c    src/src/adrt/slave/    the slaves                   *)
(*                                                                         *)
(* Three threads of the master share the state: "app" (master_networking)  *)
(* serves one request of an observer after the other and pushes work into  *)
(* a circular buffer; "net" (tienet_master_listener) receives results and  *)
(* sends the next unit to the slave they came from; "main" waits for the   *)
(* end and shuts the slaves down.  tienet_master_send_work, which both app *)
(* and net call, runs under send_mut; tienet_master_push reads and writes  *)
(* without it.                                                             *)
(***************************************************************************)
EXTENDS Integers, Sequences, FiniteSets, SequencesExt

CONSTANTS
    Slaves,
    Setups,     \* see SetupType
    None        \* no unit, no thread

ASSUME SlavesAssumption == IsFiniteSet(Slaves)

ASSUME NoneAssumption == None \notin Slaves \cup {"app", "net"} \cup (Nat \X Nat)

(* A buffer size (5 in master.c), tiles per frame (64), the slaves that    *)
(* have connected before the first request, how many may die, and the      *)
(* requests of the observer; a request to shut down follows them.          *)
Requests == {"FRAME", "SHOTLINE", "FRAME_ATTR", "LOAD"}

SetupType ==
    [buffer_size : Nat \ {0}, tile_num : Nat \ {0}, connected : SUBSET Slaves,
     deaths : Nat, script : Seq(Requests)]

ASSUME SetupAssumption == Setups \subseteq SetupType

VARIABLES
    setup,
    request,    \* the request that app serves: an index of the script
    tile,       \* tiles of it that have been pushed
    pc,         \* pc[th]: where thread th is
    sock,       \* sock[th]: the slave it handles in send_work
    back,       \* back[th]: where it goes on after send_work
    todo,       \* todo[th]: the slaves it has yet to look at for idle ones
    result,     \* the unit whose result net has received
    buffer, pos_fill, pos_read,
    sem_fill, sem_read, sem_out, sem_app, sem_shutdown, frame_sem,
    endflag, shutdown_state, halt_networking,
    send_mut,   \* the thread that holds it, or None
    list,       \* socket_list, without the listening socket
    dead,       \* dead_socket_list
    idle, work, \* fields of a slave's socket
    mesg,       \* mesg[s]: a broadcast waits for slave s
    state,      \* state[s]: slave s is "out", "up" or "gone"
    inbox,      \* inbox[s]: what is on its way to slave s
    outbox,     \* outbox[s]: results on their way back
    frame_ind,
    image,      \* image[i]: the request whose tile i the image shows
    seen,       \* the units whose results have been processed
    pushed,     \* the units in the order they entered the buffer
    taken,      \* how many of them have left it
    computed    \* computed[u]: how often slaves have computed unit u

requests == <<setup, request, tile>>
threads == <<sock, back, todo>>
ring == <<buffer, pos_fill, pos_read, sem_fill, sem_read, pushed, taken>>
ends == <<sem_app, sem_shutdown, endflag, shutdown_state, halt_networking>>
sockets == <<list, dead, idle, work, mesg>>
slaves == <<state, inbox, outbox, computed>>
frames == <<frame_sem, frame_ind, image, seen>>

vars == <<requests, pc, threads, result, ring, sem_out, ends, send_mut, sockets,
          slaves, frames>>

Threads == {"app", "net", "main"}
Size == setup.buffer_size
Script == setup.script
Tiles == 1 .. setup.tile_num
Units == {<<r, i>> : r \in DOMAIN Script, i \in Tiles}
MESG == <<"MESG">>
COMPLETE == <<"COMPLETE">>

InSendWork == {"send", "taking", "resting"}

TypeOK ==
    /\ setup \in Setups
    /\ request \in 0 .. Len(Script) + 1 /\ tile \in 0 .. setup.tile_num
    /\ pc["app"] \in {"next", "push", "dead", "wake", "pushed", "reply", "over",
                      "crashed"} \cup InSendWork
    /\ pc["net"] \in {"select", "callback", "wake", "post", "check", "end_check",
                      "done"} \cup InSendWork
    /\ pc["main"] \in {"wait", "shutdown", "wait_out", "finished"}
    /\ \A th \in {"app", "net"} : sock[th] \in Slaves \cup {None}
                               /\ back[th] \in {"wake", "callback"}
                               /\ todo[th] \subseteq Slaves
    /\ result \in Units \cup {None}
    /\ buffer \in [0 .. Size - 1 -> Units \cup {None}]
    /\ pos_fill \in 0 .. Size - 1 /\ pos_read \in 0 .. Size - 1
    /\ sem_fill \in 0 .. Size /\ sem_read \in 0 .. Size
    /\ sem_out \in 0 .. Cardinality(Slaves)
    /\ sem_app \in Nat /\ sem_shutdown \in Nat /\ frame_sem \in 0 .. 2
    /\ endflag \in BOOLEAN /\ shutdown_state \in BOOLEAN
    /\ halt_networking \in BOOLEAN
    /\ send_mut \in {"app", "net", None}
    /\ list \subseteq Slaves /\ dead \in Seq(Slaves)
    /\ idle \in [Slaves -> BOOLEAN] /\ work \in [Slaves -> Units \cup {None}]
    /\ mesg \in [Slaves -> BOOLEAN]
    /\ state \in [Slaves -> {"out", "up", "gone"}]
    /\ \A s \in Slaves : /\ Range(inbox[s]) \subseteq Units \cup {MESG, COMPLETE}
                         /\ Range(outbox[s]) \subseteq Units
    /\ frame_ind \in 0 .. setup.tile_num - 1
    /\ image \in [Tiles -> 0 .. Len(Script)] /\ seen \subseteq Units
    /\ Range(pushed) \subseteq Units /\ taken \in 0 .. Len(pushed)
    /\ computed \in [Units -> Nat]

(* tienet_master_init and the first connections.                           *)
Init ==
    /\ setup \in Setups
    /\ request = 0 /\ tile = 0
    /\ pc = [app |-> "next", net |-> "select", main |-> "wait"]
    /\ sock = [th \in {"app", "net"} |-> None]
    /\ back = [th \in {"app", "net"} |-> "wake"]
    /\ todo = [th \in {"app", "net"} |-> {}]
    /\ result = None
    /\ buffer = [i \in 0 .. Size - 1 |-> None]
    /\ pos_fill = 0 /\ pos_read = 0 /\ sem_fill = Size /\ sem_read = 0
    /\ sem_out = 0 /\ sem_app = 0 /\ sem_shutdown = 0 /\ frame_sem = 0
    /\ endflag = FALSE /\ shutdown_state = FALSE /\ halt_networking = FALSE
    /\ send_mut = None
    /\ list = setup.connected /\ dead = <<>>
    /\ idle = [s \in Slaves |-> TRUE]
    /\ work = [s \in Slaves |-> None]
    /\ mesg = [s \in Slaves |-> FALSE]
    /\ state = [s \in Slaves |-> IF s \in list THEN "up" ELSE "out"]
    /\ inbox = [s \in Slaves |-> <<>>] /\ outbox = [s \in Slaves |-> <<>>]
    /\ frame_ind = 0 /\ image = [i \in Tiles |-> 0] /\ seen = {}
    /\ pushed = <<>> /\ taken = 0 /\ computed = [u \in Units |-> 0]

Alive == pc["app"] # "crashed"

At(th, from, next) == Alive /\ pc[th] = from /\ pc' = [pc EXCEPT ![th] = next]

Sent(s, what) ==    \* a write to a socket whose peer is gone is not noticed
    inbox' = IF state[s] = "up" THEN [inbox EXCEPT ![s] = Append(@, what)] ELSE inbox

-----------------------------------------------------------------------------

(* tienet_master_send_work, by app or net, for the slave sock[th].         *)
(* Under shutdown it returns without releasing the mutex.                  *)
SendRefused(th) ==
    /\ send_mut = None
    /\ shutdown_state
    /\ At(th, "send", back[th])
    /\ send_mut' = th
    /\ sem_shutdown' = IF sem_out = 0 THEN sem_shutdown + 1 ELSE sem_shutdown
    /\ UNCHANGED <<requests, threads, result, ring, sem_out, sem_app, endflag,
                   shutdown_state, halt_networking, sockets, slaves, frames>>

(* A broadcast goes out before any work.                                   *)
SendMessage(th) ==
    /\ send_mut = None
    /\ ~shutdown_state
    /\ At(th, "send", back[th])
    /\ mesg[sock[th]]
    /\ Sent(sock[th], MESG)
    /\ mesg' = [mesg EXCEPT ![sock[th]] = FALSE]
    /\ UNCHANGED <<requests, threads, result, ring, sem_out, ends, send_mut, list,
                   dead, idle, work, state, outbox, computed, frames>>

LookForWork(th) ==
    /\ send_mut = None
    /\ ~shutdown_state
    /\ pc[th] = "send"
    /\ ~mesg[sock[th]]
    /\ send_mut' = th
    /\ \/ sem_read > 0
          /\ At(th, "send", "taking")
          /\ idle' = [idle EXCEPT ![sock[th]] = FALSE]
          /\ sem_read' = sem_read - 1
       \/ sem_read = 0
          /\ At(th, "send", "resting")
          /\ UNCHANGED <<idle, sem_read>>
    /\ UNCHANGED <<requests, threads, result, buffer, pos_fill, pos_read, sem_fill,
                   pushed, taken, sem_out, ends, list, dead, work, mesg, slaves,
                   frames>>

BugTakeKeepsPlace(th) ==    \* pos_read is not moved on
    /\ At(th, "taking", back[th])
    /\ sem_out' = sem_out + 1
    /\ Sent(sock[th], buffer[pos_read])
    /\ work' = [work EXCEPT ![sock[th]] = buffer[pos_read]]
    /\ sem_fill' = sem_fill + 1
    /\ taken' = taken + 1
    /\ send_mut' = None
    /\ UNCHANGED <<requests, threads, result, buffer, pos_fill, pos_read, sem_read,
                   pushed, ends, list, dead, idle, mesg, state, outbox, computed,
                   frames>>

TakeWork(th) ==
    /\ At(th, "taking", back[th])
    /\ sem_out' = sem_out + 1
    /\ Sent(sock[th], buffer[pos_read])
    /\ work' = [work EXCEPT ![sock[th]] = buffer[pos_read]]
    /\ pos_read' = (pos_read + 1) % Size
    /\ sem_fill' = sem_fill + 1
    /\ taken' = taken + 1
    /\ send_mut' = None
    /\ UNCHANGED <<requests, threads, result, buffer, pos_fill, sem_read, pushed,
                   ends, list, dead, idle, mesg, state, outbox, computed, frames>>

BugIdleUnmarked(th) ==
    /\ At(th, "resting", back[th])
    /\ send_mut' = None
    /\ UNCHANGED <<requests, threads, result, ring, sem_out, ends, sockets, slaves,
                   frames>>

(* "no work was available, socket is entering an active idle state."       *)
EnterIdle(th) ==
    /\ At(th, "resting", back[th])
    /\ idle' = [idle EXCEPT ![sock[th]] = TRUE]
    /\ send_mut' = None
    /\ UNCHANGED <<requests, threads, result, ring, sem_out, ends, list, dead, work,
                   mesg, slaves, frames>>

send_work(th) ==
    SendRefused(th) \/ SendMessage(th) \/ LookForWork(th) \/ TakeWork(th)
    \/ EnterIdle(th)

(* "Tell any idle slaves to get back to work."  No mutex protects idle.    *)
WakeIdle(th, next) ==
    \/ /\ todo[th] = {}
       /\ At(th, "wake", next)
       /\ UNCHANGED <<requests, threads, result, ring, sem_out, ends, send_mut,
                      sockets, slaves, frames>>
    \/ \E s \in todo[th] :
       /\ IF idle[s]
          THEN /\ At(th, "wake", "send")
               /\ sock' = [sock EXCEPT ![th] = s]
               /\ back' = [back EXCEPT ![th] = "wake"]
          ELSE At(th, "wake", "wake") /\ UNCHANGED <<sock, back>>
       /\ todo' = [todo EXCEPT ![th] = @ \ {s}]
       /\ UNCHANGED <<requests, result, ring, sem_out, ends, send_mut, sockets,
                      slaves, frames>>

(* tienet_master_broadcast up to its loop over the idle slaves.            *)
Post(th) ==
    /\ mesg' = [s \in Slaves |-> mesg[s] \/ s \in list]
    /\ todo' = [todo EXCEPT ![th] = list]

-----------------------------------------------------------------------------

(* master_networking: the next request of the observer.                    *)
NextRequest ==
    /\ request < Len(Script)
    /\ request' = request + 1
    /\ tile' = 0
    /\ LET op == Script[request + 1]
       IN  \/ /\ op \in {"FRAME", "SHOTLINE"}
              /\ At("app", "next", "push")
              /\ endflag' = (endflag /\ (op = "FRAME" => sem_app > 0))
              /\ UNCHANGED <<todo, mesg>>
           \/ /\ op \in {"FRAME_ATTR", "LOAD"}
              /\ At("app", "next", "wake")
              /\ Post("app")
              /\ UNCHANGED endflag
    /\ UNCHANGED <<setup, sock, back, result, ring, sem_out, sem_app, sem_shutdown,
                   shutdown_state, halt_networking, send_mut, list, dead, idle, work,
                   slaves, frames>>

NoMoreRequests ==
    /\ request = Len(Script)
    /\ At("app", "next", "over")
    /\ UNCHANGED <<requests, threads, result, ring, sem_out, ends, send_mut, sockets,
                   slaves, frames>>

(* A unit goes into the circular buffer, once there is room.               *)
Fill(u) ==
    /\ sem_fill > 0
    /\ sem_fill' = sem_fill - 1
    /\ buffer' = [buffer EXCEPT ![pos_fill] = u]
    /\ pos_fill' = (pos_fill + 1) % Size
    /\ sem_read' = sem_read + 1
    /\ pushed' = Append(pushed, u)
    /\ UNCHANGED <<pos_read, taken>>

Push ==
    /\ At("app", "push", "dead")
    /\ Fill(<<request, tile + 1>>)
    /\ tile' = tile + 1
    /\ UNCHANGED <<setup, request, threads, result, sem_out, ends, send_mut, sockets,
                   slaves, frames>>

BugRequeueForgets ==        \* taken off the list, not pushed
    /\ dead # <<>>
    /\ work[Head(dead)] # None
    /\ At("app", "dead", "dead")
    /\ dead' = Tail(dead)
    /\ work' = [work EXCEPT ![Head(dead)] = None]
    /\ UNCHANGED <<requests, threads, result, ring, sem_out, ends, send_mut, list,
                   idle, mesg, slaves, frames>>

(* "Process items in tienet_master_DeadSocketList": the last unit of a     *)
(* dead slave is pushed again.  A slave that never had one brings the      *)
(* master down, which copies from a null pointer.                          *)
Requeue ==
    /\ dead # <<>>
    /\ LET s == Head(dead)
       IN  IF work[s] = None
           THEN /\ sem_fill > 0
                /\ At("app", "dead", "crashed")
                /\ UNCHANGED <<ring, dead, work>>
           ELSE /\ At("app", "dead", "dead")
                /\ Fill(work[s])
                /\ dead' = Tail(dead)
                /\ work' = [work EXCEPT ![s] = None]
    /\ UNCHANGED <<requests, threads, result, sem_out, ends, send_mut, list, idle,
                   mesg, slaves, frames>>

BugNobodyWoken ==
    /\ dead = <<>>
    /\ At("app", "dead", "wake")
    /\ UNCHANGED <<requests, threads, result, ring, sem_out, ends, send_mut, sockets,
                   slaves, frames>>

NoneDead ==
    /\ dead = <<>>
    /\ At("app", "dead", "wake")
    /\ todo' = [todo EXCEPT !["app"] = list]
    /\ UNCHANGED <<requests, sock, back, result, ring, sem_out, ends, send_mut,
                   sockets, slaves, frames>>

AfterWake ==
    CASE Script[request] = "FRAME" -> IF tile < setup.tile_num THEN "push" ELSE "pushed"
      [] Script[request] = "FRAME_ATTR" -> "pushed"
      [] Script[request] = "SHOTLINE" -> "reply"
      [] Script[request] = "LOAD" -> "next"

(* tienet_master_end after a frame's tiles; after new frame attributes the *)
(* request itself posts frame_sem.                                         *)
RequestSent ==
    /\ At("app", "pushed", "reply")
    /\ IF Script[request] = "FRAME"
       THEN endflag' = TRUE /\ UNCHANGED frame_sem
       ELSE frame_sem' = frame_sem + 1 /\ UNCHANGED endflag
    /\ UNCHANGED <<requests, threads, result, ring, sem_out, sem_app, sem_shutdown,
                   shutdown_state, halt_networking, send_mut, sockets, slaves,
                   frame_ind, image, seen>>

(* "Wait for the result to come back", and send it to the observer.        *)
Reply ==
    /\ frame_sem > 0
    /\ At("app", "reply", "next")
    /\ frame_sem' = frame_sem - 1
    /\ UNCHANGED <<requests, threads, result, ring, sem_out, ends, send_mut, sockets,
                   slaves, frame_ind, image, seen>>

app ==
    \/ NextRequest \/ NoMoreRequests \/ Push \/ Requeue \/ NoneDead
    \/ (request > 0 /\ WakeIdle("app", AfterWake))
    \/ RequestSent \/ Reply \/ send_work("app")

-----------------------------------------------------------------------------

BugReceiveUncounted(s) ==
    /\ s \in list /\ outbox[s] # <<>>
    /\ ~halt_networking
    /\ sem_out > 0
    /\ At("net", "select", "send")
    /\ result' = Head(outbox[s])
    /\ outbox' = [outbox EXCEPT ![s] = Tail(@)]
    /\ sock' = [sock EXCEPT !["net"] = s]
    /\ back' = [back EXCEPT !["net"] = "callback"]
    /\ UNCHANGED <<requests, todo, ring, sem_out, ends, send_mut, sockets, state,
                   inbox, computed, frames>>

(* tienet_master_result: a result has come; its slave gets the next unit   *)
(* before the result is processed.                                         *)
Receive(s) ==
    /\ s \in list /\ outbox[s] # <<>>
    /\ ~halt_networking
    /\ sem_out > 0
    /\ At("net", "select", "send")
    /\ sem_out' = sem_out - 1
    /\ result' = Head(outbox[s])
    /\ outbox' = [outbox EXCEPT ![s] = Tail(@)]
    /\ sock' = [sock EXCEPT !["net"] = s]
    /\ back' = [back EXCEPT !["net"] = "callback"]
    /\ UNCHANGED <<requests, todo, ring, ends, send_mut, sockets, state, inbox,
                   computed, frames>>

(* A read fails: the socket moves to the dead list.  A thread that stands  *)
(* at it goes on along the dead list, and ends its loop.                   *)
Bury(s) ==
    /\ s \in list /\ state[s] = "gone" /\ outbox[s] = <<>>
    /\ ~halt_networking
    /\ At("net", "select", "select")
    /\ list' = list \ {s}
    /\ dead' = <<s>> \o dead
    /\ todo' = [todo EXCEPT !["app"] =
                  IF pc["app"] \in InSendWork /\ sock["app"] = s THEN {} ELSE @ \ {s}]
    /\ UNCHANGED <<requests, sock, back, result, ring, sem_out, ends, send_mut, idle,
                   work, mesg, slaves, frames>>

(* A slave connects, with the right version key.  It is not sent any work. *)
Accept(s) ==
    /\ state[s] = "out"
    /\ ~halt_networking
    /\ At("net", "select", "select")
    /\ state' = [state EXCEPT ![s] = "up"]
    /\ list' = list \cup {s}
    /\ UNCHANGED <<requests, threads, result, ring, sem_out, ends, send_mut, dead,
                   idle, work, mesg, inbox, outbox, computed, frames>>

Updated == IF frame_sem = 0 THEN 1 ELSE frame_sem

BugAlwaysComplete(i) == TRUE

Complete(i) == i = setup.tile_num

(* master_result: a tile is copied into the image, and when it is the last *)
(* one the observer is alerted; what a shot line has hit is broadcast.     *)
Callback ==
    /\ result # None
    /\ \/ /\ Script[result[1]] = "FRAME"
          /\ At("net", "callback", "check")
          /\ image' = [image EXCEPT ![result[2]] = result[1]]
          /\ IF Complete(frame_ind + 1)
             THEN frame_ind' = 0 /\ frame_sem' = Updated
             ELSE frame_ind' = (frame_ind + 1) % setup.tile_num /\ UNCHANGED frame_sem
          /\ UNCHANGED <<todo, mesg>>
       \/ /\ Script[result[1]] = "SHOTLINE"
          /\ At("net", "callback", "wake")
          /\ Post("net")
          /\ UNCHANGED <<frame_sem, frame_ind, image>>
    /\ seen' = seen \cup {result}
    /\ result' = None
    /\ UNCHANGED <<requests, sock, back, ring, sem_out, ends, send_mut, list, dead,
                   idle, work, slaves>>

PostFrame ==
    /\ At("net", "post", "check")
    /\ frame_sem' = Updated
    /\ UNCHANGED <<requests, threads, result, ring, sem_out, ends, send_mut, sockets,
                   slaves, frame_ind, image, seen>>

(* "If there's no units still out, the application has indicated it's done *)
(* generating work, and there's no available work left in the buffer,      *)
(* we're done."  The three are read one after the other.                   *)
NoneOut ==
    /\ At("net", "check", IF sem_out = 0 THEN "end_check" ELSE "select")
    /\ UNCHANGED <<requests, threads, result, ring, sem_out, ends, send_mut, sockets,
                   slaves, frames>>

NothingLeft ==
    /\ At("net", "end_check", "select")
    /\ IF endflag /\ sem_read = 0
       THEN sem_shutdown' = sem_shutdown + 1 /\ sem_app' = sem_app + 1
       ELSE UNCHANGED <<sem_shutdown, sem_app>>
    /\ UNCHANGED <<requests, threads, result, ring, sem_out, endflag, shutdown_state,
                   halt_networking, send_mut, sockets, slaves, frames>>

Halt ==
    /\ halt_networking
    /\ At("net", "select", "done")
    /\ UNCHANGED <<requests, threads, result, ring, sem_out, ends, send_mut, sockets,
                   slaves, frames>>

listener ==
    \/ \E s \in Slaves : Receive(s) \/ Bury(s)
    \/ send_work("net") \/ Callback \/ WakeIdle("net", "post") \/ PostFrame
    \/ NoneOut \/ NothingLeft \/ Halt

-----------------------------------------------------------------------------

(* tienet_master_wait, after the request to shut down.                     *)
Wait ==
    /\ pc["app"] = "over"
    /\ sem_app > 0
    /\ At("main", "wait", "shutdown")
    /\ sem_app' = sem_app - 1
    /\ UNCHANGED <<requests, threads, result, ring, sem_out, sem_shutdown, endflag,
                   shutdown_state, halt_networking, send_mut, sockets, slaves, frames>>

Shutdown ==
    /\ At("main", "shutdown", "wait_out")
    /\ shutdown_state' = TRUE
    /\ UNCHANGED <<requests, threads, result, ring, sem_out, sem_app, sem_shutdown,
                   endflag, halt_networking, send_mut, sockets, slaves, frames>>

Close ==
    /\ sem_shutdown > 0
    /\ At("main", "wait_out", "finished")
    /\ sem_shutdown' = sem_shutdown - 1
    /\ halt_networking' = TRUE
    /\ inbox' = [s \in Slaves |-> IF s \in list /\ state[s] = "up"
                                  THEN Append(inbox[s], COMPLETE) ELSE inbox[s]]
    /\ UNCHANGED <<requests, threads, result, ring, sem_out, sem_app, endflag,
                   shutdown_state, send_mut, sockets, state, outbox, computed, frames>>

main == Wait \/ Shutdown \/ Close

(* tienet_slave_worker: a broadcast has a result of length zero, which is  *)
(* not sent.                                                               *)
Slave(s) ==
    /\ state[s] = "up" /\ inbox[s] # <<>>
    /\ inbox' = [inbox EXCEPT ![s] = Tail(@)]
    /\ LET what == Head(inbox[s])
       IN  \/ what = MESG /\ UNCHANGED <<state, outbox, computed>>
           \/ what = COMPLETE
              /\ state' = [state EXCEPT ![s] = "gone"]
              /\ UNCHANGED <<outbox, computed>>
           \/ what \in Units
              /\ outbox' = [outbox EXCEPT ![s] = Append(@, what)]
              /\ computed' = [computed EXCEPT ![what] = @ + 1]
              /\ UNCHANGED state
    /\ UNCHANGED <<requests, pc, threads, result, ring, sem_out, ends, send_mut,
                   sockets, frames>>

(* A slave, or its host, goes down; a result it has sent may be lost.      *)
Die(s) ==
    /\ state[s] = "up"
    /\ Cardinality({u \in Slaves : state[u] = "gone"}) < setup.deaths
    /\ ~halt_networking
    /\ state' = [state EXCEPT ![s] = "gone"]
    /\ inbox' = [inbox EXCEPT ![s] = <<>>]
    /\ outbox' \in {outbox, [outbox EXCEPT ![s] = <<>>]}
    /\ UNCHANGED <<requests, pc, threads, result, ring, sem_out, ends, send_mut,
                   sockets, computed, frames>>

Next ==
    \/ app \/ listener \/ main
    \/ \E s \in Slaves : Accept(s) \/ Slave(s) \/ Die(s)

Spec == Init /\ [][Next]_vars

(* The threads are scheduled, and a slave that does not die does its work. *)
FairSpec ==
    /\ Spec
    /\ WF_vars(app) /\ WF_vars(listener) /\ WF_vars(main)
    /\ \A s \in Slaves : WF_vars(Slave(s))

-----------------------------------------------------------------------------

Held == {th \in {"app", "net"} : pc[th] = "taking"}

NoDeaths == setup.deaths = 0

(* The units in the buffer that no thread has taken, oldest first.         *)
Waiting ==
    [k \in 1 .. sem_read + Cardinality(Held) |-> buffer[(pos_read + k - 1) % Size]]

(* The buffer is a queue: it holds what was pushed and not taken, in that  *)
(* order, and the semaphores count its full and its empty places, whatever *)
(* push and send_work do at the same time (tienet_master.c:226, 635).      *)
BufferIsQueue ==
    Alive =>
        /\ sem_fill + Len(Waiting) = Size
        /\ Waiting = SubSeq(pushed, taken + 1, Len(pushed))

UnitsAt(s) == {what \in Range(inbox[s]) \cup Range(outbox[s]) : what \in Units}

(* Only push wakes idle slaves, and not a shot line's result as well.      *)
OneWaker == NoDeaths \/ \A r \in DOMAIN Script : Script[r] # "SHOTLINE"

(* Every unit that was pushed is in the buffer, with a slave or on its way *)
(* from one, being processed or has been, or it is the last unit of a      *)
(* slave that has gone, which is or will be on the dead list: the death of *)
(* a slave loses no tile (tienet_master.c:241).  Unless two threads wake   *)
(* slaves: both may stand at the same idle one, and the second marks it    *)
(* idle when the first has just sent it a unit; the next unit replaces     *)
(* that one in its socket's work.                                          *)
NoUnitLost ==
    (Alive /\ OneWaker) =>
        \A u \in Range(pushed) :
            \/ u \in Range(Waiting)
            \/ \E s \in Slaves : u \in UnitsAt(s)
            \/ u = result
            \/ u \in seen
            \/ \E s \in Slaves : state[s] = "gone" /\ work[s] = u

(* As long as no slave dies, no unit is computed twice, and a slave has at *)
(* most one at a time, although two threads send work (comment at          *)
(* tienet_master.c:595).                                                   *)
OneSlavePerUnit ==
    NoDeaths => /\ \A u \in Units : computed[u] <= 1
                /\ \A s \in Slaves : Cardinality(UnitsAt(s)) <= 1
                /\ \A s, t \in Slaves : s # t => UnitsAt(s) \cap UnitsAt(t) = {}

(* As long as no slave dies, sem_out counts the units that are out, but    *)
(* for the one net has just received: nobody is waited for in vain.        *)
OutIsOut ==
    NoDeaths => sem_out = Cardinality({s \in Slaves : UnitsAt(s) # {}})

(* A slave that is not marked idle has a unit, is about to get one or has  *)
(* just returned one: push, which only wakes idle slaves, forgets none.    *)
NobodyForgotten ==
    NoDeaths =>
        \A s \in list :
            \/ idle[s]
            \/ UnitsAt(s) # {}
            \/ \E th \in {"app", "net"} : pc[th] \in InSendWork /\ sock[th] = s

(* The observer gets a frame only when the image shows every tile of it.   *)
FrameIsWhole ==
    (NoDeaths /\ frame_sem > 0 /\ request > 0 /\ Script[request] = "FRAME") =>
        \A i \in Tiles : image[i] = request

(* With slaves connected beforehand, two or more, that stay, every request *)
(* is answered: no unit waits in the buffer while all slaves idle, no      *)
(* thread holds a mutex or waits for a place for ever.                     *)
Served ==
    (NoDeaths /\ Cardinality(setup.connected) >= 2) ~> (pc["app"] = "over")

(* "Wait for the tienet master work buffer to empty and for all the        *)
(* results to come back" (master.c:149): when they have, the wait ends and *)
(* the slaves are shut down.                                               *)
WaitEnds ==
    (pc["app"] = "over" /\ NoDeaths /\ \E r \in DOMAIN Script : Script[r] = "FRAME")
        ~> (pc["main"] = "finished")
=============================================================================
