----------------------------- MODULE RenderFarm -----------------------------
(***************************************************************************)
(* What remrt, the dispatcher of the network-distributed ray-tracer,       *)
(* promises about the pixels of an animation: src/src/remrt/remrt.c with   *)
(* the connections, the messages and the span lists taken away.            *)
(*                                                                         *)
(* A job is one pixel of one frame.  A job is waiting in a frame's fr_todo *)
(* list, held by a server in its sr_work list, or filed in the frame's     *)
(* output file.  Remrt.tla, the detailed model, implements this module.    *)
(***************************************************************************)
EXTENDS Naturals, FiniteSets

CONSTANTS
    Servers,    \* slots of the table servers[]
    Frames,     \* frames of the script
    Pixels,     \* pixel numbers of a frame
    Rendered    \* jobs an earlier, aborted run has left in the output files

Jobs == Frames \X Pixels

(* What the theorems assume of what an earlier run has left.               *)
RenderedAssumption == Rendered \subseteq Jobs

VARIABLES
    todo,       \* jobs waiting to be assigned
    held,       \* held[s]: the assignment of server s, empty when it is idle
    filed,      \* jobs whose pixel is in the output file
    done        \* frames declared done, their file write-protected

vars == <<todo, held, filed, done>>

AllHeld == UNION {held[s] : s \in Servers}

JobsOf(f) == {f} \X Pixels

TypeOK ==
    /\ todo \subseteq Jobs
    /\ held \in [Servers -> SUBSET Jobs]
    /\ filed \subseteq Jobs
    /\ done \subseteq Frames

(* The frame list has been read and every output file scanned for the      *)
(* pixels it already has.                                                  *)
Init ==
    /\ filed = Rendered
    /\ todo = Jobs \ Rendered
    /\ held = [s \in Servers |-> {}]
    /\ done = {}

-----------------------------------------------------------------------------

(* An idle server is given jobs of one frame.                              *)
Assign(s, f) ==
    /\ held[s] = {}
    /\ \E P \in SUBSET (todo \cap JobsOf(f)) :
          /\ P # {}
          /\ held' = [held EXCEPT ![s] = P]
          /\ todo' = todo \ P
    /\ UNCHANGED <<filed, done>>

(* The pixels of the whole assignment arrive and are written.              *)
File(s) ==
    /\ held[s] # {}
    /\ filed' = filed \cup held[s]
    /\ held' = [held EXCEPT ![s] = {}]
    /\ UNCHANGED <<todo, done>>

(* The server is dropped and its whole assignment becomes waiting again.   *)
(* When a failed write is the reason, a part of it is in the file already. *)
Requeue(s) ==
    /\ held[s] # {}
    /\ todo' = todo \cup held[s]
    /\ held' = [held EXCEPT ![s] = {}]
    /\ \E part \in SUBSET held[s] : filed' = filed \cup part
    /\ UNCHANGED done

(* No job of the frame waits or is held: its file is complete.             *)
Finish(f) ==
    /\ f \notin done
    /\ JobsOf(f) \cap todo = {}
    /\ JobsOf(f) \cap AllHeld = {}
    /\ done' = done \cup {f}
    /\ UNCHANGED <<todo, held, filed>>

(* The dispatcher's machine fails and remrt is started again: assignments  *)
(* are forgotten, and what is black in the files not write-protected waits. *)
Restart ==
    /\ held' = [s \in Servers |-> {}]
    /\ todo' = (Jobs \ filed) \ (done \X Pixels)
    /\ UNCHANGED <<filed, done>>

Next ==
    \/ \E s \in Servers, f \in Frames : Assign(s, f)
    \/ \E s \in Servers : File(s) \/ Requeue(s)
    \/ \E f \in Frames : Finish(f)
    \/ Restart

Spec == Init /\ [][Next]_vars

-----------------------------------------------------------------------------

(* No pixel is ever lost: whatever servers fail, each pixel that is not in *)
(* its file is waiting or assigned (drop_server's requeue, remrt.c).       *)
NoPixelLost == Jobs \subseteq todo \cup AllHeld \cup filed

(* No pixel is computed twice at the same time: an assigned pixel is not   *)
(* waiting, and no other server has it (task_server takes the span off the *)
(* frame's list before it sends it).                                       *)
NoDoubleWork ==
    /\ todo \cap AllHeld = {}
    /\ \A s, t \in Servers : s # t => held[s] \cap held[t] = {}

(* A frame declared done has every pixel in its file, and no pixel of it   *)
(* is computed again (frame_is_done write-protects the file).              *)
FinishedComplete ==
    \A f \in done :
        /\ JobsOf(f) \subseteq filed
        /\ JobsOf(f) \cap (todo \cup AllHeld) = {}

=============================================================================
