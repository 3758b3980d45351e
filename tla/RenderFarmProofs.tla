-------------------------- MODULE RenderFarmProofs --------------------------
(***************************************************************************)
(* The promises of RenderFarm hold for any number of servers, frames and   *)
(* pixels.  Inv is inductive: a frame is finished on the strength of       *)
(* NoPixelLost, and stays finished because its jobs are neither waiting    *)
(* nor held.                                                               *)
(***************************************************************************)
EXTENDS RenderFarm, TLAPS

Inv == TypeOK /\ NoPixelLost /\ NoDoubleWork /\ FinishedComplete

(* The jobs of the farm change places only as the actions say: type        *)
(* correctness of todo, sr_work, the files and the finished frames.        *)
THEOREM TypeCorrect ==
    ASSUME RenderedAssumption
    PROVE  Spec => []TypeOK
<1>1. Init => TypeOK
  BY DEF RenderedAssumption, Init, TypeOK
<1>2. TypeOK /\ [Next]_vars => TypeOK'
  <2> SUFFICES ASSUME TypeOK, [Next]_vars PROVE TypeOK'
    OBVIOUS
  <2> USE DEF TypeOK
  <2>1. ASSUME NEW s \in Servers, NEW f \in Frames, Assign(s, f) PROVE TypeOK'
    BY <2>1 DEF Assign
  <2>2. ASSUME NEW s \in Servers, File(s) PROVE TypeOK'
    BY <2>2 DEF File
  <2>3. ASSUME NEW s \in Servers, Requeue(s) PROVE TypeOK'
    BY <2>3 DEF Requeue
  <2>4. ASSUME NEW f \in Frames, Finish(f) PROVE TypeOK'
    BY <2>4 DEF Finish
  <2>7. CASE Restart
    BY <2>7 DEF Restart
  <2>5. CASE UNCHANGED vars
    BY <2>5 DEF vars
  <2>6. QED BY <2>1, <2>2, <2>3, <2>4, <2>5, <2>7 DEF Next
<1>3. QED BY <1>1, <1>2, PTL DEF Spec

LEMMA InitInv ==
    ASSUME RenderedAssumption, Init
    PROVE  Inv
BY DEF RenderedAssumption, Init, Inv, TypeOK, NoPixelLost, NoDoubleWork, FinishedComplete, AllHeld

LEMMA AssignInv ==
    ASSUME Inv, TypeOK', NEW s \in Servers, NEW f \in Frames, Assign(s, f)
    PROVE  Inv'
<1> USE DEF Inv, TypeOK
<1>1. PICK P \in SUBSET (todo \cap JobsOf(f)) :
         /\ held' = [held EXCEPT ![s] = P]
         /\ todo' = todo \ P
  BY DEF Assign
<1>2. filed' = filed /\ done' = done /\ held[s] = {}
  BY DEF Assign
<1>3. AllHeld' = AllHeld \cup P
  BY <1>1, <1>2 DEF AllHeld
<1>4. NoPixelLost'
  BY <1>1, <1>2, <1>3 DEF NoPixelLost
<1>5. NoDoubleWork'
  <2>1. todo' \cap AllHeld' = {}
    BY <1>1, <1>3 DEF NoDoubleWork
  <2>2. \A t \in Servers : held[t] \cap P = {}
    BY <1>1 DEF NoDoubleWork, AllHeld
  <2>3. QED BY <1>1, <2>1, <2>2 DEF NoDoubleWork
<1>6. FinishedComplete'
  <2>1. todo' \cup AllHeld' \subseteq todo \cup AllHeld
    BY <1>1, <1>3
  <2>2. QED BY <1>2, <2>1 DEF FinishedComplete
<1>7. QED BY <1>4, <1>5, <1>6

LEMMA FileInv ==
    ASSUME Inv, TypeOK', NEW s \in Servers, File(s)
    PROVE  Inv'
<1> USE DEF Inv, TypeOK
<1>1. /\ held' = [held EXCEPT ![s] = {}]
      /\ filed' = filed \cup held[s]
      /\ todo' = todo /\ done' = done
  BY DEF File
<1>2. AllHeld' \subseteq AllHeld /\ AllHeld \subseteq AllHeld' \cup held[s]
  BY <1>1 DEF AllHeld
<1>3. NoPixelLost'
  BY <1>1, <1>2 DEF NoPixelLost
<1>4. NoDoubleWork'
  BY <1>1, <1>2 DEF NoDoubleWork
<1>5. FinishedComplete'
  BY <1>1, <1>2 DEF FinishedComplete
<1>6. QED BY <1>3, <1>4, <1>5

LEMMA RequeueInv ==
    ASSUME Inv, TypeOK', NEW s \in Servers, Requeue(s)
    PROVE  Inv'
<1> USE DEF Inv, TypeOK
<1>1. /\ held' = [held EXCEPT ![s] = {}]
      /\ todo' = todo \cup held[s]
      /\ done' = done
      /\ filed \subseteq filed'
  BY DEF Requeue
<1>2. /\ AllHeld' \subseteq AllHeld
      /\ AllHeld \subseteq AllHeld' \cup held[s]
      /\ held[s] \subseteq AllHeld
  BY <1>1 DEF AllHeld
<1>3. NoPixelLost'
  BY <1>1, <1>2 DEF NoPixelLost
<1>4. NoDoubleWork'
  <2>1. held[s] \cap AllHeld' = {}
    BY <1>1 DEF NoDoubleWork, AllHeld
  <2>2. todo' \cap AllHeld' = {}
    BY <1>1, <1>2, <2>1 DEF NoDoubleWork
  <2>3. \A t, u \in Servers : t # u => held'[t] \cap held'[u] = {}
    BY <1>1 DEF NoDoubleWork
  <2>4. QED BY <2>2, <2>3 DEF NoDoubleWork
<1>5. FinishedComplete'
  BY <1>1, <1>2 DEF FinishedComplete
<1>6. QED BY <1>3, <1>4, <1>5

LEMMA FinishInv ==
    ASSUME Inv, TypeOK', NEW f \in Frames, Finish(f)
    PROVE  Inv'
<1> USE DEF Inv, TypeOK
<1>1. /\ UNCHANGED <<todo, held, filed>>
      /\ done' = done \cup {f}
      /\ JobsOf(f) \cap (todo \cup AllHeld) = {}
  BY DEF Finish
<1>2. AllHeld' = AllHeld
  BY <1>1 DEF AllHeld
<1>3. JobsOf(f) \subseteq filed
  BY <1>1 DEF NoPixelLost, JobsOf, Jobs
<1>4. FinishedComplete'
  BY <1>1, <1>2, <1>3 DEF FinishedComplete
<1>5. NoPixelLost' /\ NoDoubleWork'
  BY <1>1, <1>2 DEF NoPixelLost, NoDoubleWork
<1>6. QED BY <1>4, <1>5

LEMMA RestartInv ==
    ASSUME Inv, TypeOK', Restart
    PROVE  Inv'
<1> USE DEF Inv, TypeOK
<1>1. /\ held' = [s \in Servers |-> {}]
      /\ todo' = (Jobs \ filed) \ (done \X Pixels)
      /\ filed' = filed /\ done' = done
  BY DEF Restart
<1>2. AllHeld' = {}
  BY <1>1 DEF AllHeld
<1>3. \A f \in done : {f} \X Pixels \subseteq filed
  BY DEF FinishedComplete, JobsOf
<1>4. NoPixelLost'
  BY <1>1, <1>3 DEF NoPixelLost, Jobs
<1>5. NoDoubleWork'
  BY <1>1, <1>2 DEF NoDoubleWork
<1>6. FinishedComplete'
  BY <1>1, <1>2, <1>3 DEF FinishedComplete, JobsOf
<1>7. QED BY <1>4, <1>5, <1>6

(* Whatever servers come, fail and are dropped, in any order: no pixel is  *)
(* lost, none is computed by two servers, and a frame is declared done     *)
(* only when its file has every pixel.                                     *)
THEOREM Safety ==
    ASSUME RenderedAssumption
    PROVE  Spec => [](NoPixelLost /\ NoDoubleWork /\ FinishedComplete)
<1>1. Inv /\ TypeOK' /\ [Next]_vars => Inv'
  <2> SUFFICES ASSUME Inv, TypeOK', [Next]_vars PROVE Inv'
    OBVIOUS
  <2>1. CASE UNCHANGED vars
    BY <2>1 DEF vars, Inv, TypeOK, NoPixelLost, NoDoubleWork,
                FinishedComplete, AllHeld
  <2>2. QED BY <2>1, AssignInv, FileInv, RequeueInv, FinishInv,
            RestartInv DEF Next
<1>2. Inv => NoPixelLost /\ NoDoubleWork /\ FinishedComplete
  BY DEF Inv
<1>3. QED BY InitInv, TypeCorrect, <1>1, <1>2, PTL DEF Spec

=============================================================================
