------------------------------- MODULE MCRemrt -------------------------------
(* The constants of the runs of Remrt: two frames; of the first an earlier *)
(* run has left pixel 1.                                                   *)
EXTENDS Remrt

MCPrior == [f \in 1 .. 2 |-> IF f = 1 THEN {1} ELSE {}]
MCNoPrior == [f \in 1 .. NFrames |-> {}]
MCAllCommands ==
    [cmd : {"stop", "go"}, slot : {0}] \cup [cmd : {"drop", "restart"}, slot : 1 .. NSlots]
MCDropCommands == [cmd : {"stop", "go"}, slot : {0}] \cup [cmd : {"drop"}, slot : 1 .. NSlots]
=============================================================================
