---------------------------- MODULE MCMappedFile ----------------------------
(* Threads are alike, and so are the pieces of memory.                     *)
EXTENDS MappedFile, TLC

CONSTANTS t1, t2, t3, m1, m2, d1, d2, v1, v2

(* Databases are opened by one thread at a time, before there are others   *)
(* or under RT_SEM_MODEL, and unused files are reclaimed when nothing else *)
(* runs.                                                                   *)
MCApart == {{"db_i"}, {"free"}} \cup {{"free", a} : a \in Tags}

(* Nothing but the reclaiming by any thread.                               *)
MCFreeAnytime == {{a, b} : a, b \in {"db_i", "ebm"}} \cup {{a, "free"} : a \in {"db_i", "ebm"}}

Symmetry == Permutations(Threads) \cup Permutations(Maps) \cup Permutations(Dbs)
=============================================================================
