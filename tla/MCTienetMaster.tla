--------------------------- MODULE MCTienetMaster ---------------------------
(* The requests, slaves and deaths TienetMaster is checked for.            *)
EXTENDS TienetMaster

CONSTANTS s1, s2

LOCAL S(buffer_size, tile_num, connected, deaths, script) ==
    [buffer_size |-> buffer_size, tile_num |-> tile_num, connected |-> connected,
     deaths |-> deaths, script |-> script]

(* More tiles than the buffer has places and than there are slaves.        *)
AllSetups ==
    { S(2, 3, {s1, s2}, 0, <<"LOAD", "FRAME", "SHOTLINE", "FRAME">>),
      S(1, 3, {s1, s2}, 0, <<"FRAME", "FRAME_ATTR">>),
      S(2, 3, {s1}, 0, <<"FRAME", "SHOTLINE">>),
      S(1, 3, {s1, s2}, 1, <<"FRAME">>),
      S(1, 2, {s1}, 1, <<"FRAME", "FRAME">>) }

OneFrame == { S(2, 2, {s1, s2}, 0, <<"FRAME">>) }
=============================================================================
