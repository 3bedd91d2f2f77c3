---------------------------- MODULE MCCbHashMap ----------------------------
(* Three slots, four channels: the map fills up and refuses the last one.   *)
(* Streams 0 and 3 hash to slot 0, 1 to slot 1, 5 to slot 2: displacement,  *)
(* wrap-around and several channels on one stream all happen, and stream 0  *)
(* is the id an empty slot holds.                                           *)
EXTENDS CbHashMap

MCStreamIds == {0, 1, 3, 5}
============================================================================
