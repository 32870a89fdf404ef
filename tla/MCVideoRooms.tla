---------------------------- MODULE MCVideoRooms ----------------------------
(* Two tabs, both of managers.                                             *)
EXTENDS VideoRooms, TLC

CONSTANTS t1, t2
=============================================================================
