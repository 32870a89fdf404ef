------------------------------ MODULE MCRewards ------------------------------
(* A user with one session, or with two (two browsers, a double click).     *)
EXTENDS Rewards, TLC

CONSTANTS u1, s1, s2, e1, r1, r2

MCOneSession == s1 :> u1
MCTwoSessions == s1 :> u1 @@ s2 :> u1
=============================================================================
