--------------------------- MODULE MCCampaignVotes ---------------------------
(* Two sessions of one user, who did not write the answer.                 *)
EXTENDS CampaignVotes, TLC

CONSTANTS u1, author, s1, s2

MCSessionUser == [s \in Sessions |-> u1]
SessionSymmetry == Permutations({s1, s2})
=============================================================================
