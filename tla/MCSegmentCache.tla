---------------------------- MODULE MCSegmentCache ----------------------------
(* Users with one of two values, segments with or without a rule.          *)
EXTENDS SegmentCache, TLC

CONSTANTS u1, u2, w1, clock, t1, t2, x, y

MCRuleSets == {{x}, {x, y}}
MCFilters  == {"both_active_and_inactive", "only_active"}
MCProfiles == {[active |-> TRUE, value |-> x], [active |-> FALSE, value |-> y]}
=============================================================================
