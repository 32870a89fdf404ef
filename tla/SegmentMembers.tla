---------------------------- MODULE SegmentMembers ----------------------------
(***************************************************************************)
(* What the rest of the application expects of a segment: its members      *)
(* change one user at a time, all of them go when the segment is           *)
(* destroyed, and once what selects them has settled they are the selected *)
(* users.  Polls, events and messages are shown to the members at the      *)
(* time, so nothing is promised about them before that.                    *)
(***************************************************************************)
CONSTANTS
    Users,
    Sources,      \* what selects members: a segment, its rules, the users
    Selected(_)   \* the users a source selects

VARIABLES
    source,
    members

vars == <<source, members>>

Init == source \in Sources /\ members = {}

Change == source' \in Sources /\ UNCHANGED members

Join(u)  == members' = members \cup {u} /\ UNCHANGED source
Leave(u) == members' = members \ {u} /\ UNCHANGED source

Drop == /\ source' \in Sources /\ Selected(source') = {}
        /\ members' = {}

Next == \/ Change \/ Drop
        \/ \E u \in Users : Join(u) \/ Leave(u)

\* Members follow a source that does not change any more.
Settles == <>[][FALSE]_source => <>[](members = Selected(source))

Steps == Init /\ [][Next]_vars
Spec == Steps /\ Settles
=============================================================================
