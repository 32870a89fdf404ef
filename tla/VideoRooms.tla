------------------------------ MODULE VideoRooms ------------------------------
(***************************************************************************)
(* The video meeting of an event: the page start_video.html.erb with the   *)
(* Room, RoomV2 and Transport of twilio_video.js in each tab, the actions  *)
(* of initiatives_controller.rb that keep the record a meeting is billed   *)
(* from, and Twilio, which is outside the repository.                      *)
(*                                                                         *)
(* Whoever joins has the room registered; whoever leaves and sees nobody   *)
(* else has it updated with the participants Twilio lists.  What a tab     *)
(* sees is what Twilio has told it so far.                                 *)
(***************************************************************************)
EXTENDS Integers, Sequences, FiniteSets

CONSTANTS
    Tabs,         \* tabs that open the page; each is a participant of its own
    Managers,     \* those of users who may update events of the group
    MaxRooms,     \* bound: rooms Twilio opens for the event
    MaxFails,     \* bound: tabs that are killed and requests that are lost
    MaxEnds,      \* bound: times a manager ends the meeting
    None

ASSUME TabAssumption == IsFiniteSet(Tabs) /\ Managers \subseteq Tabs
ASSUME NoneAssumption == None \notin Tabs /\ \A present \in SUBSET Tabs : None # present
ASSUME BoundAssumption == MaxRooms \in Nat /\ MaxFails \in Nat /\ MaxEnds \in Nat

VARIABLES
    page,         \* of each tab
    seat,         \* of each tab, as Twilio has it
    room,         \* the room Twilio gave it, or 0
    opened,       \* how many rooms Twilio has opened
    live,         \* whether the last of them is in progress
    accept,       \* the answer to the invitation: who is in the room
    inbox,        \* messages on the way to a tab
    held,         \* updates it received while connecting
    sees,         \* its room.participants
    parted,       \* its _disconnectedParticipantSids
    register,     \* its request register_room_in_db
    report,       \* its request update_registered_room_in_db
    fetched,      \* the status of the room that request has read
    ending,       \* those its request end_virtual_meeting has yet to disconnect
    rows,         \* rows of video_rooms with the sid of a room
    status,       \* the status in the first of them
    recorded,     \* rows of video_participants for a tab
    ends, fails,
    untidy,       \* history: something crossed the leaving of somebody
    rejoined      \* history: somebody joined when everybody had left

twilio   == <<seat, room, opened, live>>
messages == <<accept, inbox>>
view     == <<held, sees, parted>>
requests == <<register, report, fetched, ending>>
tables   == <<rows, status, recorded>>
limits   == <<ends, fails>>
history  == <<untidy, rejoined>>
vars == <<page, twilio, messages, view, requests, tables, limits, history>>

Rooms == 1..MaxRooms
Updates == [who: Tabs, state: {"connected", "disconnected"}]
End == [who |-> None, state |-> "disconnected"]

TypeOK ==
    /\ page \in [Tabs -> {"closed", "connecting", "connected", "disconnected", "gone"}]
    /\ seat \in [Tabs -> {"out", "in", "left"}]
    /\ room \in [Tabs -> 0..MaxRooms]
    /\ opened \in 0..MaxRooms /\ live \in BOOLEAN
    /\ accept \in [Tabs -> (SUBSET Tabs) \cup {None}]
    /\ inbox \in [Tabs -> Seq(Updates \cup {End})]
    /\ held \in [Tabs -> Seq(Updates)]
    /\ sees \in [Tabs -> SUBSET Tabs] /\ parted \in [Tabs -> SUBSET Tabs]
    /\ register \in [Tabs -> {"none", "sent", "valid", "done", "refused", "lost"}]
    /\ report \in [Tabs -> {"none", "sent", "found", "created", "done", "failed", "lost"}]
    /\ fetched \in [Tabs -> {None, "in-progress", "completed"}]
    /\ ending \in [Tabs -> SUBSET Tabs]
    /\ rows \in [Rooms -> 0..Cardinality(Managers)]
    /\ status \in [Rooms -> {None, "connected", "in-progress", "completed"}]
    /\ recorded \in [Tabs -> Nat]
    /\ ends \in 0..MaxEnds /\ fails \in 0..MaxFails
    /\ untidy \in [Rooms -> BOOLEAN] /\ rejoined \in [Rooms -> BOOLEAN]

Init ==
    /\ page = [t \in Tabs |-> "closed"]
    /\ seat = [t \in Tabs |-> "out"]
    /\ room = [t \in Tabs |-> 0]
    /\ opened = 0 /\ live = FALSE
    /\ accept = [t \in Tabs |-> None]
    /\ inbox = [t \in Tabs |-> <<>>] /\ held = [t \in Tabs |-> <<>>]
    /\ sees = [t \in Tabs |-> {}] /\ parted = [t \in Tabs |-> {}]
    /\ register = [t \in Tabs |-> "none"] /\ report = [t \in Tabs |-> "none"]
    /\ fetched = [t \in Tabs |-> None]
    /\ ending = [t \in Tabs |-> {}]
    /\ rows = [r \in Rooms |-> 0] /\ status = [r \in Rooms |-> None]
    /\ recorded = [t \in Tabs |-> 0]
    /\ ends = 0 /\ fails = 0
    /\ untidy = [r \in Rooms |-> FALSE] /\ rejoined = [r \in Rooms |-> FALSE]

InRoom(r)    == {t \in Tabs : seat[t] = "in" /\ room[t] = r}
Finished(t)  == page[t] \in {"disconnected", "gone"}
WasIn(r)     == {t \in Tabs : room[t] = r}

-----------------------------------------------------------------------------
(* Twilio.                                                                 *)

\* Everybody else in room r who still listens is told of the state of tab t.
Tell(r, t, state, to) ==
    [u \in Tabs |-> IF u \in InRoom(r) \ {t} /\ ~Finished(u)
                    THEN Append(to[u], [who |-> t, state |-> state]) ELSE to[u]]

\* A tab that connects is let into the room in progress, or into a new one.
Admit(t) ==
    /\ page[t] = "connecting" /\ seat[t] = "out"
    /\ live \/ opened < MaxRooms
    /\ LET r == IF live THEN opened ELSE opened + 1 IN
          /\ opened' = r /\ live' = TRUE
          /\ seat' = [seat EXCEPT ![t] = "in"]
          /\ room' = [room EXCEPT ![t] = r]
          /\ accept' = [accept EXCEPT ![t] = InRoom(r)]
          /\ inbox' = Tell(r, t, "connected", inbox)
          /\ rejoined' = [rejoined EXCEPT ![r] =
                            @ \/ (WasIn(r) # {} /\ \A u \in InRoom(r) : Finished(u))]
    /\ UNCHANGED <<page, view, requests, tables, limits, untidy>>

\* It learns that a tab is gone.
Part(t) ==
    /\ Finished(t) /\ seat[t] = "in"
    /\ seat' = [seat EXCEPT ![t] = "left"]
    /\ inbox' = Tell(room[t], t, "disconnected", inbox)
    /\ UNCHANGED <<page, room, opened, live, accept, view, requests, tables, limits, history>>

\* A room that is empty is completed, sooner or later.
Complete ==
    /\ live /\ InRoom(opened) = {}
    /\ live' = FALSE
    /\ UNCHANGED <<page, seat, room, opened, messages, view, requests, tables, limits,
                   history>>

-----------------------------------------------------------------------------
(* A tab.                                                                  *)

Open(t) ==
    /\ page[t] = "closed"
    /\ page' = [page EXCEPT ![t] = "connecting"]
    /\ UNCHANGED <<twilio, messages, view, requests, tables, limits, history>>

\* Mutant of Apply: whoever leaves stays in the collection.
ApplyKeeping(seen, m) ==
    IF m.who \in seen.parted THEN seen
    ELSE IF m.state = "connected" THEN [seen EXCEPT !.sees = @ \cup {m.who}]
    ELSE [seen EXCEPT !.parted = @ \cup {m.who}]

\* _update: whoever was seen to leave is not let in again.
Apply(seen, m) ==
    IF m.who \in seen.parted THEN seen
    ELSE IF m.state = "connected" THEN [seen EXCEPT !.sees = @ \cup {m.who}]
    ELSE [sees |-> seen.sees \ {m.who},
          parted |-> IF m.who \in seen.sees THEN seen.parted \cup {m.who} ELSE seen.parted]

\* What is seen after the first n of the updates.
After(seen, updates) ==
    LET then[n \in 0..Len(updates)] ==
          IF n = 0 THEN seen ELSE Apply(then[n - 1], updates[n])
    IN then[Len(updates)]

Shows(t, seen) ==
    /\ sees' = [sees EXCEPT ![t] = seen.sees]
    /\ parted' = [parted EXCEPT ![t] = seen.parted]

\* Mutant of Joined: the updates held back are dropped.
JoinedForgetting(t) ==
    /\ page[t] = "connecting" /\ accept[t] # None
    /\ Shows(t, [sees |-> accept[t], parted |-> {}])
    /\ accept' = [accept EXCEPT ![t] = None]
    /\ held' = [held EXCEPT ![t] = <<>>]
    /\ page' = [page EXCEPT ![t] = "connected"]
    /\ register' = [register EXCEPT ![t] = "sent"]
    /\ UNCHANGED <<twilio, inbox, report, fetched, ending, tables, limits, history>>

\* The room is made of the answer; then come the updates held back, and the
\* page, which has the room registered.
Joined(t) ==
    /\ page[t] = "connecting" /\ accept[t] # None
    /\ Shows(t, After([sees |-> accept[t], parted |-> {}], held[t]))
    /\ accept' = [accept EXCEPT ![t] = None]
    /\ held' = [held EXCEPT ![t] = <<>>]
    /\ page' = [page EXCEPT ![t] = "connected"]
    /\ register' = [register EXCEPT ![t] = "sent"]
    /\ UNCHANGED <<twilio, inbox, report, fetched, ending, tables, limits, history>>

\* Somebody has left whom Twilio, or tab t, has yet to hear of.
Unnoticed(t)        == \E u \in InRoom(room[t]) \ {t} : Finished(u)
Crossing(t, coming) == coming # <<>> \/ Unnoticed(t)

\* It listens no more, and what is on the way to it is dropped.
Stop(t, how) ==
    /\ page' = [page EXCEPT ![t] = how]
    /\ inbox' = [inbox EXCEPT ![t] = <<>>]
    /\ accept' = [accept EXCEPT ![t] = None]
    /\ held' = [held EXCEPT ![t] = <<>>]
    /\ sees' = [sees EXCEPT ![t] = {}]
    /\ parted' = [parted EXCEPT ![t] = {}]

\* Mutant of Disconnected: everybody who leaves reports.
DisconnectedReporting(t, coming) ==
    /\ Stop(t, "disconnected")
    /\ report' = [report EXCEPT ![t] = "sent"]
    /\ untidy' = [untidy EXCEPT ![room[t]] = @ \/ Crossing(t, coming)]

\* The page on 'disconnected': a report, if nobody is seen in the room.
Disconnected(t, coming) ==
    /\ Stop(t, "disconnected")
    /\ report' = [report EXCEPT ![t] = IF sees[t] = {} THEN "sent" ELSE "none"]
    /\ untidy' = [untidy EXCEPT ![room[t]] = @ \/ Crossing(t, coming)]

\* 'leave-call', beforeunload, or the loss of the connection.
Leave(t) ==
    /\ page[t] = "connected"
    /\ Disconnected(t, inbox[t])
    /\ UNCHANGED <<twilio, register, fetched, ending, tables, limits, rejoined>>

\* A message while connecting is held back; one that ends it leaves no room.
HoldBack(t, m) ==
    /\ held' = [held EXCEPT ![t] = Append(@, m)]
    /\ UNCHANGED <<page, accept, sees, parted, report, untidy>>
Update(t, m) ==
    /\ Shows(t, Apply([sees |-> sees[t], parted |-> parted[t]], m))
    /\ UNCHANGED <<page, accept, held, report, untidy>>
Refused(t) ==
    /\ Stop(t, "gone")
    /\ untidy' = [untidy EXCEPT ![room[t]] = TRUE]
    /\ UNCHANGED report

Receive(t) ==
    /\ inbox[t] # <<>>
    /\ LET m == Head(inbox[t])
           rest == Tail(inbox[t]) IN
       IF m = End
       THEN \/ page[t] = "connecting" /\ Refused(t)
            \/ page[t] = "connected" /\ Disconnected(t, rest)
       ELSE /\ inbox' = [inbox EXCEPT ![t] = rest]
            /\ \/ page[t] = "connecting" /\ HoldBack(t, m)
               \/ page[t] = "connected" /\ Update(t, m)
    /\ UNCHANGED <<twilio, register, fetched, ending, tables, limits, rejoined>>

\* The browser is killed, or leaves the page before there is a room.
Kill(t) ==
    /\ page[t] \in {"connecting", "connected"} /\ fails < MaxFails
    /\ fails' = fails + 1
    /\ Stop(t, "gone")
    /\ untidy' = [r \in Rooms |-> untidy[r] \/ r = room[t]]
    /\ UNCHANGED <<twilio, requests, tables, ends, rejoined>>

\* The page moves on to the event while the requests are being sent.
Lose(t) ==
    /\ fails < MaxFails
    /\ fails' = fails + 1
    /\ \/ /\ register[t] = "sent" /\ register' = [register EXCEPT ![t] = "lost"]
          /\ UNCHANGED report
       \/ /\ report[t] = "sent" /\ report' = [report EXCEPT ![t] = "lost"]
          /\ UNCHANGED register
    /\ UNCHANGED <<page, twilio, messages, view, fetched, ending, tables, ends, history>>

-----------------------------------------------------------------------------
(* The actions of initiatives_controller.rb.                               *)

\* register_room_in_db: authorization, and the validation of sid ...
Validate(t) ==
    /\ register[t] = "sent"
    /\ register' = [register EXCEPT ![t] =
                      IF t \in Managers /\ rows[room[t]] = 0 THEN "valid" ELSE "refused"]
    /\ UNCHANGED <<page, twilio, messages, view, report, fetched, ending, tables, limits,
                   history>>

\* Mutant of Insert: the request is sent again until it is answered.
InsertRetried(t) ==
    /\ register[t] = "valid"
    /\ rows' = [rows EXCEPT ![room[t]] = @ + 1]
    /\ status' = [status EXCEPT ![room[t]] = IF rows[room[t]] = 0 THEN "connected" ELSE @]
    /\ UNCHANGED <<page, twilio, messages, view, requests, recorded, limits, history>>

\* ... and the row.
Insert(t) ==
    /\ register[t] = "valid"
    /\ register' = [register EXCEPT ![t] = "done"]
    /\ rows' = [rows EXCEPT ![room[t]] = @ + 1]
    /\ status' = [status EXCEPT ![room[t]] = IF rows[room[t]] = 0 THEN "connected" ELSE @]
    /\ UNCHANGED <<page, twilio, messages, view, report, fetched, ending, recorded, limits,
                   history>>

\* update_registered_room_in_db: the room is fetched, then the row is looked
\* for.  Without a row the participants have nothing to be created in.
Fetch(t) ==
    /\ report[t] = "sent"
    /\ fetched' = [fetched EXCEPT ![t] =
                     IF live /\ room[t] = opened THEN "in-progress" ELSE "completed"]
    /\ report' = [report EXCEPT ![t] = IF rows[room[t]] = 0 THEN "failed" ELSE "found"]
    /\ UNCHANGED <<page, twilio, messages, view, register, ending, tables, limits, history>>

\* A row for each participant that Twilio lists, whether it has left or not.
Create(t) ==
    /\ report[t] = "found"
    /\ recorded' = [u \in Tabs |-> IF room[u] = room[t] THEN recorded[u] + 1 ELSE recorded[u]]
    /\ report' = [report EXCEPT ![t] = "created"]
    /\ UNCHANGED <<page, twilio, messages, view, register, fetched, ending, rows, status,
                   limits, history>>

Store(t) ==
    /\ report[t] = "created"
    /\ status' = [status EXCEPT ![room[t]] = fetched[t]]
    /\ report' = [report EXCEPT ![t] = "done"]
    /\ UNCHANGED <<page, twilio, messages, view, register, fetched, ending, rows, recorded,
                   limits, history>>

\* end_virtual_meeting lists who is connected, and disconnects one after another.
EndMeeting(t) ==
    /\ page[t] = "connected" /\ t \in Managers /\ ends < MaxEnds
    /\ ends' = ends + 1
    /\ ending' = [ending EXCEPT ![t] = InRoom(room[t])]
    /\ UNCHANGED <<page, twilio, messages, view, register, report, fetched, tables, fails,
                   history>>

\* Twilio may refuse to disconnect somebody who has left: then the loop ends.
Expel(t) ==
    /\ \E u \in ending[t] :
          \/ /\ seat[u] = "in"
             /\ seat' = [seat EXCEPT ![u] = "left"]
             /\ inbox' = [Tell(room[u], u, "disconnected", inbox) EXCEPT
                            ![u] = IF Finished(u) THEN @ ELSE Append(@, End)]
             /\ ending' = [ending EXCEPT ![t] = @ \ {u}]
             /\ untidy' = [untidy EXCEPT ![room[u]] = @ \/ Unnoticed(u)]
          \/ /\ seat[u] # "in"
             /\ \E left \in {{}, ending[t] \ {u}} : ending' = [ending EXCEPT ![t] = left]
             /\ UNCHANGED <<seat, inbox, untidy>>
    /\ UNCHANGED <<page, room, opened, live, accept, view, register, report, fetched, tables,
                   limits, rejoined>>

Serve(t) ==
    Validate(t) \/ Insert(t) \/ Fetch(t) \/ Create(t) \/ Store(t) \/ Expel(t)

Next ==
    \/ Complete
    \/ \E t \in Tabs :
          \/ Admit(t) \/ Part(t) \/ Open(t) \/ Joined(t) \/ Leave(t) \/ Receive(t)
          \/ Kill(t) \/ Lose(t) \/ EndMeeting(t) \/ Serve(t)

\* Twilio admits, notices and delivers, and requests end; nobody has to leave.
Fairness ==
    \A t \in Tabs :
       /\ WF_vars(Admit(t)) /\ WF_vars(Part(t))
       /\ WF_vars(Joined(t)) /\ WF_vars(Receive(t)) /\ WF_vars(Serve(t))

Spec == Init /\ [][Next]_vars /\ Fairness

-----------------------------------------------------------------------------
\* When everybody has left a room one after another, nothing crossing anybody's
\* leaving, the one who was last has reported it.
Over(r) == WasIn(r) # {} /\ \A t \in WasIn(r) : Finished(t)
LastOneReports ==
    \A r \in Rooms : (Over(r) /\ ~untidy[r]) => \E t \in WasIn(r) : report[t] # "none"

\* Nobody is billed twice for one meeting, unless leavings crossed or somebody
\* joined the room again after it had been left.
BilledOnce ==
    \A t \in Tabs : recorded[t] > 1 => (untidy[room[t]] \/ rejoined[room[t]])

\* Whoever stays in the room ends up seeing exactly those who are in it.
WhoStaysSeesAll ==
    \A t \in Tabs : <>[](page[t] = "connected" => sees[t] = InRoom(room[t]) \ {t})
=============================================================================
