---------------------------- MODULE CampaignVotes ----------------------------
(***************************************************************************)
(* Votes for an answer of a campaign, from the two pages that write them:  *)
(* likes_controller.rb (the news feed: a like, and a vote that goes with   *)
(* it) and user_answers_controller.rb (the campaign: a vote alone).        *)
(*                                                                         *)
(* answer_upvotes has neither a unique index nor a validation, likes has a *)
(* unique index; nothing encloses the transactions of a request.  Points   *)
(* appear here as the fact that some were added for a vote: the totals     *)
(* computed from them are in module Rewards.                               *)
(***************************************************************************)
EXTENDS Integers, FiniteSets

CONSTANTS
    Users,
    Author,       \* the user who wrote the answer
    Sessions,
    SessionUser,  \* the user of each session
    Rows,         \* row ids of answer_upvotes and of likes, for one user
    MaxStops,     \* bound: processes that stop within a request
    NoRequest     \* the session is idle

ASSUME SessionAssumption == SessionUser \in [Sessions -> Users] /\ Author \in Users
ASSUME RowsAssumption == Rows \subseteq Nat \ {0} /\ MaxStops \in Nat

VARIABLES
    upvotes,      \* answer_upvotes of each user
    likes,        \* the row of each user in likes, 0 for none
    solved,       \* whether the question is marked as solved
    paid,         \* upvotes that points were added for
    req,          \* what each session holds between two transactions
    stops,
    crossed,      \* history: two requests of the user were in flight at once
    cut           \* history: a process stopped within a request of the user

votes   == <<upvotes, likes>>
history == <<crossed, cut>>
vars == <<votes, solved, paid, req, stops, history>>

\* row is the upvote in memory and like the like to be destroyed, 0 for none.
Request == [op: {"like", "unlike", "vote", "unvote"},
            step: {"find", "create", "pay", "like", "unlike", "destroy"},
            row: Rows \cup {0}, like: Rows \cup {0}]

ASSUME IdleAssumption == NoRequest \notin Request

TypeOK ==
    /\ upvotes \in [Users -> SUBSET Rows]
    /\ likes \in [Users -> Rows \cup {0}]
    /\ solved \in BOOLEAN
    /\ paid \in [Users -> SUBSET Rows]
    /\ req \in [Sessions -> Request \cup {NoRequest}]
    /\ stops \in 0..MaxStops
    /\ crossed \in [Users -> BOOLEAN] /\ cut \in [Users -> BOOLEAN]

Init ==
    /\ upvotes = [u \in Users |-> {}] /\ likes = [u \in Users |-> 0]
    /\ solved = FALSE
    /\ paid = [u \in Users |-> {}]
    /\ req = [s \in Sessions |-> NoRequest]
    /\ stops = 0
    /\ crossed = [u \in Users |-> FALSE] /\ cut = [u \in Users |-> FALSE]

-----------------------------------------------------------------------------
Of(u)       == {s \in Sessions : SessionUser[s] = u /\ req[s] # NoRequest}
At(s, step) == req[s] # NoRequest /\ req[s].step = step
Goto(s, step) == req' = [req EXCEPT ![s].step = step]
Done(s)     == req' = [req EXCEPT ![s] = NoRequest]

Begin(s, op, step) ==
    /\ req[s] = NoRequest
    /\ req' = [req EXCEPT ![s] =
          [op |-> op, step |-> step, row |-> 0,
           like |-> IF op = "unlike" THEN likes[SessionUser[s]] ELSE 0]]
    /\ crossed' = [crossed EXCEPT ![SessionUser[s]] = @ \/ Of(SessionUser[s]) # {}]
    /\ UNCHANGED <<votes, solved, paid, stops, cut>>

\* Mutant of Like: the like is looked for after the upvote was made.
LikeUnasked(s) == Begin(s, "like", "create")

\* LikesController: set_like finds the like; create does nothing when there
\* is one, unlike fails when there is none.
Like(s)   == likes[SessionUser[s]] = 0 /\ Begin(s, "like", "create")
Unlike(s) == likes[SessionUser[s]] # 0 /\ Begin(s, "unlike", "find")

\* User::UserAnswersController#vote.
MayVote(u) == ~solved /\ u # Author
Vote(s)   == MayVote(SessionUser[s]) /\ Begin(s, "vote", "find")
Unvote(s) == MayVote(SessionUser[s]) /\ Begin(s, "unvote", "find")

\* Mutant of FirstOf: finding nothing is not told from finding a row.
FirstOfNil(u) ==
    IF upvotes[u] = {} THEN {NoRequest}
    ELSE {row \in upvotes[u] : \A other \in upvotes[u] : row <= other}

\* The first upvote of the user, as the request looks for it.
FirstOf(u) ==
    IF upvotes[u] = {} THEN {0}
    ELSE {row \in upvotes[u] : \A other \in upvotes[u] : row <= other}

Found(s, row) ==
    IF req[s].op = "unlike" THEN "unlike"
    ELSE IF req[s].op = "unvote" THEN "destroy"
    ELSE IF row = 0 THEN "create" ELSE "pay"

Find(s) ==
    /\ At(s, "find")
    /\ \E row \in FirstOf(SessionUser[s]) :
          IF req[s].op = "unvote" /\ row = 0 THEN Done(s)
          ELSE req' = [req EXCEPT ![s].step = Found(s, row), ![s].row = row]
    /\ UNCHANGED <<votes, solved, paid, stops, history>>

\* A row that no request of the user still points to.
Fresh(u) == Rows \ (upvotes[u] \cup {req[s].row : s \in Of(u)})

Create(s) ==
    /\ At(s, "create")
    /\ LET u == SessionUser[s] IN
       \E row \in Fresh(u) :
          /\ upvotes' = [upvotes EXCEPT ![u] = @ \cup {row}]
          /\ paid' = [paid EXCEPT ![u] = @ \ {row}]
          /\ req' = [req EXCEPT ![s].step = "pay", ![s].row = row]
    /\ UNCHANGED <<likes, solved, stops, history>>

\* Mutant of Pay: points are added when the like has been stored.
PayAfterLike(s) ==
    /\ At(s, "pay")
    /\ IF req[s].op = "like" /\ likes[SessionUser[s]] # 0
       THEN Done(s) /\ UNCHANGED paid
       ELSE /\ paid' = [paid EXCEPT ![SessionUser[s]] = @ \cup {req[s].row}]
            /\ IF req[s].op = "like" THEN Goto(s, "like") ELSE Done(s)
    /\ UNCHANGED <<votes, solved, stops, history>>

\* Rewards::Points::Manager#add_points, for the upvote in memory.
Pay(s) ==
    /\ At(s, "pay")
    /\ paid' = [paid EXCEPT ![SessionUser[s]] = @ \cup {req[s].row}]
    /\ IF req[s].op = "like" THEN Goto(s, "like") ELSE Done(s)
    /\ UNCHANGED <<votes, solved, stops, history>>

\* save!: the index refuses a second like, and the request fails.
StoreLike(s) ==
    /\ At(s, "like")
    /\ LET u == SessionUser[s]  free == Rows \ {req[t].like : t \in Of(u)}
       IN  /\ free # {}
           /\ likes' = [likes EXCEPT ![u] =
                          IF @ = 0 THEN CHOOSE like \in free : TRUE ELSE @]
    /\ Done(s)
    /\ UNCHANGED <<upvotes, solved, paid, stops, history>>

\* destroy removes the row by its id: a like stored again meanwhile stays.
\* Without an upvote in memory the request fails after that.
DropLike(s) ==
    /\ At(s, "unlike")
    /\ likes' = [likes EXCEPT ![SessionUser[s]] =
                    IF @ = req[s].like THEN 0 ELSE @]
    /\ IF req[s].row = 0 THEN Done(s) ELSE Goto(s, "destroy")
    /\ UNCHANGED <<upvotes, solved, paid, stops, history>>

\* Mutant of DropVote: the points of a vote taken back are added all the same.
DropVotePaying(s) ==
    /\ At(s, "destroy")
    /\ LET u == SessionUser[s] IN
          /\ upvotes' = [upvotes EXCEPT ![u] = @ \ {req[s].row}]
          /\ paid' = [paid EXCEPT ![u] = @ \cup {req[s].row}]
    /\ Done(s)
    /\ UNCHANGED <<likes, solved, stops, history>>

\* destroy.  For a vote add_points follows, and fails: nothing can be created
\* in an association of a row that was destroyed.
DropVote(s) ==
    /\ At(s, "destroy")
    /\ upvotes' = [upvotes EXCEPT ![SessionUser[s]] = @ \ {req[s].row}]
    /\ Done(s)
    /\ UNCHANGED <<likes, solved, paid, stops, history>>

\* QuestionsController#update and #reopen.
Solve ==
    /\ solved' = ~solved
    /\ UNCHANGED <<votes, paid, req, stops, history>>

\* The process stops between two transactions of a request.
StopRequest(s) ==
    /\ req[s] # NoRequest /\ stops < MaxStops
    /\ stops' = stops + 1
    /\ cut' = [cut EXCEPT ![SessionUser[s]] = TRUE]
    /\ Done(s)
    /\ UNCHANGED <<votes, solved, paid, crossed>>

Next ==
    \/ Solve
    \/ \E s \in Sessions :
          \/ Like(s) \/ Unlike(s) \/ Vote(s) \/ Unvote(s) \/ StopRequest(s)
          \/ Find(s) \/ Create(s) \/ Pay(s) \/ StoreLike(s) \/ DropLike(s) \/ DropVote(s)

Spec == Init /\ [][Next]_vars

-----------------------------------------------------------------------------
\* The upvote whose like is about to be stored, or was just removed.
LikeUnderWay(u) ==
    \E s \in Of(u) : \/ req[s].op = "like" /\ req[s].step \in {"pay", "like"}
                     \/ req[s].op = "unlike" /\ req[s].step = "destroy"

\* A user whose requests came one after another, whichever pages they came
\* from, has one upvote of its own and one for its like: no more.
UpvotesWithinLikes ==
    \A u \in Users :
       ~(crossed[u] \/ cut[u]) =>
          Cardinality(upvotes[u]) <=
             1 + (IF likes[u] # 0 \/ LikeUnderWay(u) THEN 1 ELSE 0)

\* Every vote that stands was rewarded, or is about to be, unless the process
\* stopped; also when the like it was made for is refused.
StandingVotesArePaid ==
    \A u \in Users : \A row \in upvotes[u] :
       \/ row \in paid[u] \/ cut[u]
       \/ \E s \in Of(u) : req[s].step = "pay" /\ req[s].row = row

\* Points are added for votes that stand, unless requests of the user cross.
PointsForStandingVotes ==
    [][\A u \in Users : paid'[u] \ paid[u] \subseteq upvotes'[u] \/ crossed[u]]_vars
=============================================================================
