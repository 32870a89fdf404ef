------------------------------- MODULE Rewards -------------------------------
(***************************************************************************)
(* Points for attending events, and the rewards they are redeemed for:     *)
(* app/services/rewards/points/*.rb, user_reward.rb, the attendances and   *)
(* user_rewards controllers, RewardMailerJob and ResetWeeklyRewardsJob.    *)
(*                                                                         *)
(* user_reward_actions is a ledger; users.points, users.credits and the    *)
(* total_weekly_points of a user, a group and a membership are caches of   *)
(* it.  A request loads its user, with the caches, before anything else    *)
(* and saves the attributes it changed one at a time; nothing encloses its *)
(* transactions.  Sessions serve the requests of users: a user with two    *)
(* sessions may have two requests in flight.                               *)
(***************************************************************************)
EXTENDS Integers, FiniteSetsExt

CONSTANTS
    Users,
    Sessions,
    SessionUser,  \* the user of each session
    Events,
    Redemptions,  \* rows of user_rewards
    Rows,         \* row ids of initiative_users, for one user and event
    Capacity,     \* max_attendees of the events; 0 for none
    Worths,       \* points an administrator gives the action attend_event
    Costs,        \* points a reward costs
    MaxWeekly,    \* bound: no attendance starts above this weekly total
    NoRequest     \* the session is idle

ASSUME SessionAssumption == SessionUser \in [Sessions -> Users]
ASSUME PointsAssumption == /\ Worths \subseteq Nat /\ Costs \subseteq Nat
                           /\ Capacity \in Nat /\ MaxWeekly \in Nat
ASSUME RowsAssumption == Rows \subseteq Nat \ {0}

VARIABLES
    rows,         \* initiative_users of each user and event
    ledger,       \* user_reward_actions of each user and event
    earned,       \* ... and the sum of all those of a user
    spent,        \* the sum of the user_rewards of a user
    user,         \* users: the columns points, credits, total_weekly_points
    weekly,       \* total_weekly_points of the group and of its members
    redemption,   \* user_rewards: user and status
    req,          \* what each session holds between two transactions
    admin,        \* the approval in flight
    reset,        \* the statement ResetWeeklyRewardsJob has run last
    jobs,         \* RewardMailerJob enqueued
    told,         \* redemptions whose present status was mailed
    overtaken     \* history: users whose weekly updates a reset came between

points == <<rows, ledger, earned, weekly>>
mailing == <<jobs, told>>
resetting == <<reset, overtaken>>
vars == <<points, spent, user, redemption, req, admin, resetting, mailing>>

Statuses == {"pending", "redeemed", "forfeited"}
Columns  == [points: Int, credits: Int, weekly: Nat]
Totals   == [points: Int, credits: Int]

\* The updates of the weekly totals of a request: its user's, then the group
\* and the membership are each read and written.
WeeklySteps == {"user", "group", "groupWeekly", "member", "memberWeekly"}

\* row, seen, worth, read, total and cost are what the request has in memory.
Request  == [op: {"attend", "unattend", "redeem"},
             step: {"insert", "earn", "delete", "lose", "total", "save", "create"}
                     \cup WeeklySteps,
             event: Events \cup {0}, row: Nat, seen: Columns, worth: Nat,
             read: Nat, total: Totals, cost: Nat]
Approval == [step: {"idle", "total", "save"}, row: Redemptions \cup {0},
             seen: Int, credits: Int]

NoTotals   == [points |-> 0, credits |-> 0]
NoApproval == [step |-> "idle", row |-> 0, seen |-> 0, credits |-> 0]

ASSUME IdleAssumption == NoRequest \notin Request

TypeOK ==
    /\ rows \in [Users -> [Events -> SUBSET Rows]]
    /\ ledger \in [Users -> [Events -> [net: Int, last: Nat]]]
    /\ earned \in [Users -> Int]
    /\ spent \in [Users -> Nat]
    /\ user \in [Users -> Columns]
    /\ weekly \in [group: Nat, member: [Users -> Nat]]
    /\ redemption \in [Redemptions -> [status: Statuses \cup {"absent"},
                                       user: Users \cup {0}]]
    /\ req \in [Sessions -> Request \cup {NoRequest}]
    /\ admin \in Approval
    /\ reset \in {"idle", "users", "groups"}
    /\ jobs \subseteq Redemptions
    /\ told \subseteq Redemptions
    /\ overtaken \subseteq Users

Init ==
    /\ rows = [u \in Users |-> [e \in Events |-> {}]]
    /\ ledger = [u \in Users |-> [e \in Events |-> [net |-> 0, last |-> 0]]]
    /\ earned = [u \in Users |-> 0]
    /\ spent = [u \in Users |-> 0]
    /\ user = [u \in Users |-> [points |-> 0, credits |-> 0, weekly |-> 0]]
    /\ weekly = [group |-> 0, member |-> [u \in Users |-> 0]]
    /\ redemption = [r \in Redemptions |-> [status |-> "absent", user |-> 0]]
    /\ req = [s \in Sessions |-> NoRequest]
    /\ admin = NoApproval
    /\ reset = "idle"
    /\ jobs = {}
    /\ told = {}
    /\ overtaken = {}

-----------------------------------------------------------------------------
(* Attending an event: Groups::AttendancesController.                      *)

At(s, step) == req[s] # NoRequest /\ req[s].step = step
Goto(s, step) == req' = [req EXCEPT ![s].step = step]
Done(s) == req' = [req EXCEPT ![s] = NoRequest]

Load(s, op, step, e, row, cost) ==
    /\ req[s] = NoRequest
    /\ req' = [req EXCEPT ![s] =
          [op |-> op, step |-> step, event |-> e, row |-> row,
           seen |-> user[SessionUser[s]], worth |-> 0, read |-> 0,
           total |-> NoTotals, cost |-> cost]]

\* Initiative#full?
Attendees(e) == {a \in Users \X Rows : a[2] \in rows[a[1]][e]}
Full(e) == Capacity # 0 /\ Cardinality(Attendees(e)) >= Capacity

\* The ids that a request of the user still points to; a new row gets another.
Held(u, e) == {req[s].row : s \in {t \in Sessions : /\ req[t] # NoRequest
                                                    /\ SessionUser[t] = u
                                                    /\ req[t].event = e}}

Attend(s, e) ==
    LET u == SessionUser[s]
    IN  /\ rows[u][e] = {} /\ ~Full(e)
        /\ \A total \in {user[u].weekly, weekly.group, weekly.member[u]} :
              total < MaxWeekly
        /\ Load(s, "attend", "insert", e, 0, 0)
        /\ UNCHANGED <<points, spent, user, redemption, admin, resetting, mailing>>

Insert(s) ==
    /\ At(s, "insert")
    /\ LET u == SessionUser[s]  e == req[s].event
           free == Rows \ (rows[u][e] \cup Held(u, e))
       IN  /\ free # {}
           /\ rows' = [rows EXCEPT ![u][e] = @ \cup {Min(free)}]
    /\ Goto(s, "earn")
    /\ UNCHANGED <<ledger, earned, weekly, spent, user, redemption, admin,
                   resetting, mailing>>

Unattend(s, e) ==
    /\ \E row \in rows[SessionUser[s]][e] : Load(s, "unattend", "delete", e, row, 0)
    /\ UNCHANGED <<points, spent, user, redemption, admin, resetting, mailing>>

Delete(s) ==
    /\ At(s, "delete")
    /\ rows' = [rows EXCEPT ![SessionUser[s]][req[s].event] = @ \ {req[s].row}]
    /\ Goto(s, "lose")
    /\ UNCHANGED <<ledger, earned, weekly, spent, user, redemption, admin,
                   resetting, mailing>>

-----------------------------------------------------------------------------
(* Rewards::Points::Manager.                                               *)

Ledger(u, e, change, last) ==
    /\ ledger' = [ledger EXCEPT ![u][e] = [net |-> @.net + change, last |-> last]]
    /\ earned' = [earned EXCEPT ![u] = @ + change]

\* add_points_to_user.  The action is loaded once, with what it is worth.
Earn(s) ==
    /\ At(s, "earn")
    /\ \E worth \in Worths :
          /\ Ledger(SessionUser[s], req[s].event, worth, worth)
          /\ req' = [req EXCEPT ![s].step = "user", ![s].worth = worth]
    /\ UNCHANGED <<rows, weekly, spent, user, redemption, admin, resetting, mailing>>

\* Mutant of Lose: what the action is worth now is taken back.
LoseWorth(s) ==
    /\ At(s, "lose")
    /\ LET u == SessionUser[s]  last == ledger[u][req[s].event].last
       IN  \E worth \in Worths :
              /\ Ledger(u, req[s].event, -worth, last)
              /\ req' = [req EXCEPT ![s].step = "user", ![s].worth = worth]
    /\ UNCHANGED <<rows, weekly, spent, user, redemption, admin, resetting, mailing>>

\* remove_points_from_user takes back what the latest addition gave for the
\* event; the weekly totals will lose what the action is worth now.  Only a
\* request of the same user writes this part of the ledger, so that its read and
\* its insert are one step.
Lose(s) ==
    /\ At(s, "lose")
    /\ LET u == SessionUser[s]  last == ledger[u][req[s].event].last
       IN  Ledger(u, req[s].event, -last, last)
    /\ \E worth \in Worths :
          req' = [req EXCEPT ![s].step = "user", ![s].worth = worth]
    /\ UNCHANGED <<rows, weekly, spent, user, redemption, admin, resetting, mailing>>

\* Mutant of Minus: a weekly total has no floor.
MinusUnfloored(total, worth) == total - worth
Minus(total, worth) == IF total > worth THEN total - worth ELSE 0

\* add_weekly_points and remove_weekly_points, from the total in memory; update
\* writes the column when that changes it.
After(r, total) ==
    IF r.op = "attend" THEN total + r.worth ELSE Minus(total, r.worth)
Changed(new, seen, column) == IF new # seen THEN new ELSE column
Weekly(r, total, column) == Changed(After(r, total), total, column)

\* The user was loaded with the request.
UserWeekly(s) ==
    /\ At(s, "user")
    /\ user' = [user EXCEPT ![SessionUser[s]].weekly =
                  Weekly(req[s], req[s].seen.weekly, @)]
    /\ Goto(s, "group")
    /\ UNCHANGED <<points, spent, redemption, admin, resetting, mailing>>

\* The group is loaded when it is asked for ...
ReadGroup(s) ==
    /\ At(s, "group")
    /\ req' = [req EXCEPT ![s].step = "groupWeekly", ![s].read = weekly.group]
    /\ UNCHANGED <<points, spent, user, redemption, admin, resetting, mailing>>

GroupWeekly(s) ==
    /\ At(s, "groupWeekly")
    /\ weekly' = [weekly EXCEPT !.group = Weekly(req[s], req[s].read, @)]
    /\ Goto(s, "member")
    /\ UNCHANGED <<rows, ledger, earned, spent, user, redemption, admin,
                   resetting, mailing>>

\* ... and the membership after that, by find_by.
ReadMember(s) ==
    /\ At(s, "member")
    /\ req' = [req EXCEPT ![s].step = "memberWeekly",
                          ![s].read = weekly.member[SessionUser[s]]]
    /\ UNCHANGED <<points, spent, user, redemption, admin, resetting, mailing>>

\* Mutant of MemberWeekly: leaving an event forgets the membership.
MemberWeeklyAdded(s) ==
    /\ At(s, "memberWeekly")
    /\ weekly' = [weekly EXCEPT !.member[SessionUser[s]] =
          IF req[s].op = "attend" THEN Weekly(req[s], req[s].read, @) ELSE @]
    /\ Goto(s, "total")
    /\ UNCHANGED <<rows, ledger, earned, spent, user, redemption, admin,
                   resetting, mailing>>

MemberWeekly(s) ==
    /\ At(s, "memberWeekly")
    /\ weekly' = [weekly EXCEPT !.member[SessionUser[s]] =
                    Weekly(req[s], req[s].read, @)]
    /\ Goto(s, "total")
    /\ UNCHANGED <<rows, ledger, earned, spent, user, redemption, admin,
                   resetting, mailing>>

\* Reporting#user_credits.
Credits(u) == earned[u] - spent[u]

\* update_user_points: the sums are read, then the columns that differ from
\* the ones loaded are written.
Total(s) ==
    /\ At(s, "total")
    /\ req' = [req EXCEPT ![s].step = "save",
                          ![s].total = [points |-> earned[SessionUser[s]],
                                        credits |-> Credits(SessionUser[s])]]
    /\ UNCHANGED <<points, spent, user, redemption, admin, resetting, mailing>>

\* Mutant of Save: only the credits are written, as after an approval.
SaveCredits(s) ==
    /\ At(s, "save")
    /\ user' = [user EXCEPT ![SessionUser[s]].credits =
                  Changed(req[s].total.credits, req[s].seen.credits, @)]
    /\ Done(s)
    /\ UNCHANGED <<points, spent, redemption, admin, resetting, mailing>>

Save(s) ==
    /\ At(s, "save")
    /\ LET u == SessionUser[s]  r == req[s]
       IN  user' = [user EXCEPT
              ![u].points  = Changed(r.total.points, r.seen.points, @),
              ![u].credits = Changed(r.total.credits, r.seen.credits, @)]
    /\ Done(s)
    /\ UNCHANGED <<points, spent, redemption, admin, resetting, mailing>>

-----------------------------------------------------------------------------
(* Redeeming: Rewards::Points::Redemption and User::UserRewardsController. *)

Absent == {r \in Redemptions : redemption[r].status = "absent"}
Creating == {s \in Sessions : At(s, "create")}

\* Mutant of Redeem: the credits shown are trusted.
RedeemShown(s) ==
    /\ Cardinality(Absent) > Cardinality(Creating)
    /\ \E cost \in Costs : /\ user[SessionUser[s]].credits >= cost
                           /\ Load(s, "redeem", "create", 0, 0, cost)
    /\ UNCHANGED <<points, spent, user, redemption, admin, resetting, mailing>>

\* The user may have the reward; it is created in a later transaction.
Redeem(s) ==
    /\ Cardinality(Absent) > Cardinality(Creating)
    /\ \E cost \in Costs : /\ Credits(SessionUser[s]) >= cost
                           /\ Load(s, "redeem", "create", 0, 0, cost)
    /\ UNCHANGED <<points, spent, user, redemption, admin, resetting, mailing>>

CreateReward(s) ==
    /\ At(s, "create")
    /\ \E r \in Absent :
          /\ redemption' = [redemption EXCEPT ![r] =
                              [status |-> "pending", user |-> SessionUser[s]]]
          /\ jobs' = jobs \cup {r}
    /\ spent' = [spent EXCEPT ![SessionUser[s]] = @ + req[s].cost]
    /\ Done(s)
    /\ UNCHANGED <<points, user, admin, resetting, told>>

\* Neither action looks at the status it changes.
Decide(r, status) ==
    /\ admin = NoApproval
    /\ r \notin Absent
    /\ redemption' = [redemption EXCEPT ![r].status = status]
    /\ told' = told \ {r}

\* UserReward#approve_reward_redemption, then the mail.
Approve(r) ==
    /\ Decide(r, "redeemed")
    /\ admin' = [NoApproval EXCEPT !.step = "total", !.row = r]
    /\ UNCHANGED <<points, spent, user, req, resetting, jobs>>

ApproveTotal ==
    /\ admin.step = "total"
    /\ LET u == redemption[admin.row].user
       IN  admin' = [admin EXCEPT !.step = "save", !.seen = user[u].credits,
                                  !.credits = Credits(u)]
    /\ UNCHANGED <<points, spent, user, redemption, req, resetting, mailing>>

\* Mutant of ApproveSave: no mail job.
ApproveSaveSilently ==
    /\ admin.step = "save"
    /\ user' = [user EXCEPT ![redemption[admin.row].user].credits =
                  Changed(admin.credits, admin.seen, @)]
    /\ admin' = NoApproval
    /\ UNCHANGED <<points, spent, redemption, req, resetting, mailing>>

ApproveSave ==
    /\ admin.step = "save"
    /\ user' = [user EXCEPT ![redemption[admin.row].user].credits =
                  Changed(admin.credits, admin.seen, @)]
    /\ jobs' = jobs \cup {admin.row}
    /\ admin' = NoApproval
    /\ UNCHANGED <<points, spent, redemption, req, resetting, told>>

\* The points of a forfeited reward stay spent.
Forfeit(r) ==
    /\ Decide(r, "forfeited")
    /\ jobs' = jobs \cup {r}
    /\ UNCHANGED <<points, spent, user, req, admin, resetting>>

-----------------------------------------------------------------------------
(* Jobs.  Sidekiq runs a job at least once, and jobs in any order.         *)

\* RewardMailerJob mails what the status is when it runs.
Mailer(r) ==
    /\ r \in jobs
    /\ told' = told \cup {r}
    /\ jobs' \in {jobs, jobs \ {r}}
    /\ UNCHANGED <<points, spent, user, redemption, req, admin, resetting>>

\* Users whose request is between two of the updates given.
Between(steps) == {SessionUser[s] : s \in {t \in Sessions : \E step \in steps : At(t, step)}}
UserWritten == Between(WeeklySteps \ {"user"})

\* ResetWeeklyRewardsJob is three statements; a retry starts with the first.
ResetUsers ==
    /\ user' = [u \in Users |-> [user[u] EXCEPT !.weekly = 0]]
    /\ reset' = "users"
    /\ overtaken' = overtaken \cup UserWritten
    /\ UNCHANGED <<points, spent, redemption, req, admin, mailing>>

ResetGroups ==
    /\ reset = "users"
    /\ weekly' = [weekly EXCEPT !.group = 0]
    /\ reset' = "groups"
    /\ UNCHANGED <<rows, ledger, earned, spent, user, redemption, req, admin,
                   overtaken, mailing>>

\* What overtook requests that have ended is over: the membership is zero.
ResetMembers ==
    /\ reset = "groups"
    /\ weekly' = [weekly EXCEPT !.member = [u \in Users |-> 0]]
    /\ reset' = "idle"
    /\ overtaken' = (overtaken \cap UserWritten) \cup Between({"memberWeekly"})
    /\ UNCHANGED <<rows, ledger, earned, spent, user, redemption, req, admin, mailing>>

-----------------------------------------------------------------------------
Proceed(s) == \/ Insert(s) \/ Delete(s) \/ Earn(s) \/ Lose(s)
              \/ UserWeekly(s) \/ ReadGroup(s) \/ GroupWeekly(s)
              \/ ReadMember(s) \/ MemberWeekly(s)
              \/ Total(s) \/ Save(s) \/ CreateReward(s)

Next ==
    \/ \E s \in Sessions : \/ \E e \in Events : Attend(s, e) \/ Unattend(s, e)
                           \/ Redeem(s)
                           \/ Proceed(s)
    \/ \E r \in Redemptions : Approve(r) \/ Forfeit(r) \/ Mailer(r)
    \/ ApproveTotal \/ ApproveSave
    \/ ResetUsers \/ ResetGroups \/ ResetMembers

\* An approval that was started ends, and a job that was enqueued is run.
Fairness ==
    /\ WF_vars(ApproveTotal \/ ApproveSave)
    /\ \A r \in Redemptions : WF_vars(Mailer(r))

Spec == Init /\ [][Next]_vars /\ Fairness

-----------------------------------------------------------------------------
(* Properties.                                                             *)

OneSessionEach == \A s, t \in Sessions : SessionUser[s] = SessionUser[t] => s = t
Quiet(u) == \A s \in Sessions : SessionUser[s] = u => req[s] = NoRequest

\* Between the requests of a user who has one session, the points shown are
\* the sum of the ledger, whatever the administrator and the jobs do meanwhile.
PointsAreTheLedger ==
    OneSessionEach => \A u \in Users : Quiet(u) => user[u].points = earned[u]

\* ... and the ledger holds for every event what attending it gave at the
\* time, or nothing when the user does not attend it (any more), however often
\* the points of the action were edited in between.
EarnedIfAttending ==
    OneSessionEach => \A u \in Users : Quiet(u) => \A e \in Events :
        /\ Cardinality(rows[u][e]) <= 1
        /\ ledger[u][e].net = IF rows[u][e] = {} THEN 0 ELSE ledger[u][e].last

\* Between requests and resets, the weekly total of a user with one session is
\* at least their total as a member of a group, unless a reset came between the
\* request's update of the user and that of the membership: its first statement
\* at any point there, or its last between reading the membership and writing it.
MemberWithinUser ==
    OneSessionEach => \A u \in Users :
        Quiet(u) /\ reset = "idle" /\ u \notin overtaken =>
            weekly.member[u] <= user[u].weekly

\* A user with one session redeems what was earned and not spent yet: credits
\* become negative only when points are taken back.
OnlyRemovalOverdraws ==
    [][OneSessionEach => \A u \in Users :
         Credits(u) >= 0 /\ Credits(u)' < 0 =>
            \E s \in Sessions : SessionUser[s] = u /\ Lose(s)]_vars

\* redemption_spec.rb, 'when user does not have enough credits does not create
\* user_reward': a reward is not created for more than the user's credits.
RedeemedWithinCredits ==
    [][\A s \in Sessions : CreateReward(s) => Credits(SessionUser[s]) >= req[s].cost]_vars

\* After a decision about a reward its user is mailed the status that stands
\* then, that of the decision or of a later one.
DecisionIsMailed ==
    \A r \in Redemptions :
        redemption[r].status \in {"redeemed", "forfeited"} ~> r \in told
=============================================================================
