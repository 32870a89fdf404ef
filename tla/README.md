# Verification of the Diverst platform

Diverst is a Rails 4.2 application in which the employees of an enterprise meet
in groups: groups ask for money and spend it on events, members earn points and
redeem them for rewards, mentor each other, answer polls and campaigns. MySQL
holds the state, Sidekiq runs the jobs (five threads, at least once, in any
order), `clock.rb` enqueues the periodic ones, and Puma serves requests in
several processes or threads.

Almost nothing in the code locks a row or encloses an operation in one
transaction: an action of a controller is a sequence of ActiveRecord saves, each
a transaction of its own, working on copies of rows that were read earlier. That
is what this project is about. It models the parts that keep money, points,
votes and memberships, and the video meetings of events, whose pages negotiate
with a media server; it model-checks them with TLC and proves the main safety
properties with TLAPS.

## Inventory

| Component | State | Operations | What is hard | Module |
|---|---|---|---|---|
| Event funding | `budgets`, `budget_items`, funding columns of `initiatives`, `groups.leftover_money` | create, approve, decline, destroy a request; create, edit, restore, re-assign, finish, destroy an event | overlapping saves, stale copies, saving twice, negative amounts | `EventFunding` |
| Annual budgets | `annual_budgets`, `groups.annual_budget` and `leftover_money`, the `annual_budget_id` of requests, events, expenses | edit, approve, reset!, carry_over!, re_assign; callbacks of budgets, events, expenses | an operation is several transactions; callbacks in between; crashes; two ways to find the open row | `AnnualBudgets` |
| Rewards | `user_reward_actions`, `user_rewards`, `users.points/credits`, `total_weekly_points` of users, groups, memberships | attend, leave, redeem, approve, forfeit, mail, weekly reset | caches of a ledger, stale users, edited prices, repeated jobs | `Rewards` |
| Group membership | `user_groups`, `group_leaders`, `users.mentor/mentee` | join, accept, leave, add, lead, import, default mentor group job | check then create, jobs with old arguments, jobs that cause jobs | `GroupMembership` |
| Segments | `users_segments`, `segments.job_status` | edit rules, rebuild members (job, hourly) | two jobs of a segment, a status that is not a job's own, a commit without its job | `SegmentCache`, `SegmentMembers` |
| Mentoring | `mentoring_requests`, `mentorings`, `mentoring_sessions` | request, accept, decline, schedule, cancel, rate, remind | accept twice, reminders that are not sent | left out |
| Polls | `polls.email_sent`, `poll_responses` | publish, respond, notify | sending twice | left out |
| Campaigns | `campaigns.status`, `answers`, `answer_upvotes`, `likes` | answer, vote, like, close, solve | one vote from two pages, points for votes sent again | `CampaignVotes` |
| Video meetings | the page of a meeting in each tab, `video_rooms`, `video_participants`, the peer connections in the bundled `twilio_video.js` | open, join, leave, be expelled, register and report a meeting; offer, answer, renegotiate, restart ICE | messages that cross, offers that collide, pages that are closed half-way, a meeting reported twice or never | `VideoRooms`, `PeerConnection` |
| Roles and permissions | `user_roles`, `policy_group_templates`, `policy_groups`, leaders' columns | change a role, update a template, reset | a job walks over users while they change | left out |
| Group notifications, files and imports, news feed, metrics, integrations, front end | - | - | read-only queries, files, other services, one record at a time | left out |

The components meet in three places. Saving an event (EventFunding) writes the
leftover that the annual budget code recomputes, and an event belongs to the
annual budget its item was approved in (AnnualBudgets). Attending an event
(Rewards), voting (Campaigns) and joining a group by invitation (membership) all
call the points manager. The meeting of an event is opened from the page of the
event; nothing else looks at its record but the billing. Membership, segments
and roles decide who may act and who sees what; in the modules about money and
points they are only the premise that a request is authorised.

What makes each component correct: an item is not given out twice and a used up
one stays used up; a group has one current annual budget, its figures are the
sums they claim to be, closed budgets are records; points are the ledger,
credits are spent once, decisions are mailed; points are added for votes that
stand, and only for those; nobody is a member twice or against their last
choice; a segment's members are eventually those its rules select; whoever stays
in a meeting sees who is there, and a meeting is reported once; both ends of a
connection agree in the end. The list `hazards` of PROJECT.json gives the lines
where these can go wrong and the properties that look at them.

## Modules

`EventFunding`. One group's requests (`budget`), items (`item`), events
(`event`), its leftover, the open annual budget (`year`, a number) and what each
application process holds in memory (`req`). A save of an event is
`LoadCreate`/`LoadUpdate`/`LoadResave` (the form is filled, the event read),
possibly `Reassign`, then `Read` (the callback reads the item or the leftover)
and `Commit` or `Refuse`. Every other request is one step, taken only when some
process is free, so one process serialises everything and two overlap.
`SavedItem` and `Saves` carry the details of ActiveRecord that matter: only
changed columns are written, the reader of `available_amount` returns 0 for a
used up item, and `budget_item.save` is the value of the `before_save` callback,
so that an item whose validation fails (`ItemIsValid`) halts the save of the
event, which writes nothing. `re_assign_annual_budget` does not look at the
result of its own save: refused, it changes nothing and the request goes on.
Approving a request writes `annual_budget_id` back from a hidden field, which is
blank when the page was opened from a mail or the activity feed (`Pages`): the
request then belongs to no annual budget, and can neither be approved again nor
take events of another. Abstracted: approval and re-assignment are one step
each; the guard that compares a request with the annual budget is in
AnnualBudgets; whatever the annual budget code writes to the leftover is a
choice from `Leftovers`; `is_private` only narrows the offered items, which any
requester may be the owner of; `MaxMoney` is the largest value of a
`decimal(8,2)` column.

`AnnualBudgets`. The rows of `annual_budgets` (`annual`), the two columns of the
group, requests, events and expenses with the annual budget each belongs to, and
the operation of an administrator in flight (`admin`): `Edit`, `ApproveRequest`,
`BeginReset`, `BeginCarryOver`, followed by `Snapshot`, `Close`, `CreateNew`,
`CarryAmount`, `SetGroup`, `Clear`, `ClearRow`, one transaction each. Other
requests come between any two of them, and `Stop` ends the process anywhere.
The manager and the controllers look for the open row through the enterprise,
the callbacks do not and create it without one: `EnterpriseRows` and `OpenRows`
keep the difference. `ClearRow` writes zero over the figures that were not zero
when the row was loaded (`Cleared`), so a figure written in between may stay.
Approving leaves the request in its annual budget or in none, as above (`Pages`).
`Whole` drops the cents that `annual_budgets` cannot store.
One administrator acts at a time, and `find_or_create_by` is one step.

`Rewards`. The attendance rows, the ledger (for each event its net and its
latest addition, and its sum for the user), the rewards with their status and
sum, the caches (`user`, `weekly`), the requests in flight (`req`), the approval
in flight (`admin`), and the jobs. A session serves one request at a time; a
user with two sessions has two browsers, or clicked twice. Attending is
`Attend`, `Insert`, `Earn`; leaving `Unattend`, `Delete`, `Lose`; both go on
with the weekly totals, one step for each read and each update that others can
come between (`UserWeekly`, `ReadGroup`, `GroupWeekly`, `ReadMember`,
`MemberWeekly`), then `Total` and `Save`; redeeming is `Redeem`, `CreateReward`.
`Save` writes only what differs from the user as loaded. `Approve`,
`ApproveTotal`, `ApproveSave` and `Forfeit` are the administrator's; `Mailer`
may run again (`jobs'` may keep the job); the weekly reset is three statements,
and `ResetUsers` may start it again at any time. `overtaken` is a history
variable: the users for whom a reset came between the update of their total and
that of the membership's. The price of the action is any of `Worths` at every
use. Abstracted: `Lose` reads the latest addition and inserts the removal in one
step, since only requests of the same user write that part of the ledger; a new
row has the least id that no row and no request of the user has; the mail job
enqueued by the mailer is part of `Mailer`; the action attend_event exists;
records are valid; a request is not killed half-way.

`SegmentMembers`. What other parts expect of a segment: its members change one
user at a time or all go with it, and settle to those selected once the segment
and the users have settled.

`SegmentCache`. One segment (`segment`: status, filter, rules), the users
(`data`), the number of rows of each user in `users_segments` (`rows`), the jobs
that wait (`jobs`, a number, since a job carries only the id), what each Sidekiq
thread holds (`job`) and what each process that saves the segment holds
(`caller`). A save is `Load`, `Save`, `Enqueue`; the clock's has one `Enqueue`
more, for the second `perform_later` of `update_all_members`. `Saved` writes the
columns that differ from those loaded, so a segment loaded as active keeps the
status it has meanwhile. A job is `Start` (the row), `ReadUsers` (all users, and
which of them pass the filter), `Select` (the rules, read for the first of
those), `Compare` (the old members, a relation that is read only then), then
`Remove`, `Ask`, `Insert` or `Raise` for each user, and `Finish`. `StopJob` and
`StopCaller` end either half-way: a job returns to the queue or, killed, is
lost; a caller's job is never enqueued. Abstracted: of what selects members, the
filter and one set of accepted values; group rules, order rules and the limit,
which the job reads next, stand behind the same set. Left out: users that are
destroyed, sub-segments, and Elasticsearch. `IsSegmentMembers` says that the
module implements `SegmentMembers`; the mapping shows the members of a segment
that exists, and takes the row, the rules and the users together as the source.

`GroupMembership`. One user and the default mentor group: the rows of
`user_groups` (`rows`), the leader's row (`leader`), `pending_users` (`pending`),
the flags `mentor` and `mentee` (`flags`), the jobs of
DefaultMentorGroupMemberUpdateJob with the flags they were told (`jobs`) and what
each process holds (`proc`). Requests are `Join` (which also stores
`accepted_member` again for somebody who is a member), `Leave`, `Choose` (the
mentorship page), `Lead` and `Administer`; `Perform` takes a job. Each ends in a
transaction of three steps: `LoadCreate`, `LoadDestroy` or `StoreAcceptance`
reads what the callbacks look at, `Push` writes and enqueues the job (the
`after_update` runs before the commit; `Waits` is the lock of the row), `Commit`
makes it visible. `Stop` kills a process, rolls its transaction back and leaves
the job it pushed. Abstracted: a request to remove a member is a `Leave`; the
job is told whether one flag was set, which is all it looks at; leadership is
a boolean.

`CampaignVotes`. The votes for one answer: `answer_upvotes` (`upvotes`) and
`likes` of each user, the votes that points were added for (`paid`), whether the
question is solved, and the request of each session (`req`). The news feed's
`Like` creates an upvote, pays and stores the like; `Unlike` finds the first
upvote, destroys the like and then the upvote; the campaign page's `Vote` and
`Unvote` find, create or destroy, and pay. Steps of a request are `Find`,
`Create`, `Pay`, `StoreLike`, `DropLike` (by the id of the like it found, so
that a like stored again meanwhile stays), `DropVote`; `StopRequest` ends one
between any two. Abstracted: points are the fact that some were added for a
vote; the totals computed from them are those of `Rewards`.

`VideoRooms`. The meeting of one event: each tab's page (`page`), what Twilio has
of it (`seat`, `room`), messages on the way (`accept`, `inbox`), what the tab
holds back while it connects (`held`), `room.participants` (`sees`) and the
participants it saw leave (`parted`), its two requests (`register`, `report`),
and the tables (`rows`, `status`, `recorded`). `Open`, `Joined`, `Receive`,
`Leave` are the page with Room, RoomV2 and Transport; `Validate`/`Insert` are
`register_room_in_db`, `Fetch`/`Create`/`Store` `update_registered_room_in_db`,
`EndMeeting`/`Expel` `end_virtual_meeting`. `Kill` ends a tab without a word,
`Lose` drops a request of a page that moves on. Twilio is external and modelled
from how the code uses it: `Admit`, `Part`, `Complete`, and messages to a tab in
order. Abstracted: tracks, reconnecting, and the dominant speaker.

`PeerConnection`. One peer connection (`pc`): the fields of PeerConnectionV2
that decide what happens, the signaling state of the RTCPeerConnection it wraps,
and `todo`, what is left of the chain of promises that holds the lock of the
state machine. `waiting` is who awaits the lock. `Begin` gives it to the next
call, whose `Handle` is `_updateDescription` with `HandleOffer`, `HandleGlare`,
`HandleAnswer`, `HandleCreateOffer`; the calls of WebRTC are actions
(`CreateOffer`, `SetOffer`, `Rollback`, `SetRemoteOffer`, `SetAnswer`,
`SetRemoteAnswer`) with the states in which WebRTC accepts them (`Accepted`),
and `Drain`, `MaybeReoffer`, `Reoffer` are the rest of the chain. `Reject` is a
call that fails for another reason. `ChangeTracks`, `Break` (ICE fails) and
`Close` come at any time. The server (`ServerReceive`, `ServerAnswer`,
`ServerAsk`) is external: what the code says it relies on is that it does not
yield when both offer, except to the first offer. Abstracted: a description is
its number and the tracks it carries; candidates and encodings are left out.

The `MC` modules give the constants their values. The `Proofs` modules hold the
theorems.

## What the runs check

| Run | Question | Answer |
|---|---|---|
| `EventFundingSerial` | One process, two requests with an item each, two events, two annual budgets. Can saving again and again promise more of an item than its estimate? Can a finished event change its item? | Only a second approval, or an event that brings its funding along to an item of nothing, overcommits (`ReapprovalOrMoveOvercommits`); a finished event keeps its item and what it has of it (`FinishedEventKeepsItem`). |
| `EventFundingConcurrent` | Two processes, one event, amounts of -1 and 1, of which the first can make an item invalid. Does an item leave its bounds, or come back after it was used up? | No (`ItemWithinEstimate`, `UsedUpStaysUsedUp`). |
| `EventFundingLostUpdate` | Is funding always subtracted from the item? | Violated: two overlapping saves lose one subtraction. |
| `AnnualBudgets` | Two annual budgets, a request, an event, an expense, interrupted operations. | One open row of each kind (`OneOpenRow`), closed rows are never written (`ClosedForGood`), figures, cents dropped, go wrong only by moving an event that has expenses or by clearing a row that got one (`FiguresGoWrongByMoveOrClear`). |
| `Rewards` | A user with one session, two rewards, an administrator, jobs that repeat. | Points are the ledger (`PointsAreTheLedger`), the ledger is what attending gave (`EarnedIfAttending`), the membership's weekly total is at most the user's, unless a reset came between the update of one and that of the other (`MemberWithinUser`), credits become negative only when points are taken back (`OnlyRemovalOverdraws`), after a decision its user is mailed the status that stands (`DecisionIsMailed`). |
| `RewardsDoubleSpend` | Two sessions of one user: is a reward created only within the credits? | Violated. |
| `SegmentCache` | One user, an administrator, the clock, two threads, one process or job that stops half-way. | It is a `SegmentMembers` (`IsSegmentMembers`: whatever overlapped, members settle to those selected), nobody is in it more often than there are threads (`RowsWithinThreads`), an active segment is being cached (`ActiveIsBeingCached`) and does not stay active (`WaitingEnds`). |
| `GroupMembership` | One process, two threads, jobs in any order, one process killed, two requests that change something. | Rows stay within the processes (`RowsWithinProcs`). When no two handlers overlapped, a membership that disagrees with the flags has a job that was told them as they are (`DisagreementIsTold`), jobs do not multiply (`JobsDoNotMultiply`) and a leader is a member (`LeaderIsMember`). Jobs that agree come to an end (`AgreeingJobsEnd`). |
| `GroupMembershipSettles` | Does the last choice of a user settle, with one thread that takes jobs in order? | Violated: the jobs of two opposite changes undo each other for ever. |
| `CampaignVotes` | Two sessions of a user on both pages, the question solved at any time, a process that stops. | A user whose requests do not cross has one upvote, and one more for a like (`UpvotesWithinLikes`); every vote that stands was rewarded or is about to be (`StandingVotesArePaid`); points are added for no other, unless requests cross (`PointsForStandingVotes`). |
| `VideoRooms` | Two tabs of managers, two rooms, a tab killed or a request lost, a meeting ended by a manager. | Whoever stays ends up seeing exactly those who are there (`WhoStaysSeesAll`); the last one reports the meeting (`LastOneReports`) and nobody is billed twice (`BilledOnce`), unless leavings crossed or, for the second, somebody came back. |
| `PeerConnection` | A change of tracks, three offers or requests of the server, one failure of ICE, one call that WebRTC rejects, a close at any time. | Calls are made in the states they are made for (`CallsAreAccepted`); an answer is applied to the offer it answers (`AnswersOwnOffer`); who waits for an answer has offered, and what was asked for meanwhile waits for it (`WaitsForAnswer`); everything is negotiated in the end (`EverythingIsNegotiated`), also a restart that was rolled back (`OfferedRestartEnds`). |

Every property of a passing run has a mutant in PROJECT.json: an operator that
changes one definition as a plausible bug would, under which TLC finds the
property violated.

### Bounds

Estimates of 2 and asks of 1 (also of -1 in the concurrent run) give an item
that is used up in two goes, asked again and refilled; the serial run adds items
estimated at nothing, which an event may move to. Two requests with an item each
are what a change of item and of annual budget needs, two events what promising
an item twice needs, two processes what a stale read needs. Two annual budgets
(`MaxYears`) are one closing and one opening, and also the two open rows that a
callback causes. Requests are approved from both `Pages`, except in the serial
run, which is about approving again: a request without an annual budget cannot
be. `Totals`, `Costs` and `Amounts` leave room for a request within the budget,
and a `Unit` of 2 with a total of 1 and costs of 3 makes the columns of sums
drop a part, of negative ones too. Prices {1, 2} change between earning and
losing, `MaxWeekly` stops attendances (never other steps) once a weekly total
reached it, and two rewards of 2 points can be bought with what two attendances
give. Members of a segment are independent of each other, so one user shows what
rows can do; two threads and a queue of one (`MaxJobs`, which delays enqueueing)
are a stale job next to a fresh one, with a third waiting; two filters and two
sets of rules are what a torn read needs; `MaxFails` lets one thing stop.

Two requests (`MaxActs`) in GroupMembership are two opposite changes, which is
what crosses; four ids (`MaxRows`) are more than the processes can fill, three
jobs (`MaxJobs`, which delays enqueueing) are those of both changes and a
follow-up. In CampaignVotes two sessions of one user, who is not the author, are
what crosses (users share only `solved`), and four rows are two upvotes with two
more that requests still point to. In VideoRooms two tabs see each other join,
leave together and come back, in the same room or in the next of two; three tabs
without kills and endings satisfy the same properties, which was tried and is not
a run. In PeerConnection one
change of tracks and one break of ICE can each come before, between and after
three offers of the server, which are enough for two crossings and a late answer;
one rejected call can be any of them.

Deadlock is checked except where the system may really stop: AnnualBudgets,
where no row can be opened beyond `MaxYears`; GroupMembership, when the requests
are spent and the queue is empty; VideoRooms, when everybody has left;
PeerConnection, which is negotiated or closed. Symmetry is used for events,
workers, requests and sessions in runs without liveness. The theorems remove the
bounds.

### Fairness

Five modules have liveness. In `Rewards`, `Fairness` says that an approval which
was started ends and that an enqueued RewardMailerJob is run (Sidekiq takes jobs
from the queue and retries those that fail). Nothing obliges users or the
administrator to act, a request of a user to end, nor the weekly reset to
finish. In `SegmentCache` Sidekiq goes on while there is something to run, on
whichever thread (one of them may hang), and the clock comes back every hour and
ends what it started; a request of an administrator may hang at any step.
Without the refresh members would not settle, because saving a user enqueues
nothing and a stale job may write last. In `GroupMembership` threads take jobs
(weak) and every process goes on; that is strong fairness, because a process may
have to wait for a row that others lock again and again, and InnoDB grants locks
in turn. In `VideoRooms` Twilio admits, notices who has gone and delivers, and
requests that reached the server end; nobody has to join, leave or end the
meeting. In `PeerConnection` promises of WebRTC settle and whoever awaits the
lock gets it (the lock is a promise, which the event loop resolves), messages
arrive (a TCP connection while it lasts) and the server answers an offer it
accepts; nothing fair makes tracks change, connections break or the server ask.
EventFunding, AnnualBudgets and CampaignVotes state safety only: a request that
stopped half-way is not resumed by anybody.

## What is proved

TLAPS checks every leaf; sizes, amounts, users and interleavings are arbitrary.

`EventFundingProofs`: `TypeCorrect`, `ItemsWithinEstimate`, `UsedUpForGood`,
`FinishedEventsKeep`, `PromisesKept`.
`ItemWithinEstimate` is not inductive, because a save writes back what it read
some time ago. `IInv` adds `SeenWithinEstimate`: what a request holds of an item
is between nothing and the item's estimate, and a request that can still write
holds an item of a budget that exists. Estimates do not change while a request
exists, so the fact survives every other step; `SavedItemWithin` does the
arithmetic, and the validation, whose refusal halts the save (`Saves`), covers
negative amounts. That a used up item stays
used up follows from `IInv` and the shape of `SavedItem`: no save writes `is_done`
back to false.

The other two are about serialised requests: their hypothesis `OneWorker` says
that there is one process, and `EventFundingLostUpdate` shows what happens
otherwise. `SerialInv` says what that buys: what a request has read is still so
(`Fresh`). `PromisesKept` compares an item with a sum over events, so it needs
more: `MoneyInv` says that an item which is not used up has money left, unless
it was estimated at nothing (`MoneyLeft`), and that an event has not gained
funding since its form was read (`Honest`). A save then adds to the sum at most
what the item loses (`SavedItemTakes`). Its second hypothesis,
`NoNegativeAmounts`, is that nobody types a negative funding and that the annual
budget code leaves no negative leftover; the code refuses neither, and TLC finds
the property violated when a leftover is -1. `SumUnfolds`, `SumsAgree` and the
lemmas after them say what `SumFunctionOnSet` of the community modules is: its
recursion has one solution on the subsets of a finite set, so a sum changes by
what its members change by. They are proved by least counterexamples, because an
induction scheme cannot be instantiated.

`AnnualBudgetsProofs`: `OneOpenAnnualBudget`, `ClosedAnnualBudgetIsKept`,
`TypeCorrect`, `FiguresStayRight`. The first two need no figures. Their
invariant `IInv` says that the table is a table, that at most one row of each
kind is open, and `RowIsOpen`: the row an interrupted operation remembers is
still open, since only that operation closes rows. `Extends` and its lemmas say
once what finding-or-creating and refreshing do to the table. `TInv` adds the
types, `Linked` (a request that was made and a snapshot that is due belong to an
annual budget, an expense that counts to an event) and `Unused` (a row that is
not there has no figures, so creating one disturbs none). `FiguresStayRight`
then needs no arithmetic but that of `Whole` (`WholeParts`): whoever writes sums
writes those of the state it leaves (`CallbackWrites`, `WrittenIsRight`), and
whoever writes none leaves the expenses that count alone (`SpentSame`), unless
it moves an event that has some.

`VideoRoomsProofs`: `TypeCorrect`, `LastOneIsReported`, `BilledOnceEach`. What
makes `LastOneReports` true is in the future: the last one to leave a room must
see nobody when it leaves. `WillSee` is what a tab is going to see once it has
handled the messages on the way to it and those it holds back. The invariant
`VInv` says that whoever is in a room is going to see exactly the others who are
(`SeesRoom`, which rests on the order of the messages, `Sorted` and `EndLast`,
and on what they can be about, `Hears`). From it follow that a tidy room all
have left has somebody who has reported or is going to (`SomeoneLast`), that
nobody else has when the room was not joined again (`OneLast`), and that only
that report writes participants (`Recording`). `Stages` says how far each tab's
page and requests are; `RowsCount` bounds the rows of a room by its managers.
What a tab sees after the updates it held back is a recursive function over a
sequence: `AfterUnfolds` and `AfterFollows` say what it tells of each tab.

`RewardsProofs`: `TypeCorrect`, `PointsCorrect`, `NoDoubleSpending`,
`LedgerFollowsAttendance`, `WeeklyTotalsAgree`. The type invariant is
strengthened by `Owned` (an approval is about a reward somebody redeemed) and
`Placed` (a request that will write to an event has one). `PointsOf` is what is
true of a session's user at each step of the request: what it loaded is what is
stored, the stored points are the ledger until `Earn` or `Lose`, and at `Save`
the total it holds is the ledger; at `CreateReward` the user has the credits. It
holds because nobody else writes `users.points` or spends that user's credits
when the user has one session (`PointsElsewhere`, `PointsOthers`); with two
sessions it fails, as `RewardsDoubleSpend` shows. `EarnedInv` does the same for
the ledger: `Fits` relates, per step of a request, the attendance row it found
or inserted and what the ledger holds of the event. `WeeklyInv` is about the
weekly totals: users are cleared and then memberships, while a request updates
its user and, later, the membership, each from what it read. For a user whom no
reset overtook, `WeeklyFor` says what holds at each step: before the request
updates the user, the total it loaded is no less than the membership's; between
that update and the membership's, what the membership is going to get, from its
present total or from zero, is no more than the user's; and at the last step the
total read is still the membership's. A reset in that stretch breaks it, which
is why the property names it: when the user is updated, the reset runs, and the
membership is read as zero and updated, the membership ends above its user. Both
parts of the exception were tried and are needed.

`SegmentCacheProofs`: `TypeCorrect`, `RowsBounded`, `ActiveSegmentsAreCached`,
`StepsOfSegmentMembers`. That rows stay within the threads is not inductive: two
threads may be about to insert when there is no row yet. `RowsInv` counts the
rows of a user and the insertions that are due together; a thread gets one due
only while there is no row, and an insertion turns one into the other. `Prepared`
strengthens the types (an insertion has a user), and `NextJob` says once what the
steps of a job keep. `StepsOfSegmentMembers` is the safety part of the
implementation; `Fresh` (an unsaved segment has no members and no job) is what
creating one needs.

`CampaignVotesProofs`: `TypeCorrect`, `VotesArePaid`, `PointsForVotes`,
`UpvotesFollowLikes`. `PaysForVotes` says that a request which will pay has an
upvote that stands, as long as the user's requests do not cross: then only the
request itself creates or destroys upvotes (`OneAtATime`, `Alone`). The bound on
upvotes is not inductive: `CountInv` adds `Kept`, what a request at each step has
found and nobody else can have changed.

`GroupMembershipProofs`: `TypeCorrect`, `RowsBounded`, `LeadersStay`,
`FlagsAreTold`, `JobsBounded`. As with segments, rows and the creations that
passed their validation are counted together. The other three are about
executions in which no two handlers overlapped, and follow from one invariant,
`Calm`: one process at most holds something (`OnlyOne`), what it has read is still
so (`Sound`), a disagreement has been told (`Informed`), and the jobs with the
task under way do not exceed the requests made (`Counted`).

`PeerConnectionProofs`: `TypeCorrect`, `ChainsAreAccepted`,
`OffersAreRemembered`, `AnswersFit`. The chain of calls is data, which is why
the proof needs to know what chains look like: `Chain` says which call may come
after which (`After`), and `ChainTail` and `ChainConcat` that taking the first
call and putting calls in front keep it. `InOrder` then says that the signaling
state and the flags fit the call at the head; every method of the connection
preserves it (`OfferingOrder`, `HandleOrder`, `ProceedOrder`). It is stated for
`fails = 0`, since a chain that WebRTC cut short leaves the flags where they
were.

`AnswersFit` is about the numbering of descriptions. An answer is accepted when
its revision is the connection's, and revisions alone do not tell offers apart,
because the connection takes over a lower one when it yields to the server.
`MInv` says what does: the messages of each direction are in order (`InTurn`),
the server has seen nothing that was not sent (`Seen`), each description that
can still be handled fits the offer it would be applied to (`Fits`), and the
server answers none of the offers that crossed its own (`Crossing`), since it
does not yield but to the first. It is an invariant of runs with any number of
rejected calls.

Assumptions on constants: `BudgetOfAssumption`, `AmountAssumption`,
`PagesAssumption`, `SourceAssumption`, `FiniteAssumption` (finitely many events)
and `IdleAssumption` of EventFunding, `BoundAssumption`, `AmountAssumption`,
`PagesAssumption` and `FiniteAssumption` (finitely many requests and expenses,
as any table holds) of AnnualBudgets, `SessionAssumption`, `PointsAssumption`,
`RowsAssumption` and `IdleAssumption` of Rewards, `SourceAssumption`,
`ProcessAssumption` (finitely many threads), `BoundAssumption` and
`IdleAssumption` of SegmentCache, `ProcessAssumption`, `QueueAssumption`,
`BoundAssumption` and `IdleAssumption` of GroupMembership, `SessionAssumption`,
`RowsAssumption` and `IdleAssumption` of CampaignVotes, `BoundAssumption` of
PeerConnection, `TabAssumption`, `NoneAssumption` and `BoundAssumption` of
VideoRooms: types of constants, non-negative prices (the models validate them),
processes that are finitely many, and model values that differ from data.
`OneWorker` and `NoNegativeAmounts` are hypotheses of the theorems that name
them, and not assumptions of the module: the concurrent run has neither.

Three proofs that did not go through corrected the project. An event that moves
to an item estimated at nothing brings its funding along and overcommits it
(`MovesFunding`): the rule had named the second approval only, and no estimate
of the run was nothing. `Whole` of a negative amount was rounded down, where the
column drops its decimals. And the figures of AnnualBudgets had been compared
without the part that two columns drop, in a run whose amounts were all whole.

Model-checked only:

- all liveness, which is out of the prover's reach: `DecisionIsMailed`,
  `WaitingEnds`, that members of a segment settle (the liveness of
  `IsSegmentMembers`), `AgreeingJobsEnd`, `EverythingIsNegotiated`,
  `OfferedRestartEnds`, `WhoStaysSeesAll`.

## Observed while modelling

Reading the code for the models showed these; no run checks them. Money:

- The budget of an event that has finished can still change when it is funded by
  the leftover, or when its item is destroyed (`initiative.rb`), although the form
  treats it as closed.
- After an event with expenses moves to another annual budget,
  `approved_budget_leftover` is no longer the same as `available_budget`.
- `reset!` creates an annual budget; when a callback has created another one in
  between, the later lookups find that one first.
- A request approved from a mail or the activity feed loses its annual budget
  (`show.html.erb:85`, `budgets_controller.rb:63`): no sum counts it, and approving
  it again fails.
- A reset of the weekly totals that comes between two updates of a request leaves
  a membership with more points than its user (`manager.rb:56`).
- `max_attendees` is compared and then a row inserted: two users can take the last
  place.

Memberships and votes:

- Two jobs of a segment can each insert the same user; the number of threads is
  the bound (`RowsWithinThreads`).
- Somebody who ticks only one of mentor and mentee has both once the job has
  created the membership.
- Posting the join form again makes an accepted member pending
  (`group_members_controller.rb:62`).
- `user_answers_controller.rb:13` says one cannot vote for one's own answer; the
  like of the news feed asks neither this nor whether the question is solved.
- Taking back the like of a post destroys the like and then fails on the upvote
  that is not there (`likes_controller.rb:28`). Taking back a vote ends in an
  error, because points are added to a row that was destroyed.
- The job that reminds of mentoring sessions sends nothing: its block is ignored.

Meetings:

- `register_room_in_db` authorises although its comment says it does not;
  `update_registered_room_in_db` never does, so it writes and then fails in
  `verify_authorized`. A report that arrives before the row exists fails on nil,
  as does billing without a duration. A `before_action` lists `end_video_meeting`,
  which is not the name of the action.
- Two who leave at once see each other and neither reports the meeting.
- A restart of ICE asked for while an offer is being created is not offered: the
  flag is reset by the offer, which does not carry the restart. The property
  `OfferedRestartEnds` is therefore about restarts that were offered.
- A `createOffer` or `setLocalDescription` that is rejected leaves the connection
  waiting for an answer to an offer it never made: hence `fails = 0` in the
  properties.
- `Transport.sync()` of the bundle is never called.

## Not modelled

Authorisation, validations of texts, files, mails' contents, Elasticsearch, and
the services behind Outlook, Twilio, Yammer, Slack and SAML. Of rewards, the
callers of the points manager other than attendance and votes; they add points
once, after the row they are for. Two administrators at once, and the race
inside `find_or_create_by`. Of memberships, invitations with their points and
CSV imports, which write the same rows by the same save, and
`join_all_sub_groups`. Of campaigns, answers, comments, expenses, and likes of
posts.

Mentoring: accepting a request is three saves under validations of uniqueness,
of the same shape as joining a group. Polls: the notifier mails everybody and
then sets `email_sent`; a repeated job mails again, and nothing in the code
promises otherwise. Roles: the jobs copy a template to users one row at a time
while rows change; the next update repairs what was crossed.

JavaScript. The logic of the application is Ruby. Of the 22 scripts in
`app/assets/javascripts`, 21 fill in and decorate forms (831 lines together);
the 22nd, `twilio_video.js`, has 27852 lines and is a bundle of twilio-video
1.20.1, SIP.js and shims for browsers. What the meetings of this application
depend on is modelled from it: the negotiation of a peer connection, the
participants of a room and its signaling. The rest of the bundle (media tracks,
statistics, parsing of SDP, the transactions of SIP, adapters of browsers) has
no state that the application looks at.

## Plan

1. `EventFunding`, `AnnualBudgets`, `Rewards` with their runs and proofs: done,
   `EarnedIfAttending` and `MemberWithinUser` included.
2. `SegmentCache` and `SegmentMembers`, with runs and proofs: done. Left: destroyed
   users, whose rows a stale job may bring back, and group rules with a limit.
3. `GroupMembership`: done, with proofs.
4. `CampaignVotes`: done, with proofs.
5. `VideoRooms` and `PeerConnection`: done, with proofs.
6. Every invariant and action property of the runs is a theorem, except those that
   are liveness. What would come next: `Mentoring`, `PollNotification`,
   `RolePropagation` in the manner of the modules above.
