----------------------------- MODULE SegmentCache -----------------------------
(***************************************************************************)
(* The cached members of a segment: segment.rb, segments_controller.rb,    *)
(* cache_segment_members_job.rb and the hourly refresh of clock.rb.        *)
(*                                                                         *)
(* Every save of a segment sets its job_status and, once committed,        *)
(* enqueues a job that computes the members and stores the difference.     *)
(* The job carries nothing but the id of the segment, so jobs are counted. *)
(* Sidekiq runs as many at once as it has threads; nothing keeps two jobs  *)
(* of a segment apart.                                                     *)
(***************************************************************************)
EXTENDS Integers, FiniteSets

CONSTANTS
    Users,
    Values,       \* values of the field that field rules look at
    RuleSets,     \* field rules: the values they accept
    Filters,      \* active_users_filter
    Profiles,     \* what users have: active or not, and the value
    Webs,         \* application processes that serve the administrators
    Clock,        \* the clock process
    Threads,      \* Sidekiq threads
    MaxJobs,      \* bound: jobs that wait in the queue
    MaxFails,     \* bound: jobs and processes that stop half-way
    Idle

ASSUME SourceAssumption ==
    /\ Filters \subseteq {"both_active_and_inactive", "only_active", "only_inactive"}
    /\ Values \in RuleSets /\ RuleSets \subseteq SUBSET Values
    /\ Profiles \subseteq [active: BOOLEAN, value: Values]
ASSUME ProcessAssumption == Clock \notin Webs /\ IsFiniteSet(Threads)
ASSUME BoundAssumption == MaxJobs \in Nat /\ MaxFails \in Nat

VARIABLES
    segment,      \* the row: job_status, active_users_filter; and its rules
    data,         \* the users
    rows,         \* users_segments: rows of the segment for each user
    jobs,         \* CacheSegmentMembersJob waiting
    job,          \* what each thread holds
    caller,       \* what each process that saves the segment holds
    fails

work == <<jobs, job>>
vars == <<segment, data, rows, work, caller, fails>>

Callers == Webs \cup {Clock}
\* status and filter are as loaded, until the save; the clock needs no filter.
Saving  == [step: {"save", "enqueue", "again"},
            status: {"active", "inactive", Idle}, filter: Filters \cup {Idle}]
Seen    == UNION {[S -> Values] : S \in SUBSET Users}
\* filter is used by "users"; seen has the values, as loaded, of those who pass
\* it; at "compare", add holds all of new_members.
Job     == [step: {"users", "rules", "compare", "write", "insert"},
            filter: Filters \cup {Idle}, seen: Seen, remove: SUBSET Users,
            add: SUBSET Users, user: Users \cup {Idle}]

ASSUME IdleAssumption == Idle \notin Saving /\ Idle \notin Job

TypeOK ==
    /\ segment \in [status: {"unsaved", "active", "inactive", "destroyed"},
                    filter: Filters, rules: RuleSets]
    /\ data \in [Users -> Profiles]
    /\ rows \in [Users -> Nat]
    /\ jobs \in Nat
    /\ job \in [Threads -> Job \cup {Idle}]
    /\ caller \in [Callers -> Saving \cup {Idle}]
    /\ fails \in 0..MaxFails

Live    == segment.status \in {"active", "inactive"}
Members == {u \in Users : rows[u] > 0}

\* Segment#general_rules_followed_by?
Passes(filter, active) ==
    /\ filter = "only_active" => active
    /\ filter = "only_inactive" => ~active

\* The values of the users, as they were loaded, that pass the filter,
Passing(filter, users) ==
    [u \in {v \in Users : Passes(filter, users[v].active)} |-> users[u].value]

\* ... and those of them whom the field rules select.
Matching(seen, rules) == {u \in DOMAIN seen : seen[u] \in rules}

Init ==
    /\ segment \in [status: {"unsaved"}, filter: Filters, rules: {Values}]
    /\ data \in [Users -> Profiles]
    /\ rows = [u \in Users |-> 0]
    /\ jobs = 0
    /\ job = [t \in Threads |-> Idle]
    /\ caller = [c \in Callers |-> Idle]
    /\ fails = 0

-----------------------------------------------------------------------------
(* Saving a segment: administrators, and once an hour the clock.           *)

At(c, step) == caller[c] # Idle /\ caller[c].step = step
Loaded(c) == [step |-> "save", status |-> segment.status,
              filter |-> IF c = Clock THEN Idle ELSE segment.filter]
Committed == [step |-> "enqueue", status |-> Idle, filter |-> Idle]

Create(c) ==
    /\ segment.status = "unsaved"
    /\ caller[c] = Idle
    /\ \E filter \in Filters, rules \in RuleSets :
          segment' = [status |-> "active", filter |-> filter, rules |-> rules]
    /\ caller' = [caller EXCEPT ![c] = Committed]
    /\ UNCHANGED <<data, rows, work, fails>>

\* Mutant of Load: the clock takes only segments flagged active.
LoadFlagged(c) ==
    /\ Live
    /\ c = Clock => segment.status = "active"
    /\ caller[c] = Idle
    /\ caller' = [caller EXCEPT ![c] = Loaded(c)]
    /\ UNCHANGED <<segment, data, rows, work, fails>>

\* Mutant of Load: the clock skips segments flagged active.
LoadUnflagged(c) ==
    /\ Live
    /\ c = Clock => segment.status = "inactive"
    /\ caller[c] = Idle
    /\ caller' = [caller EXCEPT ![c] = Loaded(c)]
    /\ UNCHANGED <<segment, data, rows, work, fails>>

Load(c) ==
    /\ Live
    /\ caller[c] = Idle
    /\ caller' = [caller EXCEPT ![c] = Loaded(c)]
    /\ UNCHANGED <<segment, data, rows, work, fails>>

\* Only columns that differ from those loaded are written, and nothing when the
\* row is gone; the callback after the commit is called anyway.
Written(old, new, now) == IF new = old THEN now ELSE new

Saved(seen, filter, rules) ==
    IF ~Live THEN segment
    ELSE [status |-> Written(seen.status, "active", segment.status),
          filter |-> Written(seen.filter, filter, segment.filter),
          rules  |-> rules]

\* Mutant of Save: no callback unless the filter or the rules change.
SaveUnlessSame(c) ==
    /\ At(c, "save")
    /\ IF c = Clock THEN segment' = Saved(caller[c], Idle, segment.rules)
       ELSE \E filter \in Filters, rules \in RuleSets :
               segment' = Saved(caller[c], filter, rules)
    /\ caller' = [caller EXCEPT ![c] =
          IF c # Clock /\ segment'.filter = segment.filter /\ segment'.rules = segment.rules
          THEN Idle ELSE Committed]
    /\ UNCHANGED <<data, rows, work, fails>>

Save(c) ==
    /\ At(c, "save")
    /\ IF c = Clock THEN segment' = Saved(caller[c], Idle, segment.rules)
       ELSE \E filter \in Filters, rules \in RuleSets :
               segment' = Saved(caller[c], filter, rules)
    /\ caller' = [caller EXCEPT ![c] = Committed]
    /\ UNCHANGED <<data, rows, work, fails>>

\* The clock enqueues a second job after the one of the callback.
Enqueue(c) ==
    /\ At(c, "enqueue") \/ At(c, "again")
    /\ jobs < MaxJobs
    /\ jobs' = jobs + 1
    /\ caller' = [caller EXCEPT ![c] =
          IF c = Clock /\ At(c, "enqueue") THEN [@ EXCEPT !.step = "again"] ELSE Idle]
    /\ UNCHANGED <<segment, data, rows, job, fails>>

\* The rules go with the segment, and so do its rows in users_segments.
Destroy(c) ==
    /\ Live
    /\ caller[c] = Idle
    /\ segment' = [segment EXCEPT !.status = "destroyed", !.rules = Values]
    /\ rows' = [u \in Users |-> 0]
    /\ UNCHANGED <<data, work, caller, fails>>

\* Saving a user enqueues nothing.
ChangeUser(u) ==
    /\ \E profile \in Profiles \ {data[u]} : data' = [data EXCEPT ![u] = profile]
    /\ UNCHANGED <<segment, rows, work, caller, fails>>

-----------------------------------------------------------------------------
(* CacheSegmentMembersJob, and Segment#update_members.                     *)

Runs(t, step) == job[t] # Idle /\ job[t].step = step

\* Mutant of Start: a thread runs a job nobody enqueued.
StartUnasked(t) ==
    /\ job[t] = Idle
    /\ jobs' = jobs - 1
    /\ job' = IF ~Live THEN job
              ELSE [job EXCEPT ![t] =
                 [step |-> "users", filter |-> segment.filter, seen |-> <<>>,
                  remove |-> {}, add |-> {}, user |-> Idle]]
    /\ UNCHANGED <<segment, data, rows, caller, fails>>

\* find_by_id; a segment that is gone ends the job.
Start(t) ==
    /\ job[t] = Idle
    /\ jobs > 0
    /\ jobs' = jobs - 1
    /\ job' = IF ~Live THEN job
              ELSE [job EXCEPT ![t] =
                 [step |-> "users", filter |-> segment.filter, seen |-> <<>>,
                  remove |-> {}, add |-> {}, user |-> Idle]]
    /\ UNCHANGED <<segment, data, rows, caller, fails>>

\* After the row of the segment its users are read, by one query; nobody asks
\* for the rules when none passes the filter.
ReadUsers(t) ==
    /\ Runs(t, "users")
    /\ LET seen == Passing(job[t].filter, data)
       IN  job' = [job EXCEPT ![t].step = IF seen = <<>> THEN "compare" ELSE "rules",
                              ![t].filter = Idle, ![t].seen = seen]
    /\ UNCHANGED <<segment, data, rows, jobs, caller, fails>>

\* The rules are read for the first user and kept for the others.
Select(t) ==
    /\ Runs(t, "rules")
    /\ job' = [job EXCEPT ![t].step = "compare", ![t].seen = <<>>,
                          ![t].add = Matching(job[t].seen, segment.rules)]
    /\ UNCHANGED <<segment, data, rows, jobs, caller, fails>>

\* old_members, a relation, is read when it is subtracted from.
Compare(t) ==
    /\ Runs(t, "compare")
    /\ job' = [job EXCEPT ![t].step = "write",
                          ![t].remove = Members \ job[t].add,
                          ![t].add = job[t].add \ Members]
    /\ UNCHANGED <<segment, data, rows, jobs, caller, fails>>

\* Every row of a member is destroyed, in one transaction.
Remove(t) ==
    /\ Runs(t, "write")
    /\ \E u \in job[t].remove :
          /\ rows' = [rows EXCEPT ![u] = 0]
          /\ job' = [job EXCEPT ![t].remove = @ \ {u}]
    /\ UNCHANGED <<segment, data, jobs, caller, fails>>

\* exists? asks first.
Ask(t) ==
    /\ Runs(t, "write") /\ job[t].remove = {}
    /\ \E u \in job[t].add :
          job' = IF rows[u] > 0
                 THEN [job EXCEPT ![t].add = @ \ {u}]
                 ELSE [job EXCEPT ![t].step = "insert", ![t].user = u]
    /\ UNCHANGED <<segment, data, rows, jobs, caller, fails>>

\* Mutant of Insert: the insertion may be tried again.
InsertRetried(t) ==
    /\ Runs(t, "insert")
    /\ rows' = [rows EXCEPT ![job[t].user] = @ + 1]
    /\ job' \in {job, [job EXCEPT ![t].step = "write", ![t].user = Idle,
                                  ![t].add = @ \ {job[t].user}]}
    /\ UNCHANGED <<segment, data, jobs, caller, fails>>

Insert(t) ==
    /\ Runs(t, "insert")
    /\ rows' = [rows EXCEPT ![job[t].user] = @ + 1]
    /\ job' = [job EXCEPT ![t].step = "write", ![t].user = Idle,
                          ![t].add = @ \ {job[t].user}]
    /\ UNCHANGED <<segment, data, jobs, caller, fails>>

\* A row that came after exists? may be there when the new row is validated, or
\* not yet; when it is, the job raises and goes back to the queue.
Raise(t) ==
    /\ Runs(t, "insert")
    /\ rows[job[t].user] > 0
    /\ job' = [job EXCEPT ![t] = Idle]
    /\ jobs' = jobs + 1
    /\ UNCHANGED <<segment, data, rows, caller, fails>>

\* set_status, whatever has been saved since the job started.
Finish(t) ==
    /\ Runs(t, "write") /\ job[t].remove = {} /\ job[t].add = {}
    /\ segment' = IF Live THEN [segment EXCEPT !.status = "inactive"] ELSE segment
    /\ job' = [job EXCEPT ![t] = Idle]
    /\ UNCHANGED <<data, rows, jobs, caller, fails>>

-----------------------------------------------------------------------------
(* A job that stops goes back to the queue, unless its process is killed;  *)
(* a process that stops after a commit has not enqueued the job.           *)

StopJob(t) ==
    /\ job[t] # Idle /\ fails < MaxFails
    /\ jobs' \in {jobs, jobs + 1}
    /\ job' = [job EXCEPT ![t] = Idle]
    /\ fails' = fails + 1
    /\ UNCHANGED <<segment, data, rows, caller>>

StopCaller(c) ==
    /\ caller[c] # Idle /\ fails < MaxFails
    /\ caller' = [caller EXCEPT ![c] = Idle]
    /\ fails' = fails + 1
    /\ UNCHANGED <<segment, data, rows, work>>

-----------------------------------------------------------------------------
Perform(t) == \/ Start(t) \/ ReadUsers(t) \/ Select(t) \/ Compare(t)
              \/ Remove(t) \/ Ask(t) \/ Insert(t) \/ Raise(t) \/ Finish(t)
Continue(c) == Save(c) \/ Enqueue(c)

Next ==
    \/ \E c \in Webs : Create(c) \/ Destroy(c)
    \/ \E c \in Callers : Load(c) \/ Continue(c) \/ StopCaller(c)
    \/ \E t \in Threads : Perform(t) \/ StopJob(t)
    \/ \E u \in Users : ChangeUser(u)

\* Sidekiq goes on while there is something to run, and the clock comes back
\* every hour and ends what it started.  Nothing else is promised: one thread may
\* hang while another goes on, and a request of an administrator may never end.
Fairness ==
    /\ WF_work(\E t \in Threads : Perform(t))
    /\ WF_caller(Load(Clock) \/ Continue(Clock))

Spec == Init /\ [][Next]_vars /\ Fairness

-----------------------------------------------------------------------------
(* Properties.                                                             *)

\* However jobs overlap, a user is at most as many times in a segment as there
\* are threads: exactly once when one thread runs the jobs.
RowsWithinThreads ==
    \A u \in Users : rows[u] <= Cardinality(Threads)

\* The page of an active segment waits for a job that exists or is about to be
\* enqueued, as long as nothing has stopped half-way.
ActiveIsBeingCached ==
    segment.status = "active" /\ fails = 0 =>
        \/ jobs > 0
        \/ \E t \in Threads : job[t] # Idle
        \/ \E c \in Callers : At(c, "enqueue")

\* ... and it does not wait for ever, even if something has: the clock saves and
\* enqueues again.
WaitingEnds == segment.status = "active" ~> segment.status # "active"

\* What selects members, and the users it selects.
Sources == [live: BOOLEAN, filter: Filters, rules: RuleSets, data: [Users -> Profiles]]
Source  == [live |-> Live, filter |-> segment.filter, rules |-> segment.rules,
            data |-> data]
SelectedBy(source) ==
    {u \in Users : /\ source.live
                   /\ Passes(source.filter, source.data[u].active)
                   /\ source.data[u].value \in source.rules}

Abstract == INSTANCE SegmentMembers WITH
    Selected <- SelectedBy, source <- Source,
    members <- IF Live THEN Members ELSE {}

\* Edits, stale jobs, overlaps, failures and the refresh together are a cache
\* of the segment's users: it changes user by user, and once the segment and the
\* users have settled it becomes, and stays, what the rules select.
IsSegmentMembers == Abstract!Spec
=============================================================================
