--------------------------- MODULE GroupMembership ---------------------------
(***************************************************************************)
(* The membership of one user in the default mentor group: user_group.rb,  *)
(* group_leader.rb, group_members_controller.rb, the mentorship page, and  *)
(* DefaultMentorGroupMemberUpdateJob.                                      *)
(*                                                                         *)
(* A row of user_groups and the flags mentor and mentee of the user follow *)
(* each other: creating or destroying a row sets both flags, and a change  *)
(* of a flag enqueues a job that creates or destroys rows.  The job keeps  *)
(* the flags as they were; the queue does not run jobs in order.           *)
(***************************************************************************)
EXTENDS Integers, Sequences, SequencesExt, FiniteSets

CONSTANTS
    Webs,         \* application processes
    Threads,      \* Sidekiq threads
    InOrder,      \* whether jobs are taken in the order they were enqueued
    MaxRows,      \* bound: ids of user_groups
    MaxActs,      \* bound: requests that change something
    MaxJobs,      \* bound: jobs that wait
    MaxFails,     \* bound: processes that are killed
    Idle

ASSUME ProcessAssumption ==
    /\ IsFiniteSet(Webs) /\ IsFiniteSet(Threads)
    /\ Webs # {} /\ Webs \cap Threads = {}
ASSUME QueueAssumption == InOrder \in BOOLEAN
ASSUME BoundAssumption ==
    MaxRows \in Nat \ {0} /\ MaxActs \in Nat /\ MaxJobs \in Nat /\ MaxFails \in Nat

VARIABLES
    rows,         \* user_groups: "none" where there is no row
    leader,       \* whether the user has a row in group_leaders
    pending,      \* pending_users of the group: "enabled" or "disabled"
    flags,        \* mentor and mentee of the user
    jobs,         \* jobs waiting: whether one of the flags was set
    proc,         \* what each process holds
    acts,
    fails,
    disturbed     \* history: two handlers overlapped, or one was killed

settings == <<leader, pending>>
vars == <<rows, settings, flags, jobs, proc, acts, fails, disturbed>>

Procs  == Webs \cup Threads
RowIds == 1..MaxRows
Flags  == [mentor: BOOLEAN, mentee: BOOLEAN]
Both(b) == [mentor |-> b, mentee |-> b]
Wants(f) == f.mentor \/ f.mentee

\* found: rows still to be written or destroyed; as: accepted_member to store;
\* seen: the flags as loaded; to: the flags to store; led: the leader as read.
Work == [op: {"create", "accept", "destroy", "set", "lead"},
         step: {"load", "push", "commit"}, found: SUBSET RowIds,
         as: {"pending", "accepted"}, seen: Flags, to: Flags, led: BOOLEAN]

ASSUME IdleAssumption == Idle \notin Work

TypeOK ==
    /\ rows \in [RowIds -> {"none", "pending", "accepted"}]
    /\ leader \in BOOLEAN
    /\ pending \in {"enabled", "disabled"}
    /\ flags \in Flags
    /\ jobs \in Seq(BOOLEAN)
    /\ proc \in [Procs -> Work \cup {Idle}]
    /\ acts \in 0..MaxActs
    /\ fails \in 0..MaxFails
    /\ disturbed \in BOOLEAN

Present == {i \in RowIds : rows[i] # "none"}

\* Mutant of IsMember: pending members are overlooked.
IsAcceptedMember == \E i \in RowIds : rows[i] = "accepted"

IsMember == Present # {}
First(S) == {i \in S : \A j \in S : i <= j}

Busy(p)     == proc[p] # Idle
At(p, step) == Busy(p) /\ proc[p].step = step
Does(p, op) == Busy(p) /\ proc[p].op = op

\* The user is a member or not, and membership and flags agree.
Init ==
    /\ pending \in {"enabled", "disabled"}
    /\ flags \in Flags
    /\ \E how \in IF pending = "enabled" THEN {"pending", "accepted"} ELSE {"accepted"} :
          rows = [i \in RowIds |-> IF i = 1 /\ Wants(flags) THEN how ELSE "none"]
    /\ leader \in {FALSE, \E i \in RowIds : rows[i] = "accepted"}
    /\ jobs = <<>>
    /\ proc = [p \in Procs |-> Idle]
    /\ acts = 0
    /\ fails = 0
    /\ disturbed = FALSE

-----------------------------------------------------------------------------
(* What a request or a job looks up before its transaction.                *)

\* Mutant of Acceptance: accepted_member is left null.
AcceptanceUnset == IF pending = "disabled" THEN "accepted" ELSE "null"

Acceptance == IF pending = "disabled" THEN "accepted" ELSE "pending"

Begun(op, step, found, to) ==
    [op |-> op, step |-> step, found |-> found, as |-> Acceptance,
     seen |-> flags, to |-> to, led |-> leader]

\* Process p takes on work; that it overlaps another is remembered.
Hold(p, work) ==
    /\ proc' = [proc EXCEPT ![p] = work]
    /\ disturbed' = (disturbed \/ \E q \in Procs \ {p} : Busy(q))

Request(w) == ~Busy(w) /\ acts < MaxActs /\ acts' = acts + 1

\* A member who joins again gets accepted_member as the setting now is.
Join(w) ==
    /\ Request(w)
    /\ \/ /\ ~IsMember
          /\ Hold(w, Begun("create", "load", {}, flags))
       \/ \E i \in Present :
             /\ rows[i] # Acceptance
             /\ Hold(w, Begun("accept", "load", {i}, flags))
    /\ UNCHANGED <<rows, settings, flags, jobs, fails>>

Leave(w) ==
    /\ Request(w)
    /\ \E i \in Present : Hold(w, Begun("destroy", "load", {i}, flags))
    /\ UNCHANGED <<rows, settings, flags, jobs, fails>>

\* The mentorship page stores what was ticked, if it differs.
Choose(w) ==
    /\ Request(w)
    /\ \E to \in Flags \ {flags} : Hold(w, Begun("set", "push", {}, to))
    /\ UNCHANGED <<rows, settings, flags, jobs, fails>>

\* A leader must have an accepted row, which is validated.
Lead(w) ==
    /\ Request(w)
    /\ ~leader
    /\ \E i \in Present : rows[i] = "accepted"
    /\ Hold(w, Begun("lead", "commit", {}, flags))
    /\ UNCHANGED <<rows, settings, flags, jobs, fails>>

Everybody(how) == [i \in RowIds |-> IF i \in Present THEN how ELSE "none"]

\* An administrator takes the role away; accepts a member; or changes
\* pending_users, and disabling it accepts everybody.
Unlead ==
    /\ leader' = FALSE
    /\ UNCHANGED <<rows, pending>>
Accept(i) ==
    /\ rows' = [rows EXCEPT ![i] = "accepted"]
    /\ UNCHANGED settings
SwitchPending ==
    /\ pending' = IF pending = "enabled" THEN "disabled" ELSE "enabled"
    /\ rows' = IF pending' = "enabled" THEN rows ELSE Everybody("accepted")
    /\ UNCHANGED leader
Administer(w) ==
    /\ Request(w)
    /\ (leader /\ Unlead) \/ (\E i \in Present : rows[i] = "pending" /\ Accept(i))
          \/ SwitchPending
    /\ UNCHANGED <<flags, jobs, proc, fails, disturbed>>

\* What a job does next: destroy every row, create one, or nothing.
Task(wants) ==
    IF wants THEN IF IsMember THEN {} ELSE {Begun("create", "load", {}, flags)}
    ELSE IF IsMember THEN {Begun("destroy", "load", Present, flags)} ELSE {}

Perform(t) ==
    /\ ~Busy(t)
    /\ \E i \in 1..Len(jobs) :
          /\ InOrder => i = 1
          /\ jobs' = RemoveAt(jobs, i)
          /\ IF Task(jobs[i]) = {} THEN UNCHANGED <<proc, disturbed>>
             ELSE \E work \in Task(jobs[i]) : Hold(t, work)
    /\ UNCHANGED <<rows, settings, flags, acts, fails>>
-----------------------------------------------------------------------------
(* The transactions.                                                       *)

Goes(p, step) == proc' = [proc EXCEPT ![p].step = step]
Ends(p)       == proc' = [proc EXCEPT ![p] = Idle]

\* Uniqueness is validated before the row is inserted; a job that fails the
\* validation is retried.  The user is loaded by then, and gets both flags.
LoadCreate(p) ==
    /\ At(p, "load") /\ Does(p, "create")
    /\ IF IsMember
       THEN Ends(p) /\ jobs' = IF p \in Threads THEN Append(jobs, TRUE) ELSE jobs
       ELSE /\ proc' = [proc EXCEPT ![p].step = "push", ![p].seen = flags,
                                    ![p].to = Both(TRUE)]
            /\ UNCHANGED jobs
    /\ UNCHANGED <<rows, settings, flags>>

\* Mutant of LoadDestroy: the role stays.
LoadDestroyKeepingRole(p) ==
    /\ At(p, "load") /\ Does(p, "destroy")
    /\ proc' = [proc EXCEPT ![p].step = "push", ![p].seen = flags,
                            ![p].to = Both(FALSE), ![p].led = FALSE]
    /\ UNCHANGED <<rows, settings, flags, jobs>>

\* The transaction of the first row found begins, whether it is still there or
\* not: its leaders and its user are read.
LoadDestroy(p) ==
    /\ At(p, "load") /\ Does(p, "destroy")
    /\ proc' = [proc EXCEPT ![p].step = "push", ![p].seen = flags,
                            ![p].to = Both(FALSE), ![p].led = leader]
    /\ UNCHANGED <<rows, settings, flags, jobs>>

\* accepted_member of a row that is there and the only one.
StoreAcceptance(p) ==
    /\ At(p, "load") /\ Does(p, "accept")
    /\ rows' = IF Present = proc[p].found
               THEN [i \in RowIds |-> IF i \in Present THEN proc[p].as ELSE "none"]
               ELSE rows
    /\ Ends(p)
    /\ UNCHANGED <<settings, flags, jobs>>

\* Mutant of Changes: only the flag mentor is looked at.
ChangesMentor(work) == work.to.mentor # work.seen.mentor

Changes(work) == work.to # work.seen
Waits(p) ==
    \E q \in Procs \ {p} :
       /\ At(q, "commit")
       /\ \/ Changes(proc[p]) /\ Changes(proc[q])
          \/ /\ Does(p, "destroy") /\ Does(q, "destroy")
             /\ First(proc[p].found) = First(proc[q].found)

\* Mutant of Push: the job is told the flags that were.
PushStale(p) ==
    /\ At(p, "push")
    /\ ~Waits(p)
    /\ Changes(proc[p]) => Len(jobs) < MaxJobs
    /\ jobs' = IF Changes(proc[p]) THEN Append(jobs, Wants(proc[p].seen)) ELSE jobs
    /\ Goes(p, "commit")
    /\ UNCHANGED <<rows, settings, flags>>

\* Mutant of Push: a job for each flag that changed.
PushPerFlag(p) ==
    /\ At(p, "push")
    /\ ~Waits(p)
    /\ Changes(proc[p]) => Len(jobs) < MaxJobs
    /\ jobs' = IF Changes(proc[p]) THEN Append(jobs, Wants(proc[p].to)) \o
                  (IF proc[p].to.mentor # proc[p].seen.mentor
                      /\ proc[p].to.mentee # proc[p].seen.mentee
                   THEN <<Wants(proc[p].to)>> ELSE <<>>)
               ELSE jobs
    /\ Goes(p, "commit")
    /\ UNCHANGED <<rows, settings, flags>>

\* The row and the user are written, and after_update enqueues the job if a flag
\* changed: before the commit.  Whoever wrote one of them first holds its lock.
Push(p) ==
    /\ At(p, "push")
    /\ ~Waits(p)
    /\ Changes(proc[p]) => Len(jobs) < MaxJobs
    /\ jobs' = IF Changes(proc[p]) THEN Append(jobs, Wants(proc[p].to)) ELSE jobs
    /\ Goes(p, "commit")
    /\ UNCHANGED <<rows, settings, flags>>

\* Only a flag that differs from the one loaded is written.
Stored(work) ==
    LET New(old, seen, to) == IF to = seen THEN old ELSE to IN
    [mentor |-> New(flags.mentor, work.seen.mentor, work.to.mentor),
     mentee |-> New(flags.mentee, work.seen.mentee, work.to.mentee)]

Fresh == RowIds \ (Present \cup UNION {proc[q].found : q \in {q \in Procs : Busy(q)}})

CommitCreate(p) ==
    /\ At(p, "commit") /\ Does(p, "create")
    /\ \E i \in First(Fresh) : rows' = [rows EXCEPT ![i] = proc[p].as]
    /\ flags' = Stored(proc[p])
    /\ Ends(p)
    /\ UNCHANGED <<settings, jobs>>

CommitDestroy(p) ==
    /\ At(p, "commit") /\ Does(p, "destroy")
    /\ \E i \in First(proc[p].found) :
          /\ rows' = [rows EXCEPT ![i] = "none"]
          /\ proc' = IF proc[p].found = {i} THEN [proc EXCEPT ![p] = Idle]
                     ELSE [proc EXCEPT ![p].step = "load", ![p].found = @ \ {i}]
    /\ leader' = (leader /\ ~proc[p].led)
    /\ flags' = Stored(proc[p])
    /\ UNCHANGED <<pending, jobs>>

CommitChoice(p) ==
    /\ At(p, "commit") /\ Does(p, "set")
    /\ flags' = Stored(proc[p])
    /\ Ends(p)
    /\ UNCHANGED <<rows, settings, jobs>>

\* The group is saved with its leaders, which accepts everybody when disabled.
CommitLeader(p) ==
    /\ At(p, "commit") /\ Does(p, "lead")
    /\ leader' = TRUE
    /\ rows' = IF pending = "enabled" THEN rows ELSE Everybody("accepted")
    /\ Ends(p)
    /\ UNCHANGED <<pending, flags, jobs>>

Commit(p) == CommitCreate(p) \/ CommitDestroy(p) \/ CommitChoice(p) \/ CommitLeader(p)

Proceed(p) ==
    /\ LoadCreate(p) \/ LoadDestroy(p) \/ StoreAcceptance(p) \/ Push(p) \/ Commit(p)
    /\ UNCHANGED <<acts, fails, disturbed>>

\* A process is killed: its transaction is rolled back, a job it pushed stays.
\* Sidekiq puts the job back when it shuts down, and loses it when killed.
Stop(p) ==
    /\ Busy(p)
    /\ fails < MaxFails
    /\ fails' = fails + 1
    /\ jobs' \in {jobs} \cup IF p \in Threads THEN {Append(jobs, Does(p, "create"))} ELSE {}
    /\ Ends(p)
    /\ disturbed' = TRUE
    /\ UNCHANGED <<rows, settings, flags, acts>>

Ask(w) == Join(w) \/ Leave(w) \/ Choose(w) \/ Lead(w) \/ Administer(w)

Next ==
    \/ \E w \in Webs : Ask(w)
    \/ \E t \in Threads : Perform(t)
    \/ \E p \in Procs : Proceed(p) \/ Stop(p)

\* Requests end, Sidekiq runs what waits, and locks are granted in turn.
Fairness ==
    /\ \A p \in Procs : SF_vars(Proceed(p))
    /\ \A t \in Threads : WF_vars(Perform(t))

Spec == Init /\ [][Next]_vars /\ Fairness

-----------------------------------------------------------------------------
Creating == {p \in Procs : Does(p, "create") /\ ~At(p, "load")}

\* However requests and jobs overlap or die, the user is in the group at most as
\* often as there are processes: uniqueness is validated, not enforced.
RowsWithinProcs == Cardinality(Present) + Cardinality(Creating) <= Cardinality(Procs)

\* When no two handlers overlapped, a membership that disagrees with the flags
\* has a job on its way that was enqueued for the flags as they are.
Doing(b) == \E p \in Threads : Busy(p) /\ Does(p, "create") = b
Told(b)  == (\E i \in 1..Len(jobs) : jobs[i] = b) \/ Doing(b)
DisagreementIsTold ==
    (~disturbed /\ \A p \in Procs : ~At(p, "commit")) =>
       (IsMember # Wants(flags) => Told(Wants(flags)))

\* A job has at most one follow-up: when no two handlers overlapped, there are
\* never more jobs than requests that were made.
JobsDoNotMultiply ==
    ~disturbed =>
       Len(jobs) + Cardinality({t \in Threads : Busy(t) /\ ~At(t, "commit")}) <= acts

\* When no two handlers overlapped, a leader of the group is in the group.
LeaderIsMember == (~disturbed /\ leader) => IsMember

\* Jobs that all want the same come to an end, unless somebody asks for more.
Unanimous(b) ==
    /\ \A i \in 1..Len(jobs) : jobs[i] = b
    /\ \A p \in Procs : Busy(p) => (p \in Threads /\ Does(p, "create") = b)
Quiet == jobs = <<>> /\ \A p \in Procs : ~Busy(p)
AgreeingJobsEnd ==
    \A b \in BOOLEAN : Unanimous(b) ~> (Quiet \/ \E w \in Webs : Busy(w))

\* The last choice of a user decides: whether the user is a member settles.
MembershipSettles == <>[]IsMember \/ <>[]~IsMember
=============================================================================
