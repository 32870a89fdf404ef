-------------------------- MODULE SegmentCacheProofs --------------------------
(***************************************************************************)
(* For any users, administrators and threads: types, how often a user can  *)
(* be in a segment, that an active segment is being cached, and that every *)
(* step is one of SegmentMembers.                                          *)
(***************************************************************************)
EXTENDS SegmentCache, FiniteSetTheorems, TLAPS

\* What an insertion needs, and what the clock has not read.
Prepared ==
    /\ \A t \in Threads : Runs(t, "insert") => job[t].user \in Users
    /\ At(Clock, "save") => caller[Clock].filter = Idle

TInv == TypeOK /\ Prepared

LEMMA InitTInv ==
    ASSUME Init PROVE TInv
  <1>1. segment \in [status: {"unsaved", "active", "inactive", "destroyed"},
                     filter: Filters, rules: RuleSets]
    BY SourceAssumption DEF Init
  <1>2. TypeOK
    BY <1>1, BoundAssumption DEF Init, TypeOK
  <1>3. Prepared
    BY DEF Init, Prepared, Runs, At, Callers
  <1> QED BY <1>2, <1>3 DEF TInv

\* Steps of the processes that save the segment.
LEMMA CallerTInv ==
    ASSUME TInv, NEW c \in Callers,
           (c \in Webs /\ (Create(c) \/ Destroy(c))) \/ Load(c) \/ Continue(c) \/ StopCaller(c)
    PROVE  TInv'
  <1> USE IdleAssumption DEF TInv, TypeOK
  <1>1. CASE Create(c) /\ c \in Webs
    <2>1. Committed \in Saving
      BY DEF Committed, Saving
    <2>2. TypeOK'
      BY <1>1, <2>1 DEF Create, work
    <2>3. Prepared'
      BY <1>1, ProcessAssumption DEF Create, Prepared, Runs, At, work, Committed
    <2> QED BY <2>2, <2>3
  <1>2. CASE Destroy(c)
    <2>1. TypeOK'
      BY <1>2, SourceAssumption DEF Destroy, work
    <2>2. Prepared'
      BY <1>2 DEF Destroy, Prepared, Runs, At, work
    <2> QED BY <2>1, <2>2
  <1>3. CASE Load(c)
    <2>1. Loaded(c) \in Saving
      BY <1>3 DEF Loaded, Saving, Load, Live
    <2>2. TypeOK'
      BY <1>3, <2>1 DEF Load, work
    <2>3. Prepared'
      BY <1>3, ProcessAssumption DEF Load, Loaded, Prepared, Runs, At, work
    <2> QED BY <2>2, <2>3
  <1>4. CASE Save(c)
    <2>1. Committed \in Saving
      BY DEF Committed, Saving
    <2>2. segment' \in [status: {"unsaved", "active", "inactive", "destroyed"},
                        filter: Filters, rules: RuleSets]
      <3>1. CASE c = Clock
        BY <1>4, <3>1 DEF Save, Saved, Written, Prepared, Live
      <3>2. CASE c # Clock
        BY <1>4, <3>2 DEF Save, Saved, Written, Live
      <3> QED BY <3>1, <3>2
    <2>3. TypeOK'
      BY <1>4, <2>1, <2>2 DEF Save, work
    <2>4. Prepared'
      BY <1>4, ProcessAssumption DEF Save, Committed, Prepared, Runs, At, work
    <2> QED BY <2>3, <2>4
  <1>5. CASE Enqueue(c)
    <2>1. caller' \in [Callers -> Saving \cup {Idle}]
      <3>1. caller[c] \in Saving
        BY <1>5 DEF Enqueue, At
      <3>2. [caller[c] EXCEPT !.step = "again"] \in Saving
        BY <3>1 DEF Saving
      <3> QED BY <1>5, <3>2 DEF Enqueue
    <2>2. TypeOK'
      BY <1>5, <2>1 DEF Enqueue
    <2>3. Prepared'
      <3>1. ~At(c, "save")'
        BY <1>5 DEF Enqueue, At, Saving
      <3> QED BY <1>5, <3>1 DEF Enqueue, Prepared, Runs, At
    <2> QED BY <2>2, <2>3
  <1>6. CASE StopCaller(c)
    <2>1. TypeOK'
      BY <1>6, BoundAssumption DEF StopCaller, work
    <2>2. Prepared'
      BY <1>6, ProcessAssumption DEF StopCaller, Prepared, Runs, At, work
    <2> QED BY <2>1, <2>2
  <1> QED BY <1>1, <1>2, <1>3, <1>4, <1>5, <1>6 DEF Continue

\* What a job has seen of the users is the values of some of them.
LEMMA SeenType ==
    ASSUME NEW seen \in Seen PROVE DOMAIN seen \subseteq Users
  BY DEF Seen

LEMMA NobodySeen == <<>> \in Seen
  <1>1. <<>> \in [{} -> Values]
    OBVIOUS
  <1> QED BY <1>1 DEF Seen

LEMMA PassingSeen ==
    ASSUME TInv, NEW filter PROVE Passing(filter, data) \in Seen
  <1> DEFINE S == {v \in Users : Passes(filter, data[v].active)}
  <1>1. \A u \in Users : data[u].value \in Values
    BY SourceAssumption DEF TInv, TypeOK
  <1>2. Passing(filter, data) \in [S -> Values] /\ S \in SUBSET Users
    BY <1>1 DEF Passing
  <1> QED BY <1>2 DEF Seen

\* A job that goes on is a job, and has a user to insert if it inserts next.
LEMMA NextJob ==
    ASSUME TInv, NEW t \in Threads,
           ReadUsers(t) \/ Select(t) \/ Compare(t) \/ Remove(t) \/ Ask(t) \/ Insert(t)
    PROVE  /\ \E new \in Job :
                /\ job' = [job EXCEPT ![t] = new]
                /\ new.step = "insert" => Ask(t) /\ new.user \in Users
           /\ UNCHANGED <<segment, data, jobs, caller, fails>>
           /\ rows' \in [Users -> Nat]
  <1> USE DEF TInv, TypeOK
  <1>0. job[t] \in Job
    BY DEF ReadUsers, Select, Compare, Remove, Ask, Insert, Runs
  <1>1. CASE Select(t)
    <2> DEFINE new == [job[t] EXCEPT !.step = "compare", !.seen = <<>>,
                                     !.add = Matching(job[t].seen, segment.rules)]
    <2>1. job' = [job EXCEPT ![t] = new]
      BY <1>1 DEF Select
    <2>2. Matching(job[t].seen, segment.rules) \subseteq Users
      BY <1>0, SeenType DEF Job, Matching
    <2>3. new \in Job /\ new.step # "insert"
      BY <1>0, <2>2, NobodySeen DEF Job
    <2> HIDE DEF new
    <2> QED BY <1>1, <2>1, <2>3 DEF Select
  <1>6. CASE ReadUsers(t)
    <2> DEFINE seen == Passing(job[t].filter, data)
               new == [job[t] EXCEPT !.step = IF seen = <<>> THEN "compare" ELSE "rules",
                                     !.filter = Idle, !.seen = seen]
    <2>1. job' = [job EXCEPT ![t] = new]
      BY <1>6 DEF ReadUsers
    <2>2. seen \in Seen
      BY PassingSeen
    <2> HIDE DEF seen
    <2>3. new \in Job /\ new.step # "insert"
      BY <1>0, <2>2 DEF Job
    <2> HIDE DEF new
    <2> QED BY <1>6, <2>1, <2>3 DEF ReadUsers
  <1>2. CASE Compare(t)
    <2> DEFINE new == [job[t] EXCEPT !.step = "write",
                                     !.remove = Members \ job[t].add,
                                     !.add = job[t].add \ Members]
    <2>1. job' = [job EXCEPT ![t] = new]
      BY <1>2 DEF Compare
    <2>2. new \in Job /\ new.step # "insert"
      BY <1>0 DEF Job, Members
    <2> HIDE DEF new
    <2> QED BY <1>2, <2>1, <2>2 DEF Compare
  <1>3. CASE Remove(t)
    <2>1. PICK u \in job[t].remove :
              /\ rows' = [rows EXCEPT ![u] = 0]
              /\ job' = [job EXCEPT ![t].remove = @ \ {u}]
      BY <1>3 DEF Remove
    <2> DEFINE new == [job[t] EXCEPT !.remove = @ \ {u}]
    <2>2. job' = [job EXCEPT ![t] = new]
      BY <2>1
    <2>3. job[t].step = "write"
      BY <1>3 DEF Remove, Runs
    <2>4. new \in Job /\ new.step # "insert"
      BY <1>0, <2>3 DEF Job
    <2>5. rows' \in [Users -> Nat]
      BY <2>1
    <2>6. UNCHANGED <<segment, data, jobs, caller, fails>>
      BY <1>3 DEF Remove
    <2> HIDE DEF new
    <2> QED BY <2>2, <2>4, <2>5, <2>6
  <1>4. CASE Ask(t)
    <2>1. PICK u \in job[t].add :
              job' = IF rows[u] > 0
                     THEN [job EXCEPT ![t].add = @ \ {u}]
                     ELSE [job EXCEPT ![t].step = "insert", ![t].user = u]
      BY <1>4 DEF Ask
    <2> DEFINE new == IF rows[u] > 0
                      THEN [job[t] EXCEPT !.add = @ \ {u}]
                      ELSE [job[t] EXCEPT !.step = "insert", !.user = u]
    <2>2. job' = [job EXCEPT ![t] = new]
      BY <2>1
    <2>3. u \in Users /\ job[t].step = "write"
      BY <1>0, <1>4 DEF Ask, Runs, Job
    <2>4. new \in Job /\ (new.step = "insert" => new.user \in Users)
      BY <1>0, <2>3 DEF Job
    <2>5. UNCHANGED <<segment, data, rows, jobs, caller, fails>>
      BY <1>4 DEF Ask
    <2> HIDE DEF new
    <2> QED BY <1>4, <2>2, <2>4, <2>5
  <1>5. CASE Insert(t)
    <2> DEFINE new == [job[t] EXCEPT !.step = "write", !.user = Idle,
                                     !.add = @ \ {job[t].user}]
    <2>1. job' = [job EXCEPT ![t] = new]
      BY <1>5 DEF Insert
    <2>2. job[t].user \in Users
      BY <1>5 DEF Insert, Prepared
    <2>3. new \in Job /\ new.step # "insert"
      BY <1>0 DEF Job
    <2>4. rows' \in [Users -> Nat]
      BY <1>5, <2>2 DEF Insert
    <2>5. UNCHANGED <<segment, data, jobs, caller, fails>>
      BY <1>5 DEF Insert
    <2> HIDE DEF new
    <2> QED BY <2>1, <2>3, <2>4, <2>5
  <1> QED BY <1>1, <1>2, <1>3, <1>4, <1>5, <1>6

\* Steps of the threads.
LEMMA ThreadTInv ==
    ASSUME TInv, NEW t \in Threads, Perform(t) \/ StopJob(t)
    PROVE  TInv'
  <1> USE IdleAssumption DEF TInv, TypeOK
  <1>1. CASE Start(t)
    <2> DEFINE new == [step |-> "users", filter |-> segment.filter, seen |-> <<>>,
                       remove |-> {}, add |-> {}, user |-> Idle]
    <2>1. new \in Job
      BY NobodySeen DEF Job
    <2>2. job' = job \/ job' = [job EXCEPT ![t] = new]
      BY <1>1 DEF Start
    <2>3. TypeOK'
      BY <1>1, <2>1, <2>2 DEF Start
    <2>4. Prepared'
      BY <1>1, <2>2 DEF Start, Prepared, Runs, At
    <2> QED BY <2>3, <2>4
  <1>2. CASE ReadUsers(t) \/ Select(t) \/ Compare(t) \/ Remove(t) \/ Ask(t) \/ Insert(t)
    <2>1. PICK new \in Job : /\ job' = [job EXCEPT ![t] = new]
                             /\ new.step = "insert" => Ask(t) /\ new.user \in Users
      BY <1>2, NextJob
    <2>2. UNCHANGED <<segment, data, jobs, caller, fails>> /\ rows' \in [Users -> Nat]
      BY <1>2, NextJob
    <2>3. TypeOK'
      BY <2>1, <2>2
    <2>4. Prepared'
      BY <2>1, <2>2 DEF Prepared, Runs, At
    <2> QED BY <2>3, <2>4
  <1>3. CASE Raise(t) \/ Finish(t) \/ StopJob(t)
    <2>1. job' = [job EXCEPT ![t] = Idle] /\ UNCHANGED <<data, rows, caller>>
      BY <1>3 DEF Raise, Finish, StopJob
    <2>2. Prepared'
      BY <2>1 DEF Prepared, Runs, At
    <2>3. jobs' \in Nat /\ fails' \in 0..MaxFails
      BY <1>3, BoundAssumption DEF Raise, Finish, StopJob
    <2>4. segment' \in [status: {"unsaved", "active", "inactive", "destroyed"},
                        filter: Filters, rules: RuleSets]
      BY <1>3 DEF Raise, Finish, StopJob
    <2> QED BY <2>1, <2>2, <2>3, <2>4
  <1> QED BY <1>1, <1>2, <1>3 DEF Perform

LEMMA ChangeUserTInv ==
    ASSUME TInv, NEW u \in Users, ChangeUser(u)
    PROVE  TInv'
  BY DEF TInv, TypeOK, ChangeUser, Prepared, Runs, At, work

LEMMA NextTInv ==
    ASSUME TInv, [Next]_vars
    PROVE  TInv'
  <1>1. CASE UNCHANGED vars
    BY <1>1 DEF TInv, TypeOK, Prepared, Runs, At, vars, work
  <1> QED BY <1>1, CallerTInv, ThreadTInv, ChangeUserTInv DEF Next, Callers

\* Every column, job and request keeps its type, whatever overlaps or stops.
THEOREM TypeCorrect == Spec => []TypeOK
  <1>1. TInv => TypeOK
    BY DEF TInv
  <1> QED BY InitTInv, NextTInv, <1>1, PTL DEF Spec

-----------------------------------------------------------------------------
(* How often a user is in the segment.                                     *)

Inserting(u) == {t \in Threads : Runs(t, "insert") /\ job[t].user = u}

\* A thread inserts a user only if there was no row when it asked, so the rows
\* and the insertions that are due are never more than the threads.
RowsInv ==
    \A u \in Users : rows[u] + Cardinality(Inserting(u)) <= Cardinality(Threads)

LEMMA InsertingFinite ==
    ASSUME NEW u
    PROVE  /\ IsFiniteSet(Inserting(u))
           /\ Cardinality(Inserting(u)) \in Nat
           /\ Cardinality(Threads) \in Nat
           /\ Cardinality(Inserting(u)) <= Cardinality(Threads)
  <1>1. Inserting(u) \in SUBSET Threads /\ IsFiniteSet(Threads)
    BY ProcessAssumption DEF Inserting
  <1> QED BY <1>1, FS_Subset, FS_CardinalityType

LEMMA InsertingFiniteNext ==
    ASSUME NEW u
    PROVE  /\ IsFiniteSet(Inserting(u)')
           /\ Cardinality(Inserting(u)') \in Nat
           /\ Cardinality(Inserting(u)') <= Cardinality(Threads)
  <1>1. Inserting(u)' \in SUBSET Threads /\ IsFiniteSet(Threads)
    BY ProcessAssumption DEF Inserting
  <1> QED BY <1>1, FS_Subset, FS_CardinalityType

\* Fewer insertions due and no new row.
LEMMA FewerInserting ==
    ASSUME TInv, RowsInv, NEW u \in Users,
           Inserting(u)' \subseteq Inserting(u), rows'[u] \in Nat, rows'[u] <= rows[u]
    PROVE  rows'[u] + Cardinality(Inserting(u)') <= Cardinality(Threads)
  <1>1. Cardinality(Inserting(u)') <= Cardinality(Inserting(u))
    BY InsertingFinite, FS_Subset
  <1>2. rows[u] + Cardinality(Inserting(u)) <= Cardinality(Threads)
    BY DEF RowsInv
  <1> HIDE DEF Inserting
  <1> QED BY <1>1, <1>2, InsertingFinite, InsertingFiniteNext DEF TInv, TypeOK

LEMMA RowsInvStep ==
    ASSUME TInv, RowsInv, [Next]_vars
    PROVE  RowsInv'
  <1> SUFFICES ASSUME NEW u \in Users
               PROVE  rows'[u] + Cardinality(Inserting(u)') <= Cardinality(Threads)
    BY DEF RowsInv
  <1>0. rows[u] \in Nat
    BY DEF TInv, TypeOK
  <1>1. CASE UNCHANGED <<rows, job>>
    BY <1>0, <1>1, FewerInserting DEF Inserting, Runs
  <1>2. ASSUME NEW c \in Webs, Destroy(c) PROVE rows'[u] + Cardinality(Inserting(u)') <= Cardinality(Threads)
    <2>1. rows'[u] = 0 /\ job' = job
      BY <1>2 DEF Destroy, work
    <2>2. Inserting(u)' \subseteq Inserting(u)
      BY <2>1 DEF Inserting, Runs
    <2> QED BY <1>0, <2>1, <2>2, FewerInserting
  <1>3. ASSUME NEW t \in Threads,
               Start(t) \/ ReadUsers(t) \/ Select(t) \/ Compare(t) \/ Raise(t) \/ Finish(t) \/ StopJob(t)
        PROVE  rows'[u] + Cardinality(Inserting(u)') <= Cardinality(Threads)
    <2>1. rows' = rows
      BY <1>3 DEF Start, ReadUsers, Select, Compare, Raise, Finish, StopJob
    <2>2. /\ \A s \in Threads : s # t => job'[s] = job[s]
          /\ ~Runs(t, "insert")' \/ job' = job
      <3>1. CASE Start(t)
        BY <3>1 DEF Start, Runs, TInv, TypeOK
      <3>2. CASE ReadUsers(t) \/ Select(t) \/ Compare(t)
        <4>1. ~Ask(t)
          BY <3>2 DEF ReadUsers, Select, Compare, Ask, Runs
        <4> QED BY <3>2, <4>1, NextJob DEF Runs, TInv, TypeOK
      <3>3. CASE Raise(t) \/ Finish(t) \/ StopJob(t)
        BY <3>3 DEF Raise, Finish, StopJob, Runs, TInv, TypeOK
      <3> QED BY <1>3, <3>1, <3>2, <3>3
    <2>3. Inserting(u)' \subseteq Inserting(u)
      BY <2>2 DEF Inserting, Runs
    <2> QED BY <1>0, <2>1, <2>3, FewerInserting
  <1>4. ASSUME NEW t \in Threads, Remove(t)
        PROVE  rows'[u] + Cardinality(Inserting(u)') <= Cardinality(Threads)
    <2>1. rows'[u] \in {0, rows[u]}
      BY <1>4 DEF Remove, TInv, TypeOK
    <2>2. /\ \A s \in Threads : s # t => job'[s] = job[s]
          /\ ~Runs(t, "insert")'
      BY <1>4 DEF Remove, Runs, TInv, TypeOK, Job
    <2>3. Inserting(u)' \subseteq Inserting(u)
      BY <2>2 DEF Inserting, Runs
    <2> QED BY <1>0, <2>1, <2>3, FewerInserting
  <1>5. ASSUME NEW t \in Threads, Ask(t)
        PROVE  rows'[u] + Cardinality(Inserting(u)') <= Cardinality(Threads)
    <2>1. PICK v \in job[t].add :
              job' = IF rows[v] > 0
                     THEN [job EXCEPT ![t].add = @ \ {v}]
                     ELSE [job EXCEPT ![t].step = "insert", ![t].user = v]
      BY <1>5 DEF Ask
    <2>2. rows' = rows
      BY <1>5 DEF Ask
    <2>3. CASE rows[u] = 0
      <3> HIDE DEF Inserting
      <3> QED BY <2>2, <2>3, InsertingFinite, InsertingFiniteNext
    <2>4. CASE rows[u] > 0
      <3>1. \A s \in Threads : s # t => job'[s] = job[s]
        BY <2>1 DEF TInv, TypeOK
      <3>2. ~(Runs(t, "insert")' /\ job'[t].user = u)
        <4>1. job[t] \in Job /\ job[t].step = "write"
          BY <1>5 DEF Ask, Runs, TInv, TypeOK
        <4>2. CASE rows[v] > 0
          <5>1. job'[t].step = "write"
            BY <2>1, <4>1, <4>2 DEF Job, TInv, TypeOK
          <5> QED BY <5>1 DEF Runs
        <4>3. CASE ~(rows[v] > 0)
          <5>1. job'[t].user = v
            BY <2>1, <4>1, <4>3 DEF Job, TInv, TypeOK
          <5> QED BY <5>1, <4>3, <2>4
        <4> QED BY <4>2, <4>3
      <3>3. Inserting(u)' \subseteq Inserting(u)
        BY <3>1, <3>2 DEF Inserting, Runs
      <3> QED BY <1>0, <2>2, <3>3, FewerInserting
    <2> QED BY <1>0, <2>3, <2>4
  <1>6. ASSUME NEW t \in Threads, Insert(t)
        PROVE  rows'[u] + Cardinality(Inserting(u)') <= Cardinality(Threads)
    <2>1. /\ \A s \in Threads : s # t => job'[s] = job[s]
          /\ ~Runs(t, "insert")'
      BY <1>6 DEF Insert, Runs, TInv, TypeOK, Job
    <2>2. Inserting(u)' \subseteq Inserting(u) \ {t}
      BY <2>1 DEF Inserting, Runs
    <2>3. CASE job[t].user # u
      <3>1. rows'[u] = rows[u]
        BY <1>6, <2>3 DEF Insert, TInv, TypeOK
      <3> QED BY <1>0, <2>2, <3>1, FewerInserting
    <2>4. CASE job[t].user = u
      <3>1. rows'[u] = rows[u] + 1
        BY <1>6, <2>4 DEF Insert, TInv, TypeOK
      <3>2. t \in Inserting(u)
        BY <1>6, <2>4 DEF Insert, Inserting
      <3>3. /\ IsFiniteSet(Inserting(u) \ {t})
            /\ Cardinality(Inserting(u) \ {t}) = Cardinality(Inserting(u)) - 1
        BY <3>2, InsertingFinite, FS_RemoveElement
      <3>4. Cardinality(Inserting(u)') <= Cardinality(Inserting(u) \ {t})
        BY <2>2, <3>3, FS_Subset
      <3>5. rows[u] + Cardinality(Inserting(u)) <= Cardinality(Threads)
        BY DEF RowsInv
      <3> HIDE DEF Inserting
      <3> QED BY <1>0, <3>1, <3>3, <3>4, <3>5, InsertingFinite, InsertingFiniteNext
    <2> QED BY <2>3, <2>4
  <1>7. CASE \E c \in Callers : \/ c \in Webs /\ Create(c)
                                \/ Load(c) \/ Continue(c) \/ StopCaller(c)
    BY <1>1, <1>7 DEF Create, Load, Continue, Save, Enqueue, StopCaller, work
  <1>8. CASE \E v \in Users : ChangeUser(v)
    BY <1>1, <1>8 DEF ChangeUser, work
  <1>9. CASE UNCHANGED vars
    BY <1>1, <1>9 DEF vars, work
  <1> QED BY <1>2, <1>3, <1>4, <1>5, <1>6, <1>7, <1>8, <1>9 DEF Next, Perform, Callers

\* A user is in a segment at most as often as there are threads; one thread
\* keeps members unique.
THEOREM RowsBounded == Spec => []RowsWithinThreads
  <1>1. Init => RowsInv
    <2> SUFFICES ASSUME Init, NEW u \in Users
                 PROVE  rows[u] + Cardinality(Inserting(u)) <= Cardinality(Threads)
      BY DEF RowsInv
    <2>1. rows[u] = 0
      BY DEF Init
    <2> HIDE DEF Inserting
    <2> QED BY <2>1, InsertingFinite
  <1>2. TInv /\ RowsInv => RowsWithinThreads
    <2> SUFFICES ASSUME TInv, RowsInv, NEW u \in Users
                 PROVE  rows[u] <= Cardinality(Threads)
      BY DEF RowsWithinThreads
    <2>1. rows[u] \in Nat /\ rows[u] + Cardinality(Inserting(u)) <= Cardinality(Threads)
      BY DEF TInv, TypeOK, RowsInv
    <2> HIDE DEF Inserting
    <2> QED BY <2>1, InsertingFinite
  <1> QED BY InitTInv, NextTInv, RowsInvStep, <1>1, <1>2, PTL DEF Spec

-----------------------------------------------------------------------------
(* An active segment is being cached.                                      *)

LEMMA CachedStep ==
    ASSUME TInv, ActiveIsBeingCached, [Next]_vars
    PROVE  ActiveIsBeingCached'
  <1> USE IdleAssumption
  <1>0. jobs \in Nat /\ fails \in Nat
    BY BoundAssumption DEF TInv, TypeOK
  <1>1. ASSUME NEW c \in Webs, Create(c) PROVE ActiveIsBeingCached'
    <2>1. At(c, "enqueue")'
      <3>1. Committed \in Saving
        BY DEF Committed, Saving
      <3>2. caller'[c] = Committed
        BY <1>1 DEF Create, TInv, TypeOK, Callers
      <3> QED BY <3>1, <3>2 DEF At, Committed
    <2> QED BY <2>1 DEF ActiveIsBeingCached, Callers
  <1>2. ASSUME NEW c \in Webs, Destroy(c) PROVE ActiveIsBeingCached'
    <2>1. segment'.status = "destroyed"
      BY <1>2 DEF Destroy, TInv, TypeOK
    <2> QED BY <2>1 DEF ActiveIsBeingCached
  <1>3. ASSUME NEW c \in Callers, Load(c) PROVE ActiveIsBeingCached'
    <2>1. \A d \in Callers : At(d, "enqueue") => At(d, "enqueue")'
      BY <1>3 DEF Load, At, TInv, TypeOK
    <2> QED BY <1>3, <2>1 DEF ActiveIsBeingCached, Load, work
  <1>4. ASSUME NEW c \in Callers, Save(c) PROVE ActiveIsBeingCached'
    <2>1. Committed \in Saving
      BY DEF Committed, Saving
    <2>2. caller'[c] = Committed
      BY <1>4 DEF Save, TInv, TypeOK
    <2>3. At(c, "enqueue")'
      BY <2>1, <2>2 DEF At, Committed
    <2> QED BY <2>3 DEF ActiveIsBeingCached
  <1>5. ASSUME NEW c \in Callers, Enqueue(c) PROVE ActiveIsBeingCached'
    BY <1>0, <1>5 DEF ActiveIsBeingCached, Enqueue
  <1>6. ASSUME NEW c \in Callers, StopCaller(c) PROVE ActiveIsBeingCached'
    BY <1>0, <1>6 DEF ActiveIsBeingCached, StopCaller
  <1>7. ASSUME NEW t \in Threads, Start(t) PROVE ActiveIsBeingCached'
    <2>1. CASE Live
      <3> DEFINE new == [step |-> "users", filter |-> segment.filter, seen |-> <<>>,
                         remove |-> {}, add |-> {}, user |-> Idle]
      <3>1. new \in Job
        BY NobodySeen DEF Job, TInv, TypeOK
      <3>2. job'[t] = new
        BY <1>7, <2>1 DEF Start, TInv, TypeOK
      <3>3. job'[t] # Idle
        BY <3>1, <3>2
      <3> QED BY <3>3 DEF ActiveIsBeingCached
    <2>2. CASE ~Live
      BY <1>7, <2>2 DEF Start, Live, ActiveIsBeingCached
    <2> QED BY <2>1, <2>2
  <1>8. ASSUME NEW t \in Threads,
               ReadUsers(t) \/ Select(t) \/ Compare(t) \/ Remove(t) \/ Ask(t) \/ Insert(t)
        PROVE  ActiveIsBeingCached'
    <2>1. job'[t] \in Job
      BY <1>8, NextJob DEF TInv, TypeOK
    <2> QED BY <2>1 DEF ActiveIsBeingCached
  <1>9. ASSUME NEW t \in Threads, Raise(t) PROVE ActiveIsBeingCached'
    BY <1>0, <1>9 DEF ActiveIsBeingCached, Raise
  <1>10. ASSUME NEW t \in Threads, Finish(t) PROVE ActiveIsBeingCached'
    <2>1. segment'.status # "active"
      BY <1>10 DEF Finish, Live, TInv, TypeOK
    <2> QED BY <2>1 DEF ActiveIsBeingCached
  <1>11. ASSUME NEW t \in Threads, StopJob(t) PROVE ActiveIsBeingCached'
    BY <1>0, <1>11 DEF ActiveIsBeingCached, StopJob
  <1>12. ASSUME NEW u \in Users, ChangeUser(u) PROVE ActiveIsBeingCached'
    BY <1>12 DEF ActiveIsBeingCached, ChangeUser, At, work
  <1>13. CASE UNCHANGED vars
    BY <1>13 DEF ActiveIsBeingCached, At, vars, work
  <1> QED BY <1>1, <1>2, <1>3, <1>4, <1>5, <1>6, <1>7, <1>8, <1>9, <1>10,
             <1>11, <1>12, <1>13 DEF Next, Perform, Continue

\* As long as nothing has stopped half-way, an active segment has a job, or is
\* about to get one.
THEOREM ActiveSegmentsAreCached == Spec => []ActiveIsBeingCached
  <1>1. Init => ActiveIsBeingCached
    BY DEF Init, ActiveIsBeingCached
  <1> QED BY InitTInv, NextTInv, CachedStep, <1>1, PTL DEF Spec

-----------------------------------------------------------------------------
(* Every step is a step of SegmentMembers.                                 *)

\* Before it is saved a segment has no members and nobody works on it.
Fresh ==
    segment.status = "unsaved" =>
        /\ Members = {}
        /\ jobs = 0
        /\ \A t \in Threads : job[t] = Idle
        /\ \A c \in Callers : caller[c] = Idle

LEMMA FreshStep ==
    ASSUME TInv, Fresh, [Next]_vars
    PROVE  Fresh'
  <1>1. CASE UNCHANGED vars
    BY <1>1 DEF Fresh, Members, vars, work
  <1>2. ASSUME NEW c \in Webs, Create(c) PROVE Fresh'
    BY <1>2 DEF Create, Fresh, TInv, TypeOK
  <1>3. ASSUME NEW c \in Webs, Destroy(c) PROVE Fresh'
    BY <1>3 DEF Destroy, Fresh, TInv, TypeOK
  <1>4. ASSUME NEW c \in Callers, Load(c) PROVE Fresh'
    BY <1>4 DEF Load, Live, Fresh
  <1>5. ASSUME NEW c \in Callers, Continue(c) \/ StopCaller(c) PROVE Fresh'
    <2>1. segment.status # "unsaved"
      BY <1>5 DEF Continue, Save, Enqueue, StopCaller, At, Fresh
    <2>2. segment'.status # "unsaved"
      BY <1>5, <2>1 DEF Continue, Save, Saved, Written, Enqueue, StopCaller, TInv, TypeOK
    <2> QED BY <2>2 DEF Fresh
  <1>6. ASSUME NEW t \in Threads, Perform(t) \/ StopJob(t) PROVE Fresh'
    <2>1. segment.status # "unsaved"
      BY <1>6, IdleAssumption DEF Perform, Start, ReadUsers, Select, Compare, Remove, Ask, Insert,
             Raise, Finish, StopJob, Runs, Fresh
    <2>2. segment'.status # "unsaved"
      BY <1>6, <2>1 DEF Perform, Start, ReadUsers, Select, Compare, Remove, Ask, Insert,
             Raise, Finish, StopJob, TInv, TypeOK
    <2> QED BY <2>2 DEF Fresh
  <1>7. ASSUME NEW u \in Users, ChangeUser(u) PROVE Fresh'
    BY <1>7 DEF ChangeUser, Fresh, Members, work
  <1> QED BY <1>1, <1>2, <1>3, <1>4, <1>5, <1>6, <1>7 DEF Next

LEMMA SourceType ==
    ASSUME TInv PROVE Source \in Sources
  BY DEF TInv, TypeOK, Source, Sources, Live

LEMMA AbstractStep ==
    ASSUME TInv, TInv', Fresh, [Next]_vars
    PROVE  [Abstract!Next]_(Abstract!vars)
  <1> USE DEF Abstract!Next, Abstract!vars
  <1>0. Source \in Sources /\ Source' \in Sources
    BY SourceType DEF TInv, TypeOK, Source, Sources, Live
  <1>1. CASE UNCHANGED <<segment, data, rows>>
    BY <1>1 DEF Source, Live, Members
  <1>2. CASE UNCHANGED <<rows, data>> /\ (Live <=> Live')
    <2>1. Abstract!Change
      BY <1>0, <1>2 DEF Abstract!Change, Members
    <2> QED BY <2>1
  <1>3. ASSUME NEW c \in Webs, Create(c) PROVE Abstract!Next
    <2>1. Members = {} /\ rows' = rows /\ ~Live
      BY <1>3 DEF Create, Fresh, Live
    <2>2. Abstract!Change
      BY <1>0, <2>1 DEF Abstract!Change, Members
    <2> QED BY <2>2
  <1>4. ASSUME NEW c \in Webs, Destroy(c) PROVE Abstract!Next
    <2>1. ~Live'
      BY <1>4 DEF Destroy, Live, TInv, TypeOK
    <2>2. Abstract!Drop
      BY <1>0, <2>1 DEF Abstract!Drop, SelectedBy, Source
    <2> QED BY <2>2
  <1>5. ASSUME NEW c \in Callers, Save(c) PROVE [Abstract!Next]_(Abstract!vars)
    <2>1. UNCHANGED <<rows, data>> /\ (Live <=> Live')
      BY <1>5 DEF Save, Saved, Written, Live, TInv, TypeOK
    <2> QED BY <1>2, <2>1
  <1>6. ASSUME NEW t \in Threads, Finish(t) PROVE [Abstract!Next]_(Abstract!vars)
    <2>1. UNCHANGED <<rows, data>> /\ (Live <=> Live')
      BY <1>6 DEF Finish, Live, TInv, TypeOK
    <2> QED BY <1>2, <2>1
  <1>7. ASSUME NEW u \in Users, ChangeUser(u) PROVE Abstract!Next
    <2>1. UNCHANGED <<rows, segment>>
      BY <1>7 DEF ChangeUser
    <2>2. Abstract!Change
      BY <1>0, <2>1 DEF Abstract!Change, Members, Live
    <2> QED BY <2>2
  <1>8. ASSUME NEW t \in Threads, Remove(t) PROVE [Abstract!Next]_(Abstract!vars)
    <2>1. PICK u \in job[t].remove : rows' = [rows EXCEPT ![u] = 0]
      BY <1>8 DEF Remove
    <2>2. u \in Users
      BY <1>8 DEF Remove, Runs, TInv, TypeOK, Job
    <2>3. UNCHANGED <<segment, data>>
      BY <1>8 DEF Remove
    <2>4. Members' = Members \ {u}
      BY <2>1, <2>2 DEF Members, TInv, TypeOK
    <2>5. CASE Live
      <3>1. Abstract!Leave(u)
        BY <2>3, <2>4, <2>5 DEF Abstract!Leave, Source, Live
      <3> QED BY <2>2, <3>1
    <2>6. CASE ~Live
      BY <2>3, <2>6 DEF Source, Live
    <2> QED BY <2>5, <2>6
  <1>9. ASSUME NEW t \in Threads, Insert(t) PROVE [Abstract!Next]_(Abstract!vars)
    <2> DEFINE u == job[t].user
    <2>1. u \in Users
      BY <1>9 DEF Insert, TInv, Prepared
    <2>2. UNCHANGED <<segment, data>> /\ rows' = [rows EXCEPT ![u] = @ + 1]
      BY <1>9 DEF Insert
    <2> HIDE DEF u
    <2>3. Members' = Members \cup {u}
      BY <2>1, <2>2 DEF Members, TInv, TypeOK
    <2>4. CASE Live
      <3>1. Abstract!Join(u)
        BY <2>2, <2>3, <2>4 DEF Abstract!Join, Source, Live
      <3> QED BY <2>1, <3>1
    <2>5. CASE ~Live
      BY <2>2, <2>5 DEF Source, Live
    <2> QED BY <2>4, <2>5
  <1>10. ASSUME NEW t \in Threads,
                Start(t) \/ ReadUsers(t) \/ Select(t) \/ Compare(t) \/ Ask(t) \/ Raise(t) \/ StopJob(t)
         PROVE  [Abstract!Next]_(Abstract!vars)
    BY <1>1, <1>10 DEF Start, ReadUsers, Select, Compare, Ask, Raise, StopJob
  <1>11. ASSUME NEW c \in Callers, Load(c) \/ Enqueue(c) \/ StopCaller(c)
         PROVE  [Abstract!Next]_(Abstract!vars)
    BY <1>1, <1>11 DEF Load, Enqueue, StopCaller
  <1>12. CASE UNCHANGED vars
    BY <1>1, <1>12 DEF vars
  <1> QED BY <1>3, <1>4, <1>5, <1>6, <1>7, <1>8, <1>9, <1>10, <1>11, <1>12
          DEF Next, Perform, Continue

\* Members change one user at a time, or all go with the segment: the steps of
\* IsSegmentMembers.  That they settle is left to TLC.
THEOREM StepsOfSegmentMembers == Spec => Abstract!Steps
  <1>1. Init => Abstract!Init /\ Fresh
    <2> SUFFICES ASSUME Init PROVE Abstract!Init /\ Fresh
      OBVIOUS
    <2>1. Source \in Sources
      BY InitTInv, SourceType
    <2>2. ~Live /\ Members = {}
      BY DEF Init, Live, Members
    <2>3. Abstract!Init
      BY <2>1, <2>2 DEF Abstract!Init
    <2>4. Fresh
      BY <2>2 DEF Init, Fresh
    <2> QED BY <2>3, <2>4
  <1> QED BY InitTInv, NextTInv, FreshStep, AbstractStep, <1>1, PTL
          DEF Spec, Abstract!Steps
=============================================================================
