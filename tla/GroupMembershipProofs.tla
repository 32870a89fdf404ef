------------------------ MODULE GroupMembershipProofs ------------------------
(***************************************************************************)
(* For any processes and bounds: types, how many rows the user can have,   *)
(* and what holds as long as no two handlers overlapped.                   *)
(***************************************************************************)
EXTENDS GroupMembership, FiniteSetTheorems, SequenceTheorems, TLAPS

LEMMA Removal ==
    ASSUME NEW s \in Seq(BOOLEAN), NEW i \in 1..Len(s)
    PROVE  /\ RemoveAt(s, i) \in Seq(BOOLEAN)
           /\ Len(RemoveAt(s, i)) = Len(s) - 1
           /\ \A j \in 1..Len(s)-1 : RemoveAt(s, i)[j] = s[IF j < i THEN j ELSE j + 1]
  <1> DEFINE a == SubSeq(s, 1, i-1)
             b == SubSeq(s, i+1, Len(s))
  <1>1. /\ a \in Seq(BOOLEAN) /\ Len(a) = i - 1
        /\ \A j \in 1..i-1 : a[j] = s[j]
    BY SubSeqProperties
  <1>2. /\ b \in Seq(BOOLEAN) /\ Len(b) = Len(s) - i
        /\ \A j \in 1..Len(s)-i : b[j] = s[i+j]
    BY SubSeqProperties
  <1>3. RemoveAt(s, i) = a \o b
    BY DEF RemoveAt
  <1> HIDE DEF a, b
  <1>4. /\ a \o b \in Seq(BOOLEAN)
        /\ Len(a \o b) = Len(a) + Len(b)
        /\ \A j \in 1..Len(a)+Len(b) : (a \o b)[j] = IF j <= Len(a) THEN a[j] ELSE b[j - Len(a)]
    BY <1>1, <1>2, ConcatProperties
  <1>5. ASSUME NEW j \in 1..Len(s)-1 PROVE (a \o b)[j] = s[IF j < i THEN j ELSE j + 1]
    <2>1. CASE j < i
      BY <1>1, <1>2, <1>4, <2>1
    <2>2. CASE j >= i
      <3> DEFINE k == j - Len(a)
      <3>1. (a \o b)[j] = b[k]
        BY <1>1, <1>2, <1>4, <2>2
      <3>2. k \in 1..Len(s)-i /\ i + k = j + 1
        BY <1>1, <2>2
      <3> HIDE DEF k
      <3>3. b[k] = s[i + k]
        BY <1>2, <3>2
      <3> QED BY <2>2, <3>1, <3>2, <3>3
    <2>3. j < i \/ j >= i
      OBVIOUS
    <2> QED BY <2>1, <2>2, <2>3
  <1> QED BY <1>1, <1>2, <1>3, <1>4, <1>5

-----------------------------------------------------------------------------
(* Types.                                                                  *)

LEMMA BegunWork ==
    ASSUME TypeOK,
           NEW op \in {"create", "accept", "destroy", "set", "lead"},
           NEW step \in {"load", "push", "commit"},
           NEW found \in SUBSET RowIds, NEW to \in Flags
    PROVE  Begun(op, step, found, to) \in Work
  BY DEF Begun, Work, Acceptance, TypeOK

\* A process takes up work, goes on with it, or is idle.
Becomes(p, new) ==
    /\ new \in Work \cup {Idle}
    /\ proc' = [proc EXCEPT ![p] = new]

LEMMA Others ==
    ASSUME TypeOK, NEW p \in Procs, NEW new, Becomes(p, new)
    PROVE  /\ proc' \in [Procs -> Work \cup {Idle}]
           /\ proc'[p] = new
           /\ \A q \in Procs \ {p} : proc'[q] = proc[q]
  BY DEF TypeOK, Becomes

\* Requests that begin, and what they begin.
LEMMA Asks ==
    ASSUME TypeOK, NEW w \in Webs, Join(w) \/ Leave(w) \/ Choose(w) \/ Lead(w)
    PROVE  /\ \E new \in Work :
                /\ Becomes(w, new)
                /\ Hold(w, new)
                /\ new.op = "lead" <=> new.step = "commit"
                /\ \/ new.op = "create" /\ new.step = "load" /\ Join(w)
                   \/ new.op = "accept" /\ new.step = "load" /\ Join(w)
                   \/ /\ new.op = "destroy" /\ new.step = "load" /\ IsMember
                      /\ \E i \in Present : new.found = {i}
                   \/ /\ new.op = "set" /\ new.step = "push"
                      /\ new.seen = flags /\ new.to # flags
                   \/ new.op = "lead" /\ IsMember
           /\ ~Busy(w) /\ acts' = acts + 1 /\ acts' \in 0..MaxActs
           /\ UNCHANGED <<rows, leader, pending, flags, jobs, fails>>
  <1>1. /\ ~Busy(w) /\ acts' = acts + 1 /\ acts' \in 0..MaxActs
        /\ UNCHANGED <<rows, leader, pending, flags, jobs, fails>>
    BY BoundAssumption DEF Join, Leave, Choose, Lead, Request, settings, TypeOK
  <1>2. flags \in Flags /\ \A i \in Present : {i} \in SUBSET RowIds
    BY DEF TypeOK, Present
  <1>3. CASE Join(w)
    <2>1. PICK op \in {"create", "accept"}, found \in SUBSET RowIds :
              Hold(w, Begun(op, "load", found, flags))
      BY <1>2, <1>3 DEF Join
    <2> DEFINE new == Begun(op, "load", found, flags)
    <2>2. new \in Work /\ new.op = op /\ new.step = "load"
      BY <1>2, BegunWork DEF Begun
    <2> QED BY <1>1, <1>3, <2>1, <2>2 DEF Becomes, Hold
  <1>4. CASE Leave(w)
    <2>1. PICK i \in Present : Hold(w, Begun("destroy", "load", {i}, flags))
      BY <1>4 DEF Leave
    <2> DEFINE new == Begun("destroy", "load", {i}, flags)
    <2>2. new \in Work /\ new.op = "destroy" /\ new.step = "load" /\ new.found = {i}
      BY <1>2, BegunWork DEF Begun
    <2>3. IsMember
      BY DEF IsMember
    <2> QED BY <1>1, <2>1, <2>2, <2>3 DEF Becomes, Hold
  <1>5. CASE Choose(w)
    <2>1. PICK to \in Flags \ {flags} : Hold(w, Begun("set", "push", {}, to))
      BY <1>5 DEF Choose
    <2> DEFINE new == Begun("set", "push", {}, to)
    <2>2. /\ new \in Work /\ new.op = "set" /\ new.step = "push"
          /\ new.seen = flags /\ new.to = to
      BY BegunWork DEF Begun
    <2> QED BY <1>1, <2>1, <2>2 DEF Becomes, Hold
  <1>6. CASE Lead(w)
    <2> DEFINE new == Begun("lead", "commit", {}, flags)
    <2>1. Hold(w, new) /\ IsMember
      BY <1>6 DEF Lead, IsMember
    <2>2. new \in Work /\ new.op = "lead" /\ new.step = "commit"
      BY <1>2, BegunWork DEF Begun
    <2> QED BY <1>1, <2>1, <2>2 DEF Becomes, Hold
  <1> QED BY <1>3, <1>4, <1>5, <1>6

\* Jobs that begin, and what they begin.
LEMMA Performs ==
    ASSUME TypeOK, NEW t \in Threads, Perform(t)
    PROVE  /\ ~Busy(t)
           /\ UNCHANGED <<rows, leader, pending, flags, acts, fails>>
           /\ \E i \in 1..Len(jobs) :
                 /\ jobs' = RemoveAt(jobs, i)
                 /\ \/ IsMember = jobs[i] /\ UNCHANGED <<proc, disturbed>>
                    \/ /\ IsMember # jobs[i]
                       /\ \E new \in Work :
                             /\ Becomes(t, new)
                             /\ Hold(t, new)
                             /\ new.step = "load"
                             /\ \/ new.op = "create" /\ jobs[i] = TRUE
                                \/ /\ new.op = "destroy" /\ jobs[i] = FALSE
                                   /\ new.found = Present
  <1>1. PICK i \in 1..Len(jobs) :
           /\ jobs' = RemoveAt(jobs, i)
           /\ IF Task(jobs[i]) = {} THEN UNCHANGED <<proc, disturbed>>
              ELSE \E work \in Task(jobs[i]) : Hold(t, work)
    BY DEF Perform
  <1>2. /\ ~Busy(t) /\ UNCHANGED <<rows, leader, pending, flags, acts, fails>>
    BY DEF Perform, settings
  <1>3. jobs[i] \in BOOLEAN /\ IsMember \in BOOLEAN
    BY DEF TypeOK, IsMember
  <1>4. CASE IsMember = jobs[i]
    <2>1. Task(jobs[i]) = {}
      BY <1>3, <1>4 DEF Task
    <2> QED BY <1>1, <1>2, <1>4, <2>1
  <1>5. CASE IsMember # jobs[i]
    <2> DEFINE op == IF jobs[i] THEN "create" ELSE "destroy"
               found == IF jobs[i] THEN {} ELSE Present
               new == Begun(op, "load", found, flags)
    <2>1. Task(jobs[i]) = {new}
      BY <1>3, <1>5 DEF Task
    <2>2. flags \in Flags /\ found \in SUBSET RowIds
      BY DEF TypeOK, Present
    <2>3. /\ new \in Work /\ new.op = op /\ new.step = "load" /\ new.found = found
      <3> HIDE DEF op, found
      <3>1. op \in {"create", "destroy"}
        BY DEF op
      <3> QED BY <2>2, <3>1, BegunWork DEF Begun
    <2>4. Hold(t, new)
      BY <1>1, <2>1
    <2>5. Becomes(t, new)
      BY <2>3, <2>4 DEF Becomes, Hold
    <2> QED BY <1>1, <1>2, <1>3, <1>5, <2>3, <2>4, <2>5
  <1> QED BY <1>4, <1>5

\* What an administrator does leaves it open who is a member.
LEMMA Administers ==
    ASSUME TypeOK, NEW w \in Webs, Administer(w)
    PROVE  /\ UNCHANGED <<flags, jobs, proc, fails, disturbed>>
           /\ acts' = acts + 1 /\ acts' \in 0..MaxActs
           /\ rows' \in [RowIds -> {"none", "pending", "accepted"}] /\ Present' = Present
           /\ leader' \in BOOLEAN /\ (leader' => leader)
           /\ pending' \in {"enabled", "disabled"}
  <1>1. /\ UNCHANGED <<flags, jobs, proc, fails, disturbed>>
        /\ acts' = acts + 1 /\ acts' \in 0..MaxActs
    BY BoundAssumption DEF Administer, Request, TypeOK
  <1>2. CASE Unlead
    BY <1>1, <1>2 DEF Unlead, TypeOK, Present
  <1>3. ASSUME NEW i \in Present, Accept(i)
        PROVE  /\ rows' \in [RowIds -> {"none", "pending", "accepted"}]
               /\ Present' = Present
               /\ UNCHANGED <<leader, pending>>
    BY <1>3 DEF Accept, TypeOK, Present, settings
  <1>4. CASE SwitchPending
    BY <1>1, <1>4 DEF SwitchPending, TypeOK, Present, Everybody
  <1> QED BY <1>1, <1>2, <1>3, <1>4 DEF Administer, TypeOK

LEMMA LoadsCreate ==
    ASSUME TypeOK, NEW p \in Procs, LoadCreate(p)
    PROVE  /\ At(p, "load") /\ Does(p, "create")
           /\ UNCHANGED <<rows, leader, pending, flags>>
           /\ jobs' \in Seq(BOOLEAN)
           /\ \/ /\ IsMember /\ Becomes(p, Idle)
                 /\ jobs' = IF p \in Threads THEN Append(jobs, TRUE) ELSE jobs
              \/ /\ ~IsMember /\ UNCHANGED jobs
                 /\ \E new \in Work :
                       /\ Becomes(p, new)
                       /\ new.op = "create" /\ new.step = "push"
                       /\ new.seen = flags /\ new.to = Both(TRUE)
  <1>1. /\ At(p, "load") /\ Does(p, "create")
        /\ UNCHANGED <<rows, leader, pending, flags>>
    BY DEF LoadCreate, settings
  <1>2. proc[p] \in Work /\ flags \in Flags /\ Both(TRUE) \in Flags /\ jobs \in Seq(BOOLEAN)
    BY <1>1 DEF At, Busy, TypeOK, Flags, Both
  <1>3. CASE IsMember
    <2>1. Append(jobs, TRUE) \in Seq(BOOLEAN)
      BY <1>2, AppendProperties
    <2> QED BY <1>1, <1>2, <1>3, <2>1 DEF LoadCreate, Ends, Becomes
  <1>4. CASE ~IsMember
    <2> DEFINE new == [proc[p] EXCEPT !.step = "push", !.seen = flags, !.to = Both(TRUE)]
    <2>1. proc' = [proc EXCEPT ![p] = new] /\ UNCHANGED jobs
      BY <1>4 DEF LoadCreate, TypeOK
    <2>2. /\ new \in Work /\ new.op = "create" /\ new.step = "push"
          /\ new.seen = flags /\ new.to = Both(TRUE)
      BY <1>1, <1>2 DEF Work, Does
    <2> HIDE DEF new
    <2> QED BY <1>1, <1>2, <1>4, <2>1, <2>2 DEF Becomes
  <1> QED BY <1>3, <1>4

LEMMA LoadsDestroy ==
    ASSUME TypeOK, NEW p \in Procs, LoadDestroy(p)
    PROVE  /\ At(p, "load") /\ Does(p, "destroy")
           /\ UNCHANGED <<rows, leader, pending, flags, jobs>>
           /\ \E new \in Work :
                 /\ Becomes(p, new)
                 /\ new.op = "destroy" /\ new.step = "push" /\ new.found = proc[p].found
                 /\ new.seen = flags /\ new.to = Both(FALSE) /\ new.led = leader
  <1>1. /\ At(p, "load") /\ Does(p, "destroy")
        /\ UNCHANGED <<rows, leader, pending, flags, jobs>>
    BY DEF LoadDestroy, settings
  <1>2. proc[p] \in Work /\ flags \in Flags /\ Both(FALSE) \in Flags /\ leader \in BOOLEAN
    BY <1>1 DEF At, Busy, TypeOK, Flags, Both
  <1> DEFINE new == [proc[p] EXCEPT !.step = "push", !.seen = flags, !.to = Both(FALSE),
                                    !.led = leader]
  <1>3. proc' = [proc EXCEPT ![p] = new]
    BY DEF LoadDestroy, TypeOK
  <1>4. /\ new \in Work /\ new.op = "destroy" /\ new.step = "push"
        /\ new.found = proc[p].found /\ new.seen = flags /\ new.to = Both(FALSE)
        /\ new.led = leader
    BY <1>1, <1>2 DEF Work, Does
  <1> HIDE DEF new
  <1> QED BY <1>1, <1>3, <1>4 DEF Becomes

LEMMA StoresAcceptance ==
    ASSUME TypeOK, NEW p \in Procs, StoreAcceptance(p)
    PROVE  /\ At(p, "load") /\ Does(p, "accept")
           /\ UNCHANGED <<leader, pending, flags, jobs>>
           /\ rows' \in [RowIds -> {"none", "pending", "accepted"}] /\ Present' = Present
           /\ Becomes(p, Idle)
  <1>1. /\ At(p, "load") /\ Does(p, "accept") /\ Becomes(p, Idle)
        /\ UNCHANGED <<leader, pending, flags, jobs>>
    BY DEF StoreAcceptance, settings, Ends, Becomes
  <1>2. proc[p].as \in {"pending", "accepted"}
    BY <1>1 DEF At, Busy, TypeOK, Work
  <1>3. rows' \in [RowIds -> {"none", "pending", "accepted"}] /\ Present' = Present
    BY <1>2 DEF StoreAcceptance, TypeOK, Present
  <1> QED BY <1>1, <1>3

LEMMA Pushes ==
    ASSUME TypeOK, NEW p \in Procs, Push(p)
    PROVE  /\ At(p, "push") /\ proc[p] \in Work
           /\ UNCHANGED <<rows, leader, pending, flags>>
           /\ jobs' = IF Changes(proc[p]) THEN Append(jobs, Wants(proc[p].to)) ELSE jobs
           /\ jobs' \in Seq(BOOLEAN)
           /\ \E new \in Work :
                 /\ Becomes(p, new)
                 /\ new.op = proc[p].op /\ new.step = "commit" /\ new.found = proc[p].found
                 /\ new.seen = proc[p].seen /\ new.to = proc[p].to /\ new.led = proc[p].led
  <1>1. /\ At(p, "push")
        /\ UNCHANGED <<rows, leader, pending, flags>>
        /\ jobs' = IF Changes(proc[p]) THEN Append(jobs, Wants(proc[p].to)) ELSE jobs
    BY DEF Push, settings
  <1>2. proc[p] \in Work /\ jobs \in Seq(BOOLEAN) /\ Wants(proc[p].to) \in BOOLEAN
    BY <1>1 DEF At, Busy, TypeOK, Wants
  <1> DEFINE new == [proc[p] EXCEPT !.step = "commit"]
  <1>3. proc' = [proc EXCEPT ![p] = new]
    BY DEF Push, Goes, TypeOK
  <1>4. /\ new \in Work /\ new.op = proc[p].op /\ new.step = "commit"
        /\ new.found = proc[p].found /\ new.seen = proc[p].seen /\ new.to = proc[p].to
        /\ new.led = proc[p].led
    BY <1>2 DEF Work
  <1>5. jobs' \in Seq(BOOLEAN)
    <2>1. Append(jobs, Wants(proc[p].to)) \in Seq(BOOLEAN)
      BY <1>2, AppendProperties
    <2> QED BY <1>1, <1>2, <2>1
  <1> HIDE DEF new
  <1> QED BY <1>1, <1>2, <1>3, <1>4, <1>5 DEF Becomes

\* Flags that are written are flags, and those of a user who was loaded as it
\* still is become what was wanted.
LEMMA StoredFlags ==
    ASSUME TypeOK, NEW work \in Work
    PROVE  /\ Stored(work) \in Flags
           /\ work.seen = flags => Stored(work) = work.to
  BY DEF Stored, TypeOK, Work, Flags

LEMMA CommitsCreate ==
    ASSUME TypeOK, NEW p \in Procs, CommitCreate(p)
    PROVE  /\ At(p, "commit") /\ Does(p, "create") /\ proc[p] \in Work
           /\ UNCHANGED <<leader, pending, jobs>>
           /\ flags' = Stored(proc[p]) /\ flags' \in Flags
           /\ rows' \in [RowIds -> {"none", "pending", "accepted"}]
           /\ \E i \in RowIds \ Present : Present' = Present \cup {i}
           /\ Becomes(p, Idle)
  <1>1. /\ At(p, "commit") /\ Does(p, "create") /\ Becomes(p, Idle)
        /\ UNCHANGED <<leader, pending, jobs>> /\ flags' = Stored(proc[p])
    BY DEF CommitCreate, settings, Ends, Becomes
  <1>2. proc[p] \in Work
    BY <1>1 DEF At, Busy, TypeOK
  <1>3. PICK i \in First(Fresh) : rows' = [rows EXCEPT ![i] = proc[p].as]
    BY DEF CommitCreate
  <1>4. i \in RowIds \ Present /\ proc[p].as \in {"pending", "accepted"}
    BY <1>2 DEF First, Fresh, Work
  <1>5. rows' \in [RowIds -> {"none", "pending", "accepted"}]
    BY <1>3, <1>4 DEF TypeOK
  <1>6. Present' = Present \cup {i}
    BY <1>3, <1>4 DEF TypeOK, Present
  <1> QED BY <1>1, <1>2, <1>4, <1>5, <1>6, StoredFlags

LEMMA CommitsDestroy ==
    ASSUME TypeOK, NEW p \in Procs, CommitDestroy(p)
    PROVE  /\ At(p, "commit") /\ Does(p, "destroy") /\ proc[p] \in Work
           /\ UNCHANGED <<pending, jobs>>
           /\ leader' = (leader /\ ~proc[p].led) /\ leader' \in BOOLEAN
           /\ flags' = Stored(proc[p]) /\ flags' \in Flags
           /\ rows' \in [RowIds -> {"none", "pending", "accepted"}]
           /\ \E i \in proc[p].found :
                 /\ Present' = Present \ {i}
                 /\ \/ proc[p].found = {i} /\ Becomes(p, Idle)
                    \/ /\ proc[p].found # {i}
                       /\ \E new \in Work :
                             Becomes(p, new) /\ new.op = "destroy" /\ new.step = "load"
  <1>1. /\ At(p, "commit") /\ Does(p, "destroy") /\ UNCHANGED <<pending, jobs>>
        /\ leader' = (leader /\ ~proc[p].led) /\ flags' = Stored(proc[p])
    BY DEF CommitDestroy
  <1>2. proc[p] \in Work /\ leader' \in BOOLEAN
    BY <1>1 DEF At, Busy, TypeOK
  <1>3. PICK i \in First(proc[p].found) :
          /\ rows' = [rows EXCEPT ![i] = "none"]
          /\ proc' = IF proc[p].found = {i} THEN [proc EXCEPT ![p] = Idle]
                     ELSE [proc EXCEPT ![p].step = "load", ![p].found = @ \ {i}]
    BY DEF CommitDestroy
  <1>4. i \in proc[p].found /\ i \in RowIds
    BY <1>2, <1>3 DEF First, Work
  <1>5. rows' \in [RowIds -> {"none", "pending", "accepted"}]
    BY <1>3, <1>4 DEF TypeOK
  <1>6. Present' = Present \ {i}
    BY <1>3, <1>4 DEF TypeOK, Present
  <1>7. CASE proc[p].found = {i}
    <2>1. Becomes(p, Idle)
      BY <1>3, <1>7 DEF Becomes
    <2> QED BY <1>1, <1>2, <1>4, <1>5, <1>6, <1>7, <2>1, StoredFlags
  <1>8. CASE proc[p].found # {i}
    <2> DEFINE new == [proc[p] EXCEPT !.step = "load", !.found = @ \ {i}]
    <2>1. proc' = [proc EXCEPT ![p] = new]
      BY <1>3, <1>8 DEF TypeOK
    <2>2. new \in Work /\ new.op = "destroy" /\ new.step = "load"
      BY <1>1, <1>2 DEF Work, Does
    <2> HIDE DEF new
    <2>3. \E n \in Work : Becomes(p, n) /\ n.op = "destroy" /\ n.step = "load"
      BY <2>1, <2>2 DEF Becomes
    <2> QED BY <1>1, <1>2, <1>4, <1>5, <1>6, <1>8, <2>3, StoredFlags
  <1> QED BY <1>7, <1>8

LEMMA CommitsOther ==
    ASSUME TypeOK, NEW p \in Procs, CommitChoice(p) \/ CommitLeader(p)
    PROVE  /\ At(p, "commit") /\ proc[p] \in Work
           /\ UNCHANGED <<pending, jobs>>
           /\ \/ /\ Does(p, "set") /\ UNCHANGED leader
                 /\ flags' = Stored(proc[p])
              \/ Does(p, "lead") /\ leader' = TRUE /\ UNCHANGED flags
           /\ flags' \in Flags
           /\ rows' \in [RowIds -> {"none", "pending", "accepted"}] /\ Present' = Present
           /\ Becomes(p, Idle)
  <1>1. /\ At(p, "commit") /\ Becomes(p, Idle) /\ UNCHANGED <<pending, jobs>>
    BY DEF CommitChoice, CommitLeader, settings, Ends, Becomes
  <1>2. proc[p] \in Work
    BY <1>1 DEF At, Busy, TypeOK
  <1>3. CASE CommitChoice(p)
    BY <1>1, <1>2, <1>3, StoredFlags DEF CommitChoice, settings, TypeOK, Present
  <1>4. CASE CommitLeader(p)
    BY <1>1, <1>2, <1>4 DEF CommitLeader, TypeOK, Present, Everybody
  <1> QED BY <1>3, <1>4

LEMMA Stops ==
    ASSUME TypeOK, NEW p \in Procs, Stop(p)
    PROVE  /\ UNCHANGED <<rows, leader, pending, flags, acts>>
           /\ fails' \in 0..MaxFails /\ disturbed' = TRUE
           /\ jobs' \in Seq(BOOLEAN)
           /\ Becomes(p, Idle)
  <1>1. /\ UNCHANGED <<rows, leader, pending, flags, acts>>
        /\ fails' \in 0..MaxFails /\ disturbed' = TRUE /\ Becomes(p, Idle)
    BY BoundAssumption DEF Stop, settings, Ends, Becomes, TypeOK
  <1>2. Does(p, "create") \in BOOLEAN /\ jobs \in Seq(BOOLEAN)
    BY DEF Does, Busy, TypeOK
  <1>3. Append(jobs, Does(p, "create")) \in Seq(BOOLEAN)
    BY <1>2, AppendProperties
  <1> QED BY <1>1, <1>2, <1>3 DEF Stop

LEMMA InitType ==
    ASSUME Init PROVE TypeOK
  <1>1. rows \in [RowIds -> {"none", "pending", "accepted"}]
    BY DEF Init
  <1>2. acts \in 0..MaxActs /\ fails \in 0..MaxFails
    BY BoundAssumption DEF Init
  <1>3. leader \in BOOLEAN /\ disturbed \in BOOLEAN
    BY Zenon DEF Init
  <1>4. jobs \in Seq(BOOLEAN) /\ proc \in [Procs -> Work \cup {Idle}]
    BY DEF Init
  <1>5. flags \in Flags /\ pending \in {"enabled", "disabled"}
    BY DEF Init
  <1> QED BY <1>1, <1>2, <1>3, <1>4, <1>5 DEF TypeOK

\* What Hold leaves as it is.
LEMMA Holding ==
    ASSUME TypeOK, NEW p, NEW work, Hold(p, work)
    PROVE  disturbed' \in BOOLEAN
  BY DEF Hold, TypeOK

LEMMA NextType ==
    ASSUME TypeOK, [Next]_vars PROVE TypeOK'
  <1>1. ASSUME NEW w \in Webs, Join(w) \/ Leave(w) \/ Choose(w) \/ Lead(w) PROVE TypeOK'
    <2>0. w \in Procs
      BY DEF Procs
    <2>1. PICK new \in Work : Becomes(w, new) /\ Hold(w, new)
      BY <1>1, Asks
    <2>2. acts' \in 0..MaxActs /\ UNCHANGED <<rows, leader, pending, flags, jobs, fails>>
      BY <1>1, Asks
    <2>3. proc' \in [Procs -> Work \cup {Idle}] /\ disturbed' \in BOOLEAN
      BY <2>0, <2>1, Others, Holding
    <2> QED BY <2>2, <2>3 DEF TypeOK
  <1>2. ASSUME NEW w \in Webs, Administer(w) PROVE TypeOK'
    BY <1>2, Administers DEF TypeOK
  <1>3. ASSUME NEW t \in Threads, Perform(t) PROVE TypeOK'
    <2>0. t \in Procs
      BY DEF Procs
    <2>1. UNCHANGED <<rows, leader, pending, flags, acts, fails>>
      BY <1>3, Performs
    <2>2. jobs' \in Seq(BOOLEAN)
      <3>1. PICK i \in 1..Len(jobs) : jobs' = RemoveAt(jobs, i)
        BY <1>3, Performs
      <3>2. jobs \in Seq(BOOLEAN)
        BY DEF TypeOK
      <3> QED BY <3>1, <3>2, Removal
    <2>3. \/ UNCHANGED <<proc, disturbed>>
          \/ \E new \in Work : Becomes(t, new) /\ Hold(t, new)
      BY <1>3, Performs
    <2>4. proc' \in [Procs -> Work \cup {Idle}] /\ disturbed' \in BOOLEAN
      BY <2>0, <2>3, Others, Holding DEF TypeOK
    <2> QED BY <2>1, <2>2, <2>4 DEF TypeOK
  <1>4. ASSUME NEW p \in Procs, Proceed(p) PROVE TypeOK'
    <2>1. UNCHANGED <<acts, fails, disturbed>>
      BY <1>4 DEF Proceed
    <2>2. \E new \in Work \cup {Idle} : Becomes(p, new)
      BY <1>4, LoadsCreate, LoadsDestroy, StoresAcceptance, Pushes, CommitsCreate,
         CommitsDestroy, CommitsOther DEF Proceed, Commit
    <2>3. proc' \in [Procs -> Work \cup {Idle}]
      BY <2>2, Others
    <2>4. /\ rows' \in [RowIds -> {"none", "pending", "accepted"}]
          /\ flags' \in Flags /\ leader' \in BOOLEAN /\ jobs' \in Seq(BOOLEAN)
          /\ pending' \in {"enabled", "disabled"}
      <3>1. CASE LoadCreate(p) \/ LoadDestroy(p) \/ StoreAcceptance(p) \/ Push(p)
        BY <3>1, LoadsCreate, LoadsDestroy, StoresAcceptance, Pushes DEF TypeOK
      <3>2. CASE Commit(p)
        BY <3>2, CommitsCreate, CommitsDestroy, CommitsOther DEF Commit, TypeOK
      <3> QED BY <1>4, <3>1, <3>2 DEF Proceed
    <2> QED BY <2>1, <2>3, <2>4 DEF TypeOK
  <1>5. ASSUME NEW p \in Procs, Stop(p) PROVE TypeOK'
    BY <1>5, Stops, Others DEF TypeOK
  <1>6. CASE UNCHANGED vars
    BY <1>6 DEF vars, settings, TypeOK
  <1> QED BY <1>1, <1>2, <1>3, <1>4, <1>5, <1>6 DEF Next, Ask

\* Rows, flags, jobs and what the processes hold keep their types.
THEOREM TypeCorrect == Spec => []TypeOK
  BY InitType, NextType, PTL DEF Spec

-----------------------------------------------------------------------------
(* How many rows.                                                          *)

LEMMA FiniteSets ==
    /\ IsFiniteSet(Procs) /\ IsFiniteSet(Present) /\ IsFiniteSet(Creating)
    /\ Cardinality(Procs) \in Nat /\ Cardinality(Procs) >= 1
    /\ Cardinality(Present) \in Nat
    /\ Cardinality(Creating) \in Nat /\ Cardinality(Creating) <= Cardinality(Procs)
  <1>1. IsFiniteSet(Procs)
    BY ProcessAssumption, FS_Union DEF Procs
  <1>2. IsFiniteSet(RowIds)
    BY BoundAssumption, FS_Interval DEF RowIds
  <1>3. IsFiniteSet(Present)
    BY <1>2, FS_Subset DEF Present
  <1>4. IsFiniteSet(Creating) /\ Cardinality(Creating) <= Cardinality(Procs)
    BY <1>1, FS_Subset DEF Creating
  <1>5. Cardinality(Procs) \in Nat /\ Cardinality(Procs) # 0
    <2>1. Procs # {}
      BY ProcessAssumption DEF Procs
    <2> QED BY <1>1, <2>1, FS_CardinalityType, FS_EmptySet
  <1> QED BY <1>1, <1>3, <1>4, <1>5, FS_CardinalityType

LEMMA FewerRows ==
    ASSUME RowsWithinProcs, Present' \subseteq Present, Creating' \subseteq Creating
    PROVE  RowsWithinProcs'
  <1>1. Cardinality(Present') <= Cardinality(Present) /\ Cardinality(Present') \in Nat
    BY FiniteSets, FS_Subset, FS_CardinalityType
  <1>2. Cardinality(Creating') <= Cardinality(Creating) /\ Cardinality(Creating') \in Nat
    BY FiniteSets, FS_Subset, FS_CardinalityType
  <1> QED BY <1>1, <1>2, FiniteSets DEF RowsWithinProcs

\* A process that does not begin to create a row.
LEMMA NotCreating ==
    ASSUME TypeOK, NEW p \in Procs, NEW new, Becomes(p, new),
           new = Idle \/ new.op # "create" \/ new.step = "load" \/ p \in Creating
    PROVE  Creating' \subseteq Creating
  <1>1. proc'[p] = new /\ \A q \in Procs \ {p} : proc'[q] = proc[q]
    BY Others
  <1> QED BY <1>1 DEF Creating, Does, At, Busy

LEMMA NextRows ==
    ASSUME TypeOK, RowsWithinProcs, [Next]_vars PROVE RowsWithinProcs'
  <1>1. ASSUME NEW w \in Webs, Join(w) \/ Leave(w) \/ Choose(w) \/ Lead(w)
        PROVE  RowsWithinProcs'
    <2>0. w \in Procs
      BY DEF Procs
    <2>1. PICK new \in Work : Becomes(w, new) /\ (new.op # "create" \/ new.step = "load")
      BY <1>1, Asks
    <2>2. Present' = Present
      BY <1>1, Asks DEF Present
    <2>3. Creating' \subseteq Creating
      BY <2>0, <2>1, NotCreating
    <2> QED BY <2>2, <2>3, FewerRows
  <1>2. ASSUME NEW w \in Webs, Administer(w) PROVE RowsWithinProcs'
    <2>1. Creating' = Creating
      BY <1>2, Administers DEF Creating, Does, At, Busy
    <2> QED BY <1>2, <2>1, Administers, FewerRows
  <1>3. ASSUME NEW t \in Threads, Perform(t) PROVE RowsWithinProcs'
    <2>0. t \in Procs
      BY DEF Procs
    <2>1. Present' = Present
      BY <1>3, Performs DEF Present
    <2>2. UNCHANGED proc \/ \E new \in Work : Becomes(t, new) /\ new.step = "load"
      BY <1>3, Performs
    <2>3. Creating' \subseteq Creating
      BY <2>0, <2>2, NotCreating DEF Creating, Does, At, Busy
    <2> QED BY <2>1, <2>3, FewerRows
  <1>4. ASSUME NEW p \in Procs, LoadCreate(p) PROVE RowsWithinProcs'
    <2>1. CASE IsMember
      <3>1. Becomes(p, Idle) /\ Present' = Present
        BY <1>4, <2>1, LoadsCreate DEF Present
      <3> QED BY <3>1, NotCreating, FewerRows
    <2>2. CASE ~IsMember
      <3>1. Present' = {}
        BY <1>4, <2>2, LoadsCreate DEF Present, IsMember
      <3>2. Cardinality(Present') = 0
        BY <3>1, FS_EmptySet
      <3>3. Cardinality(Creating') <= Cardinality(Procs) /\ Cardinality(Creating') \in Nat
        <4>1. Creating' \subseteq Procs
          BY DEF Creating
        <4> QED BY <4>1, FiniteSets, FS_Subset, FS_CardinalityType
      <3> QED BY <3>2, <3>3 DEF RowsWithinProcs
    <2> QED BY <2>1, <2>2
  <1>5. ASSUME NEW p \in Procs, LoadDestroy(p) PROVE RowsWithinProcs'
    <2>1. Present' = Present /\ \E new \in Work : Becomes(p, new) /\ new.op = "destroy"
      BY <1>5, LoadsDestroy DEF Present
    <2> QED BY <2>1, NotCreating, FewerRows
  <1>6. ASSUME NEW p \in Procs, StoreAcceptance(p) \/ CommitChoice(p) \/ CommitLeader(p)
        PROVE  RowsWithinProcs'
    <2>1. Present' = Present /\ Becomes(p, Idle)
      BY <1>6, StoresAcceptance, CommitsOther
    <2> QED BY <2>1, NotCreating, FewerRows
  <1>7. ASSUME NEW p \in Procs, Push(p) PROVE RowsWithinProcs'
    <2>1. PICK new \in Work : Becomes(p, new) /\ new.op = proc[p].op
      BY <1>7, Pushes
    <2>2. new.op # "create" \/ p \in Creating
      BY <1>7, <2>1, Pushes DEF Creating, Does, At, Busy
    <2>3. Present' = Present
      BY <1>7, Pushes DEF Present
    <2> QED BY <2>1, <2>2, <2>3, NotCreating, FewerRows
  <1>8. ASSUME NEW p \in Procs, CommitCreate(p) PROVE RowsWithinProcs'
    <2>1. PICK i \in RowIds \ Present : Present' = Present \cup {i}
      BY <1>8, CommitsCreate
    <2>2. p \in Creating
      BY <1>8, CommitsCreate DEF Creating, Does, At
    <2>3. Creating' \subseteq Creating \ {p}
      <3>1. Becomes(p, Idle)
        BY <1>8, CommitsCreate
      <3>2. proc'[p] = Idle /\ \A q \in Procs \ {p} : proc'[q] = proc[q]
        BY <3>1, Others
      <3> QED BY <3>2 DEF Creating, Does, At, Busy
    <2>4. Cardinality(Present') = Cardinality(Present) + 1
      <3>1. Cardinality(Present \cup {i}) = Cardinality(Present) + 1
        BY <2>1, FiniteSets, FS_AddElement
      <3> QED BY <2>1, <3>1
    <2>5. Cardinality(Creating') <= Cardinality(Creating) - 1 /\ Cardinality(Creating') \in Nat
      <3>1. /\ Cardinality(Creating \ {p}) = Cardinality(Creating) - 1
            /\ IsFiniteSet(Creating \ {p})
        BY <2>2, FiniteSets, FS_RemoveElement
      <3>2. Cardinality(Creating') <= Cardinality(Creating \ {p}) /\ IsFiniteSet(Creating')
        BY <2>3, <3>1, FS_Subset
      <3> QED BY <3>1, <3>2, FS_CardinalityType
    <2> QED BY <2>4, <2>5, FiniteSets DEF RowsWithinProcs
  <1>9. ASSUME NEW p \in Procs, CommitDestroy(p) PROVE RowsWithinProcs'
    <2>1. Present' \subseteq Present
      BY <1>9, CommitsDestroy
    <2>2. \E new \in Work \cup {Idle} : Becomes(p, new) /\ (new = Idle \/ new.op = "destroy")
      BY <1>9, CommitsDestroy
    <2> QED BY <2>1, <2>2, NotCreating, FewerRows
  <1>10. ASSUME NEW p \in Procs, Stop(p) PROVE RowsWithinProcs'
    <2>1. Present' = Present /\ Becomes(p, Idle)
      BY <1>10, Stops DEF Present
    <2> QED BY <2>1, NotCreating, FewerRows
  <1>11. CASE UNCHANGED vars
    BY <1>11 DEF vars, RowsWithinProcs, Present, Creating, Does, At, Busy
  <1> QED BY <1>1, <1>2, <1>3, <1>4, <1>5, <1>6, <1>7, <1>8, <1>9, <1>10, <1>11
      DEF Next, Ask, Proceed, Commit

\* However requests and jobs overlap or die, the user has at most as many rows
\* as there are processes.
THEOREM RowsBounded == Spec => []RowsWithinProcs
  <1>1. ASSUME Init PROVE RowsWithinProcs
    <2>1. Present \subseteq {1}
      BY <1>1 DEF Init, Present
    <2>2. Cardinality(Present) <= 1
      <3>1. IsFiniteSet({1}) /\ Cardinality({1}) = 1
        BY FS_Singleton
      <3> QED BY <2>1, <3>1, FS_Subset
    <2>3. Creating = {}
      BY <1>1 DEF Init, Creating, Does, Busy
    <2>4. Cardinality(Creating) = 0
      BY <2>3, FS_EmptySet
    <2> QED BY <2>2, <2>4, FiniteSets DEF RowsWithinProcs
  <1> QED BY <1>1, InitType, NextType, NextRows, PTL DEF Spec

-----------------------------------------------------------------------------
(* As long as no two handlers overlapped.                                  *)

\* What the handler at work has read is still so.
Sound(p) ==
    LET work == proc[p] IN
    /\ p \in Threads => work.op \in {"create", "destroy"}
    /\ (work.op \in {"create", "destroy"} /\ work.step # "load") => work.seen = flags
    /\ (work.op = "create" /\ work.step # "load") => work.to = Both(TRUE) /\ ~IsMember
    /\ work.op = "destroy" => Present = work.found /\ \E i \in RowIds : Present = {i}
    /\ (work.op = "destroy" /\ work.step # "load") => work.to = Both(FALSE) /\ (leader => work.led)
    /\ work.op = "set" => /\ work.step # "load" /\ work.seen = flags /\ work.to # flags
                          /\ work.step = "commit" =>
                                \/ IsMember = Wants(work.to)
                                \/ \E i \in 1..Len(jobs) : jobs[i] = Wants(work.to)
    /\ work.op = "lead" => IsMember

OnlyOne  == \A p, q \in Procs : Busy(p) /\ Busy(q) => p = q
Informed == IsMember # Wants(flags) => Told(Wants(flags))
Handling == \E p \in Procs : Busy(p) /\ ~At(p, "commit")
Counted  == Len(jobs) + (IF Handling THEN 1 ELSE 0) <= acts

Calm ==
    /\ OnlyOne
    /\ \A p \in Procs : Busy(p) => Sound(p)
    /\ \A i, j \in Present : i = j
    /\ leader => IsMember
    /\ Informed
    /\ Counted

\* Nobody but the process that makes a step is at work.
LEMMA NobodyElse ==
    ASSUME TypeOK, Calm, NEW p \in Procs, NEW new, Becomes(p, new),
           Busy(p) \/ (Hold(p, new) /\ ~disturbed')
    PROVE  /\ proc'[p] = new
           /\ \A q \in Procs \ {p} : ~Busy(q) /\ ~Busy(q)'
           /\ OnlyOne'
           /\ Handling' <=> (new # Idle /\ new.step # "commit")
  <1>1. proc'[p] = new /\ \A q \in Procs \ {p} : proc'[q] = proc[q]
    BY Others
  <1>2. \A q \in Procs \ {p} : ~Busy(q)
    BY DEF Calm, OnlyOne, Hold
  <1>3. \A q \in Procs \ {p} : ~Busy(q)'
    BY <1>1, <1>2 DEF Busy
  <1>4. OnlyOne'
    BY <1>3 DEF OnlyOne
  <1>5. Handling' <=> (Busy(p)' /\ ~At(p, "commit")')
    BY <1>3 DEF Handling
  <1>6. Busy(p)' <=> new # Idle
    BY <1>1 DEF Busy
  <1>7. At(p, "commit")' <=> (new # Idle /\ new.step = "commit")
    BY <1>1 DEF At, Busy
  <1> QED BY <1>1, <1>2, <1>3, <1>4, <1>5, <1>6, <1>7

\* Whom the jobs and threads have told stays told.
LEMMA StillDoing ==
    ASSUME TypeOK, NEW p \in Procs, NEW new, Becomes(p, new), NEW b \in BOOLEAN, Doing(b),
           p \in Threads => ~Busy(p) \/ (new # Idle /\ new.op = proc[p].op)
    PROVE  Doing(b)'
  <1>1. proc'[p] = new /\ \A q \in Procs \ {p} : proc'[q] = proc[q]
    BY Others
  <1>2. PICK q \in Threads : Busy(q) /\ Does(q, "create") = b
    BY DEF Doing
  <1>3. Busy(q)' /\ Does(q, "create")' = b
    BY <1>1, <1>2 DEF Procs, Busy, Does
  <1> QED BY <1>3 DEF Doing

LEMMA Remaining ==
    ASSUME NEW s \in Seq(BOOLEAN), NEW i \in 1..Len(s), NEW k \in 1..Len(s), s[k] # s[i]
    PROVE  \E j \in 1..Len(RemoveAt(s, i)) : RemoveAt(s, i)[j] = s[k]
  <1>1. /\ Len(RemoveAt(s, i)) = Len(s) - 1
        /\ \A j \in 1..Len(s)-1 : RemoveAt(s, i)[j] = s[IF j < i THEN j ELSE j + 1]
    BY Removal
  <1>2. k # i /\ Len(s) \in Nat
    OBVIOUS
  <1>3. CASE k < i
    <2>1. k \in 1..Len(s)-1
      BY <1>2, <1>3
    <2>2. RemoveAt(s, i)[k] = s[k]
      BY <1>1, <1>3, <2>1
    <2> QED BY <1>1, <2>1, <2>2
  <1>4. CASE k > i
    <2> DEFINE j == k - 1
    <2>1. j \in 1..Len(s)-1 /\ ~(j < i) /\ j + 1 = k
      BY <1>2, <1>4
    <2> HIDE DEF j
    <2>2. RemoveAt(s, i)[j] = s[k]
      BY <1>1, <2>1
    <2> QED BY <1>1, <2>1, <2>2
  <1>5. k < i \/ k > i
    BY <1>2
  <1> QED BY <1>3, <1>4, <1>5

\* What is told by a job that is still there, or by a handler still at work.
LEMMA StillInformed ==
    ASSUME TypeOK, TypeOK', Calm, NEW p \in Procs, NEW new, Becomes(p, new),
           p \in Threads => ~Busy(p) \/ (new # Idle /\ new.op = proc[p].op),
           \A i \in 1..Len(jobs) : \E j \in 1..Len(jobs)' : jobs'[j] = jobs[i],
           flags' = flags, IsMember' = IsMember
    PROVE  Informed'
  <1> SUFFICES ASSUME IsMember' # Wants(flags)' PROVE Told(Wants(flags))'
    BY DEF Informed
  <1>1. Wants(flags)' = Wants(flags) /\ Wants(flags) \in BOOLEAN
    BY DEF Wants
  <1> DEFINE b == Wants(flags)
  <1>2. Told(b)
    BY <1>1 DEF Calm, Informed
  <1> HIDE DEF b
  <1>3. CASE \E i \in 1..Len(jobs) : jobs[i] = b
    BY <1>1, <1>3 DEF Told, b
  <1>4. CASE Doing(b)
    BY <1>1, <1>4, StillDoing DEF Told, b
  <1> QED BY <1>2, <1>3, <1>4 DEF Told

LEMMA AsksCalm ==
    ASSUME TypeOK, TypeOK', Calm, ~disturbed', NEW w \in Webs,
           Join(w) \/ Leave(w) \/ Choose(w) \/ Lead(w)
    PROVE  Calm'
  <1>0. w \in Procs /\ w \notin Threads
    BY ProcessAssumption DEF Procs
  <1>1. PICK new \in Work :
           /\ Becomes(w, new)
           /\ Hold(w, new)
           /\ new.op = "lead" <=> new.step = "commit"
           /\ \/ new.op = "create" /\ new.step = "load"
              \/ new.op = "accept" /\ new.step = "load"
              \/ /\ new.op = "destroy" /\ new.step = "load" /\ IsMember
                 /\ \E i \in Present : new.found = {i}
              \/ /\ new.op = "set" /\ new.step = "push"
                 /\ new.seen = flags /\ new.to # flags
              \/ new.op = "lead" /\ IsMember
    BY Asks
  <1>2. acts' = acts + 1 /\ UNCHANGED <<rows, leader, pending, flags, jobs, fails>>
    BY Asks
  <1>3. Present' = Present /\ IsMember' = IsMember
    BY <1>2 DEF Present, IsMember
  <1>4. /\ proc'[w] = new
        /\ \A q \in Procs \ {w} : ~Busy(q) /\ ~Busy(q)'
        /\ OnlyOne'
    BY <1>0, <1>1, NobodyElse
  <1>5. Sound(w)'
    <2>1. CASE new.op = "destroy"
      <3>1. PICK i \in Present : new.found = {i}
        BY <1>1, <2>1
      <3>2. Present = {i} /\ i \in RowIds
        BY <3>1 DEF Calm, Present
      <3>3. new.step = "load"
        BY <1>1, <2>1
      <3> QED BY <1>0, <1>3, <1>4, <2>1, <3>1, <3>2, <3>3 DEF Sound
    <2>2. CASE new.op # "destroy"
      BY <1>0, <1>1, <1>2, <1>3, <1>4, <2>2 DEF Sound
    <2> QED BY <2>1, <2>2
  <1>6. Informed'
    BY <1>0, <1>1, <1>2, <1>3, StillInformed
  <1>7. Counted'
    <2>1. Len(jobs) \in Nat /\ acts \in Nat /\ Len(jobs) <= acts
      BY DEF Calm, Counted, TypeOK
    <2> QED BY <1>2, <2>1 DEF Counted
  <1> QED BY <1>2, <1>3, <1>4, <1>5, <1>6, <1>7 DEF Calm

LEMMA AdministersCalm ==
    ASSUME TypeOK, TypeOK', Calm, NEW w \in Webs, Administer(w)
    PROVE  Calm'
  <1>1. /\ UNCHANGED <<flags, jobs, proc>> /\ acts' = acts + 1
        /\ Present' = Present /\ (leader' => leader)
    BY Administers
  <1>2. IsMember' = IsMember
    BY <1>1 DEF IsMember
  <1>3. \A p \in Procs : (Busy(p)' <=> Busy(p)) /\ (At(p, "commit")' <=> At(p, "commit"))
    BY <1>1 DEF Busy, At
  <1>4. OnlyOne'
    BY <1>3 DEF Calm, OnlyOne
  <1>5. ASSUME NEW p \in Procs, Busy(p)' PROVE Sound(p)'
    <2>1. Sound(p)
      BY <1>3, <1>5 DEF Calm
    <2> QED BY <1>1, <1>2, <2>1 DEF Sound
  <1>6. Informed'
    BY <1>1, <1>2 DEF Calm, Informed, Told, Doing, Busy, Does
  <1>7. Counted'
    <2>1. Len(jobs) \in Nat /\ acts \in Nat /\ (Handling' <=> Handling)
      BY <1>3 DEF TypeOK, Handling
    <2> QED BY <1>1, <2>1 DEF Calm, Counted
  <1> QED BY <1>1, <1>2, <1>4, <1>5, <1>6, <1>7 DEF Calm

LEMMA PerformsCalm ==
    ASSUME TypeOK, TypeOK', Calm, ~disturbed', NEW t \in Threads, Perform(t)
    PROVE  Calm'
  <1>0. t \in Procs /\ t \notin Webs /\ jobs \in Seq(BOOLEAN)
    BY ProcessAssumption DEF Procs, TypeOK
  <1>1. ~Busy(t) /\ UNCHANGED <<rows, leader, pending, flags, acts, fails>>
    BY Performs
  <1>2. PICK i \in 1..Len(jobs) :
            /\ jobs' = RemoveAt(jobs, i)
            /\ \/ IsMember = jobs[i] /\ UNCHANGED <<proc, disturbed>>
               \/ /\ IsMember # jobs[i]
                  /\ \E new \in Work :
                        /\ Becomes(t, new)
                        /\ Hold(t, new)
                        /\ new.step = "load"
                        /\ \/ new.op = "create" /\ jobs[i] = TRUE
                           \/ /\ new.op = "destroy" /\ jobs[i] = FALSE
                              /\ new.found = Present
    BY Performs
  <1>3. Len(jobs') = Len(jobs) - 1 /\ Len(jobs) \in Nat /\ acts \in Nat
    BY <1>0, <1>2, Removal DEF TypeOK
  <1>4. Present' = Present /\ IsMember' = IsMember /\ Wants(flags)' = Wants(flags)
    BY <1>1 DEF Present, IsMember, Wants
  <1>5. ASSUME NEW b, NEW k \in 1..Len(jobs), jobs[k] = b, jobs[i] # b
        PROVE  \E j \in 1..Len(jobs)' : jobs'[j] = b
    BY <1>0, <1>2, <1>5, Remaining
  <1>6. Wants(flags) \in BOOLEAN /\ jobs[i] \in BOOLEAN /\ IsMember \in BOOLEAN
    BY <1>0 DEF Wants, IsMember
  <1>7. CASE IsMember = jobs[i] /\ UNCHANGED <<proc, disturbed>>
    <2>1. \A p \in Procs : (Busy(p)' <=> Busy(p)) /\ (At(p, "commit")' <=> At(p, "commit"))
      BY <1>7 DEF Busy, At
    <2>2. OnlyOne' /\ (Handling' <=> Handling)
      BY <2>1 DEF Calm, OnlyOne, Handling
    <2>3. ASSUME NEW p \in Procs, Busy(p)' PROVE Sound(p)'
      <3>1. Sound(p)
        BY <2>1, <2>3 DEF Calm
      <3> DEFINE to == proc[p].to
      <3>2. ASSUME NEW k \in 1..Len(jobs), jobs[k] = Wants(to), IsMember # Wants(to)
            PROVE  \E j \in 1..Len(jobs)' : jobs'[j] = Wants(to)
        BY <1>5, <1>7, <3>2
      <3>3. Wants(proc[p].to)' = Wants(to)
        BY <1>7 DEF Wants
      <3> QED BY <1>1, <1>4, <1>7, <3>1, <3>2, <3>3 DEF Sound
    <2>4. Informed'
      <3> SUFFICES ASSUME IsMember # Wants(flags) PROVE Told(Wants(flags))'
        BY <1>4 DEF Informed
      <3>1. Told(Wants(flags))
        BY DEF Calm, Informed
      <3>2. CASE Doing(Wants(flags))
        BY <1>1, <1>7, <3>2 DEF Told, Doing, Busy, Does, Wants
      <3>3. ASSUME NEW k \in 1..Len(jobs), jobs[k] = Wants(flags) PROVE Told(Wants(flags))'
        <4>1. \E j \in 1..Len(jobs)' : jobs'[j] = Wants(flags)
          BY <1>5, <1>7, <3>3
        <4> QED BY <1>4, <4>1 DEF Told
      <3> QED BY <3>1, <3>2, <3>3 DEF Told
    <2>5. Counted'
      BY <1>1, <1>3, <2>2 DEF Calm, Counted
    <2> QED BY <1>1, <1>4, <2>2, <2>3, <2>4, <2>5 DEF Calm
  <1>8. ASSUME IsMember # jobs[i],
               NEW new \in Work, Becomes(t, new), Hold(t, new), new.step = "load",
               \/ new.op = "create" /\ jobs[i] = TRUE
               \/ new.op = "destroy" /\ jobs[i] = FALSE /\ new.found = Present
        PROVE  Calm'
    <2>1. /\ proc'[t] = new
          /\ \A q \in Procs \ {t} : ~Busy(q) /\ ~Busy(q)'
          /\ OnlyOne'
      BY <1>0, <1>8, NobodyElse
    <2>2. Sound(t)'
      <3>1. new.op = "destroy" => Present = new.found /\ \E r \in RowIds : Present = {r}
        <4> SUFFICES ASSUME new.op = "destroy" PROVE \E r \in RowIds : Present = {r}
          BY <1>8
        <4>1. IsMember
          BY <1>6, <1>8
        <4>2. PICK r \in Present : TRUE
          BY <4>1 DEF IsMember
        <4> QED BY <4>2 DEF Calm, Present
      <3> QED BY <1>0, <1>4, <1>8, <2>1, <3>1 DEF Sound
    <2>3. Informed'
      <3> SUFFICES ASSUME IsMember # Wants(flags) PROVE Told(Wants(flags))'
        BY <1>4 DEF Informed
      <3>1. jobs[i] = Wants(flags)
        BY <1>6, <1>8
      <3>2. Busy(t)' /\ (Does(t, "create")' = Wants(flags))
        BY <1>8, <2>1, <3>1, IdleAssumption DEF Busy, Does
      <3> QED BY <1>4, <3>2 DEF Told, Doing
    <2>4. Counted'
      BY <1>1, <1>3 DEF Calm, Counted
    <2> QED BY <1>1, <1>4, <2>1, <2>2, <2>3, <2>4 DEF Calm
  <1> QED BY <1>2, <1>7, <1>8

\* A handler that ends leaves membership and flags in agreement, or a job.
LEMMA EndsCalm ==
    ASSUME TypeOK, TypeOK', Calm, NEW p \in Procs, Busy(p), Becomes(p, Idle), acts' = acts,
           Len(jobs') <= Len(jobs) + (IF At(p, "commit") THEN 0 ELSE 1),
           \A i, j \in Present' : i = j,
           leader' => IsMember',
           Informed'
    PROVE  Calm'
  <1>1. OnlyOne' /\ ~Handling' /\ \A q \in Procs : ~Busy(q)'
    BY NobodyElse DEF Busy
  <1>2. Counted'
    <2>1. Len(jobs) \in Nat /\ Len(jobs') \in Nat /\ acts \in Nat
      BY DEF TypeOK
    <2>2. ~At(p, "commit") => Handling
      BY DEF Handling
    <2> QED BY <1>1, <2>1, <2>2 DEF Calm, Counted
  <1> QED BY <1>1, <1>2 DEF Calm

LEMMA LoadCreateCalm ==
    ASSUME TypeOK, TypeOK', Calm, NEW p \in Procs, LoadCreate(p), acts' = acts
    PROVE  Calm'
  <1>1. /\ Busy(p) /\ At(p, "load") /\ Does(p, "create") /\ Sound(p)
        /\ UNCHANGED <<rows, leader, pending, flags>>
    BY LoadsCreate DEF At, Calm
  <1>2. Present' = Present /\ IsMember' = IsMember /\ Wants(flags)' = Wants(flags)
    BY <1>1 DEF Present, IsMember, Wants
  <1>3. jobs \in Seq(BOOLEAN) /\ Len(jobs) \in Nat
    BY DEF TypeOK
  <1>4. CASE IsMember
    <2>1. /\ Becomes(p, Idle)
          /\ jobs' = IF p \in Threads THEN Append(jobs, TRUE) ELSE jobs
      BY <1>4, LoadsCreate
    <2>2. /\ Len(Append(jobs, TRUE)) = Len(jobs) + 1
          /\ \A i \in 1..Len(jobs) : Append(jobs, TRUE)[i] = jobs[i]
          /\ Append(jobs, TRUE)[Len(jobs) + 1] = TRUE
      BY <1>3, AppendProperties
    <2>3. Len(jobs') <= Len(jobs) + 1 /\ ~At(p, "commit")
      BY <1>1, <1>3, <2>1, <2>2 DEF At
    <2>4. \A i \in 1..Len(jobs) : \E j \in 1..Len(jobs)' : jobs'[j] = jobs[i]
      <3>1. ASSUME NEW i \in 1..Len(jobs) PROVE i \in 1..Len(jobs)' /\ jobs'[i] = jobs[i]
        BY <1>3, <2>1, <2>2
      <3> QED BY <3>1
    <2>5. Informed'
      <3> SUFFICES ASSUME IsMember # Wants(flags) PROVE Told(Wants(flags))'
        BY <1>2 DEF Informed
      <3>0. Wants(flags) = FALSE
        BY <1>4 DEF Wants
      <3>1. Told(FALSE)
        BY <3>0 DEF Calm, Informed
      <3>2. \A q \in Threads : ~(Busy(q) /\ Does(q, "create") = FALSE)
        BY <1>1 DEF Calm, OnlyOne, Procs
      <3>3. \E i \in 1..Len(jobs) : jobs[i] = FALSE
        BY <3>1, <3>2 DEF Told, Doing
      <3> QED BY <1>2, <2>4, <3>0, <3>3 DEF Told
    <2> QED BY <1>1, <1>2, <2>1, <2>3, <2>5, EndsCalm DEF Calm
  <1>5. CASE ~IsMember
    <2>1. PICK new \in Work :
              /\ Becomes(p, new)
              /\ new.op = "create" /\ new.step = "push"
              /\ new.seen = flags /\ new.to = Both(TRUE)
      BY <1>5, LoadsCreate
    <2>2. UNCHANGED jobs
      BY <1>5, LoadsCreate
    <2>3. /\ proc'[p] = new
          /\ \A q \in Procs \ {p} : ~Busy(q) /\ ~Busy(q)'
          /\ OnlyOne'
      BY <1>1, <2>1, NobodyElse
    <2>4. Sound(p)'
      BY <1>1, <1>2, <1>5, <2>1, <2>3 DEF Sound, Both
    <2>5. Informed'
      BY <1>1, <1>2, <2>1, <2>2, StillInformed, IdleAssumption DEF Does
    <2>6. Counted'
      <3>1. Handling
        BY <1>1 DEF Handling, At
      <3> QED BY <1>3, <2>2, <3>1 DEF Calm, Counted, TypeOK
    <2> QED BY <1>1, <1>2, <2>3, <2>4, <2>5, <2>6 DEF Calm
  <1> QED BY <1>4, <1>5

LEMMA LoadDestroyCalm ==
    ASSUME TypeOK, TypeOK', Calm, NEW p \in Procs, LoadDestroy(p), acts' = acts
    PROVE  Calm'
  <1>1. /\ Busy(p) /\ At(p, "load") /\ Does(p, "destroy") /\ Sound(p)
        /\ UNCHANGED <<rows, leader, pending, flags, jobs>>
    BY LoadsDestroy DEF At, Calm
  <1>2. Present' = Present /\ IsMember' = IsMember
    BY <1>1 DEF Present, IsMember
  <1>3. PICK new \in Work :
            /\ Becomes(p, new)
            /\ new.op = "destroy" /\ new.step = "push" /\ new.found = proc[p].found
            /\ new.seen = flags /\ new.to = Both(FALSE) /\ new.led = leader
    BY LoadsDestroy
  <1>4. /\ proc'[p] = new
        /\ \A q \in Procs \ {p} : ~Busy(q) /\ ~Busy(q)'
        /\ OnlyOne'
    BY <1>1, <1>3, NobodyElse
  <1>5. Sound(p)'
    BY <1>1, <1>2, <1>3, <1>4 DEF Sound, Both, Does
  <1>6. Informed'
    BY <1>1, <1>2, <1>3, StillInformed, IdleAssumption DEF Does
  <1>7. Counted'
    <2>1. Handling
      BY <1>1 DEF Handling, At
    <2>2. Len(jobs) \in Nat /\ acts \in Nat
      BY DEF TypeOK
    <2> QED BY <1>1, <2>1, <2>2 DEF Calm, Counted
  <1> QED BY <1>1, <1>2, <1>4, <1>5, <1>6, <1>7 DEF Calm

LEMMA StoreAcceptanceCalm ==
    ASSUME TypeOK, TypeOK', Calm, NEW p \in Procs, StoreAcceptance(p), acts' = acts
    PROVE  Calm'
  <1>1. /\ Busy(p) /\ Does(p, "accept") /\ Sound(p)
        /\ UNCHANGED <<leader, flags, jobs>> /\ Present' = Present /\ Becomes(p, Idle)
    BY StoresAcceptance DEF At, Calm
  <1>2. p \notin Threads
    BY <1>1 DEF Sound, Does
  <1>3. IsMember' = IsMember
    BY <1>1 DEF IsMember
  <1>4. Informed'
    BY <1>1, <1>2, <1>3, StillInformed
  <1>5. Len(jobs') <= Len(jobs) + (IF At(p, "commit") THEN 0 ELSE 1)
    BY <1>1 DEF TypeOK
  <1>6. (\A i, j \in Present' : i = j) /\ (leader' => IsMember')
    BY <1>1, <1>3 DEF Calm
  <1> QED BY <1>1, <1>4, <1>5, <1>6, EndsCalm

LEMMA PushCalm ==
    ASSUME TypeOK, TypeOK', Calm, NEW p \in Procs, Push(p), acts' = acts
    PROVE  Calm'
  <1>1. /\ Busy(p) /\ At(p, "push") /\ Sound(p) /\ proc[p] \in Work
        /\ UNCHANGED <<rows, leader, pending, flags>>
        /\ jobs' = IF Changes(proc[p]) THEN Append(jobs, Wants(proc[p].to)) ELSE jobs
    BY Pushes DEF At, Calm
  <1>2. PICK new \in Work :
            /\ Becomes(p, new)
            /\ new.op = proc[p].op /\ new.step = "commit" /\ new.found = proc[p].found
            /\ new.seen = proc[p].seen /\ new.to = proc[p].to /\ new.led = proc[p].led
    BY Pushes
  <1>3. Present' = Present /\ IsMember' = IsMember
    BY <1>1 DEF Present, IsMember
  <1>4. /\ proc'[p] = new
        /\ \A q \in Procs \ {p} : ~Busy(q) /\ ~Busy(q)'
        /\ OnlyOne'
        /\ ~Handling'
    BY <1>1, <1>2, NobodyElse
  <1> DEFINE b == Wants(proc[p].to)
  <1>5. /\ jobs \in Seq(BOOLEAN) /\ Len(jobs) \in Nat /\ b \in BOOLEAN
        /\ Len(Append(jobs, b)) = Len(jobs) + 1
        /\ \A i \in 1..Len(jobs) : Append(jobs, b)[i] = jobs[i]
        /\ Append(jobs, b)[Len(jobs) + 1] = b
    <2>1. jobs \in Seq(BOOLEAN) /\ Len(jobs) \in Nat /\ b \in BOOLEAN
      BY DEF TypeOK, Wants
    <2> HIDE DEF b
    <2> QED BY <2>1, AppendProperties
  <1>6. \A i \in 1..Len(jobs) : \E j \in 1..Len(jobs)' : jobs'[j] = jobs[i]
    <2> HIDE DEF b
    <2>0. jobs' = Append(jobs, b) \/ jobs' = jobs
      BY <1>1 DEF b
    <2>1. ASSUME NEW i \in 1..Len(jobs) PROVE i \in 1..Len(jobs)' /\ jobs'[i] = jobs[i]
      BY <1>5, <2>0
    <2> QED BY <2>1
  <1>7. Changes(proc[p]) => \E i \in 1..Len(jobs)' : jobs'[i] = b
    <2> HIDE DEF b
    <2>0. Changes(proc[p]) => jobs' = Append(jobs, b)
      BY <1>1 DEF b
    <2>1. Len(jobs) + 1 \in 1..Len(jobs) + 1
      BY <1>5
    <2> QED BY <1>5, <2>0, <2>1
  <1>8. Sound(p)'
    <2>1. proc[p].op = "set" => Changes(proc[p])
      BY <1>1 DEF Sound, Changes
    <2>2. Wants(new.to)' = b
      BY <1>2 DEF Wants
    <2>3. proc[p].step = "push"
      BY <1>1 DEF At
    <2> HIDE DEF b
    <2> QED BY <1>1, <1>2, <1>3, <1>4, <1>7, <2>1, <2>2, <2>3 DEF Sound, Both
  <1>9. Informed'
    BY <1>1, <1>2, <1>3, <1>6, StillInformed, IdleAssumption
  <1>10. Counted'
    <2> HIDE DEF b
    <2>1. Handling
      BY <1>1 DEF Handling, At
    <2>2. Len(jobs') <= Len(jobs) + 1
      BY <1>1, <1>5 DEF b
    <2>3. acts \in Nat /\ Len(jobs') \in Nat
      BY DEF TypeOK
    <2> QED BY <1>4, <1>5, <2>1, <2>2, <2>3 DEF Calm, Counted
  <1> QED BY <1>1, <1>3, <1>4, <1>8, <1>9, <1>10 DEF Calm

LEMMA CommitCalm ==
    ASSUME TypeOK, TypeOK', Calm, NEW p \in Procs, Commit(p), acts' = acts
    PROVE  Calm'
  <1>1. Busy(p) /\ At(p, "commit") /\ Sound(p) /\ proc[p] \in Work /\ UNCHANGED jobs
    BY CommitsCreate, CommitsDestroy, CommitsOther DEF Commit, At, Calm
  <1>2. proc[p].step = "commit" /\ Len(jobs') <= Len(jobs) + (IF At(p, "commit") THEN 0 ELSE 1)
    BY <1>1 DEF At, TypeOK
  <1>3. CASE CommitCreate(p)
    <2>1. /\ Does(p, "create") /\ flags' = Stored(proc[p]) /\ Becomes(p, Idle)
          /\ UNCHANGED leader
      BY <1>3, CommitsCreate
    <2>2. PICK i \in RowIds : Present' = Present \cup {i}
      BY <1>3, CommitsCreate
    <2>3. proc[p].seen = flags /\ proc[p].to = Both(TRUE) /\ ~IsMember
      BY <1>1, <1>2, <2>1 DEF Sound, Does
    <2>4. Present' = {i} /\ IsMember'
      BY <2>2, <2>3 DEF IsMember
    <2>5. flags' = Both(TRUE)
      BY <1>1, <2>1, <2>3, StoredFlags
    <2>6. Wants(flags)' = TRUE
      BY <2>5 DEF Wants, Both
    <2>7. Informed'
      BY <2>4, <2>6 DEF Informed, IsMember
    <2> QED BY <1>1, <1>2, <2>1, <2>4, <2>7, EndsCalm
  <1>4. CASE CommitDestroy(p)
    <2>1. Does(p, "destroy") /\ flags' = Stored(proc[p]) /\ leader' = (leader /\ ~proc[p].led)
      BY <1>4, CommitsDestroy
    <2>2. PICK i \in proc[p].found :
             /\ Present' = Present \ {i}
             /\ proc[p].found # {i} \/ Becomes(p, Idle)
      BY <1>4, CommitsDestroy
    <2>3. /\ proc[p].seen = flags /\ proc[p].to = Both(FALSE) /\ (leader => proc[p].led)
          /\ Present = proc[p].found /\ \E j \in RowIds : Present = {j}
      BY <1>1, <1>2, <2>1 DEF Sound, Does
    <2>4. Present = {i} /\ Present' = {} /\ Becomes(p, Idle)
      BY <2>2, <2>3
    <2>5. flags' = Both(FALSE)
      BY <1>1, <2>1, <2>3, StoredFlags
    <2>6. Wants(flags)' = FALSE /\ IsMember' = FALSE
      BY <2>4, <2>5 DEF Wants, Both, IsMember
    <2>7. Informed'
      BY <2>6 DEF Informed
    <2>8. ~leader'
      BY <2>1, <2>3
    <2> QED BY <1>1, <1>2, <2>4, <2>7, <2>8, EndsCalm
  <1>5. CASE CommitChoice(p) \/ CommitLeader(p)
    <2>1. /\ Becomes(p, Idle) /\ Present' = Present
          /\ \/ Does(p, "set") /\ UNCHANGED leader /\ flags' = Stored(proc[p])
             \/ Does(p, "lead") /\ leader' = TRUE /\ UNCHANGED flags
      BY <1>5, CommitsOther
    <2>2. IsMember' = IsMember
      BY <2>1 DEF IsMember
    <2>3. p \notin Threads
      BY <1>1, <2>1 DEF Sound, Does
    <2>4. CASE Does(p, "set") /\ UNCHANGED leader /\ flags' = Stored(proc[p])
      <3>1. /\ proc[p].seen = flags
            /\ \/ IsMember = Wants(proc[p].to)
               \/ \E i \in 1..Len(jobs) : jobs[i] = Wants(proc[p].to)
        BY <1>1, <1>2, <2>4 DEF Sound, Does
      <3>2. flags' = proc[p].to
        BY <1>1, <2>4, <3>1, StoredFlags
      <3>3. Informed'
        BY <1>1, <2>2, <3>1, <3>2 DEF Informed, Told, Wants
      <3> QED BY <1>1, <1>2, <2>1, <2>2, <2>4, <3>3, EndsCalm DEF Calm
    <2>5. CASE Does(p, "lead") /\ leader' = TRUE /\ UNCHANGED flags
      <3>1. IsMember
        BY <1>1, <2>5 DEF Sound, Does
      <3>2. Informed'
        BY <1>1, <2>1, <2>2, <2>3, <2>5, StillInformed
      <3> QED BY <1>1, <1>2, <2>1, <2>2, <3>1, <3>2, EndsCalm DEF Calm
    <2> QED BY <2>1, <2>4, <2>5
  <1> QED BY <1>3, <1>4, <1>5 DEF Commit

LEMMA InitCalm ==
    ASSUME Init PROVE Calm
  <1>1. \A p \in Procs : ~Busy(p)
    BY DEF Init, Busy
  <1>2. 1 \in RowIds /\ Present \subseteq {1}
    BY BoundAssumption DEF Init, Present, RowIds
  <1>3. PICK how \in {"pending", "accepted"} :
            rows = [i \in RowIds |-> IF i = 1 /\ Wants(flags) THEN how ELSE "none"]
    BY DEF Init
  <1>4. IsMember = Wants(flags)
    BY <1>2, <1>3 DEF IsMember, Present, Wants
  <1>5. leader => IsMember
    BY DEF Init, IsMember, Present
  <1>6. ~Handling
    BY <1>1 DEF Handling
  <1>7. Counted
    BY <1>6 DEF Counted, Init
  <1> QED BY <1>1, <1>2, <1>4, <1>5, <1>7 DEF Calm, OnlyOne, Informed

LEMMA NextCalm ==
    ASSUME TypeOK, ~disturbed => Calm, [Next]_vars, ~disturbed' PROVE Calm'
  <1>0. TypeOK'
    BY NextType
  <1>1. ASSUME NEW w \in Webs, Join(w) \/ Leave(w) \/ Choose(w) \/ Lead(w) PROVE Calm'
    <2>1. ~disturbed
      BY <1>1, Asks DEF Hold
    <2> QED BY <1>0, <1>1, <2>1, AsksCalm
  <1>2. ASSUME NEW w \in Webs, Administer(w) PROVE Calm'
    <2>1. ~disturbed
      BY <1>2, Administers
    <2> QED BY <1>0, <1>2, <2>1, AdministersCalm
  <1>3. ASSUME NEW t \in Threads, Perform(t) PROVE Calm'
    <2>1. ~disturbed
      BY <1>3, Performs DEF Hold
    <2> QED BY <1>0, <1>3, <2>1, PerformsCalm
  <1>4. ASSUME NEW p \in Procs, Proceed(p) PROVE Calm'
    <2>1. ~disturbed /\ acts' = acts
      BY <1>4 DEF Proceed
    <2> QED BY <1>0, <1>4, <2>1, LoadCreateCalm, LoadDestroyCalm, StoreAcceptanceCalm,
               PushCalm, CommitCalm DEF Proceed
  <1>5. ASSUME NEW p \in Procs, Stop(p) PROVE Calm'
    BY <1>5, Stops
  <1>6. CASE UNCHANGED vars
    <2>1. UNCHANGED <<rows, leader, flags, jobs, proc, acts, disturbed>>
      BY <1>6 DEF vars, settings
    <2>2. Present' = Present /\ IsMember' = IsMember
      BY <2>1 DEF Present, IsMember
    <2>3. \A p \in Procs : (Busy(p)' <=> Busy(p)) /\ (At(p, "commit")' <=> At(p, "commit"))
      BY <2>1 DEF Busy, At
    <2>4. OnlyOne' /\ (Handling' <=> Handling)
      BY <2>1, <2>3 DEF Calm, OnlyOne, Handling
    <2>5. ASSUME NEW p \in Procs, Busy(p)' PROVE Sound(p)'
      BY <2>1, <2>2, <2>3, <2>5 DEF Calm, Sound
    <2>6. Informed'
      BY <2>1, <2>2 DEF Calm, Informed, Told, Doing, Busy, Does
    <2> QED BY <2>1, <2>2, <2>4, <2>5, <2>6 DEF Calm, Counted
  <1> QED BY <1>1, <1>2, <1>3, <1>4, <1>5, <1>6 DEF Next, Ask

\* As long as no two handlers overlapped, a leader of the group is in it.
THEOREM LeadersStay == Spec => []LeaderIsMember
  <1>1. Init => (~disturbed => Calm)
    BY InitCalm
  <1>2. TypeOK /\ (~disturbed => Calm) /\ [Next]_vars => (~disturbed => Calm)'
    BY NextCalm
  <1>3. (~disturbed => Calm) => LeaderIsMember
    BY DEF LeaderIsMember, Calm
  <1> QED BY <1>1, <1>2, <1>3, InitType, NextType, PTL DEF Spec

\* As long as no two handlers overlapped, a membership that disagrees with the
\* flags has a job or a thread that was told the flags as they are.
THEOREM FlagsAreTold == Spec => []DisagreementIsTold
  <1>1. Init => (~disturbed => Calm)
    BY InitCalm
  <1>2. TypeOK /\ (~disturbed => Calm) /\ [Next]_vars => (~disturbed => Calm)'
    BY NextCalm
  <1>3. (~disturbed => Calm) => DisagreementIsTold
    BY DEF DisagreementIsTold, Calm, Informed
  <1> QED BY <1>1, <1>2, <1>3, InitType, NextType, PTL DEF Spec

\* As long as no two handlers overlapped, there are never more jobs than requests
\* that were made.
THEOREM JobsBounded == Spec => []JobsDoNotMultiply
  <1>1. Init => (~disturbed => Calm)
    BY InitCalm
  <1>2. TypeOK /\ (~disturbed => Calm) /\ [Next]_vars => (~disturbed => Calm)'
    BY NextCalm
  <1>3. TypeOK /\ (~disturbed => Calm) => JobsDoNotMultiply
    <2> SUFFICES ASSUME TypeOK, Calm
                 PROVE  Len(jobs) + Cardinality({t \in Threads : Busy(t) /\ ~At(t, "commit")})
                           <= acts
      BY DEF JobsDoNotMultiply
    <2> DEFINE working == {t \in Threads : Busy(t) /\ ~At(t, "commit")}
    <2>1. Len(jobs) \in Nat /\ acts \in Nat
      BY DEF TypeOK
    <2>2. CASE working = {}
      <3>1. Cardinality(working) = 0
        BY <2>2, FS_EmptySet
      <3> QED BY <2>1, <3>1 DEF Calm, Counted
    <2>3. CASE working # {}
      <3>1. PICK t \in working : TRUE
        BY <2>3
      <3>2. working = {t} /\ Handling
        BY <3>1 DEF Calm, OnlyOne, Handling, Procs
      <3>3. Cardinality(working) = 1
        BY <3>2, FS_Singleton
      <3> QED BY <2>1, <3>2, <3>3 DEF Calm, Counted
    <2> QED BY <2>2, <2>3
  <1> QED BY <1>1, <1>2, <1>3, InitType, NextType, PTL DEF Spec
=============================================================================
