---------------------------- MODULE RewardsProofs ----------------------------
(***************************************************************************)
(* What holds of Rewards for any number of users, sessions, events and     *)
(* rewards.  Apart from type correctness, the theorems are about users who *)
(* have one session each: the properties say so themselves.                *)
(***************************************************************************)
EXTENDS Rewards, FiniteSetTheorems, WellFoundedInduction, TLAPS

-----------------------------------------------------------------------------
(* Type correctness.  An approval in flight is about a reward of a user.   *)

Owned ==
    /\ \A r \in Redemptions : redemption[r].status # "absent" =>
                                 redemption[r].user \in Users
    /\ admin.step # "idle" => /\ admin.row \in Redemptions
                              /\ redemption[admin.row].status # "absent"

Placed ==
    \A s \in Sessions :
        req[s] # NoRequest /\ req[s].step \in {"insert", "earn", "delete", "lose"}
            => req[s].event \in Events

TInv == TypeOK /\ Owned /\ Placed

USE SessionAssumption, PointsAssumption, RowsAssumption

LEMMA InitTInv == Init => TInv
  BY DEF Init, TInv, TypeOK, Owned, Placed, Columns, Approval, NoApproval

LEMMA InFlight ==
    ASSUME TypeOK, NEW s \in Sessions, req[s] # NoRequest
    PROVE  req[s] \in Request
  BY DEF TypeOK

RequestSteps ==
    {"insert", "earn", "delete", "lose", "total", "save", "create"} \cup WeeklySteps

\* What the manager does to a request between two transactions.
Moved(r, step, worth, read) ==
    [r EXCEPT !.step = step, !.worth = worth, !.read = read]

Moves(s, step, worth, read) ==
    req' = [req EXCEPT ![s] = Moved(req[s], step, worth, read)]

LEMMA MovedType ==
    ASSUME NEW r \in Request, NEW step \in RequestSteps, NEW worth \in Nat, NEW read \in Nat
    PROVE  /\ Moved(r, step, worth, read) \in Request
           /\ Moved(r, step, worth, read).step = step
           /\ Moved(r, step, worth, read).worth = worth
           /\ Moved(r, step, worth, read).read = read
           /\ Moved(r, step, worth, read).seen = r.seen
           /\ Moved(r, step, worth, read).event = r.event
           /\ Moved(r, step, worth, read).row = r.row
           /\ Moved(r, step, worth, read).op = r.op
  BY DEF Moved, Request, RequestSteps

LEMMA MovedForms ==
    ASSUME NEW r \in Request, NEW step \in RequestSteps, NEW n \in Nat
    PROVE  /\ r.worth \in Nat /\ r.read \in Nat
           /\ [r EXCEPT !.step = step] = Moved(r, step, r.worth, r.read)
           /\ [r EXCEPT !.step = step, !.worth = n] = Moved(r, step, n, r.read)
           /\ [r EXCEPT !.step = step, !.read = n] = Moved(r, step, r.worth, n)
  BY DEF Moved, Request

\* Storing a request.
LEMMA RequestType ==
    ASSUME TypeOK, NEW s \in Sessions
    PROVE  \A q \in Request \cup {NoRequest} :
              [req EXCEPT ![s] = q] \in [Sessions -> Request \cup {NoRequest}]
  BY DEF TypeOK

LEMMA LoadType ==
    ASSUME TypeOK, NEW s \in Sessions, NEW op \in {"attend", "unattend", "redeem"},
           NEW step \in {"insert", "delete", "create"}, NEW e \in Events \cup {0},
           NEW row \in Nat, NEW cost \in Nat, Load(s, op, step, e, row, cost)
    PROVE  /\ req' \in [Sessions -> Request \cup {NoRequest}]
           /\ req[s] = NoRequest /\ req'[s] # NoRequest
           /\ req'[s].step = step /\ req'[s].cost = cost
           /\ req'[s].seen = user[SessionUser[s]]
  <1>1. user[SessionUser[s]] \in Columns
    BY DEF TypeOK
  <1>2. [op |-> op, step |-> step, event |-> e, row |-> row,
         seen |-> user[SessionUser[s]], worth |-> 0, read |-> 0,
         total |-> NoTotals, cost |-> cost] \in Request
    BY <1>1 DEF Request, NoTotals, Totals
  <1>3. /\ req[s] = NoRequest
        /\ req'[s] = [op |-> op, step |-> step, event |-> e, row |-> row,
                      seen |-> user[SessionUser[s]], worth |-> 0, read |-> 0,
                      total |-> NoTotals, cost |-> cost]
    BY DEF Load, TypeOK
  <1>4. req' \in [Sessions -> Request \cup {NoRequest}]
    BY <1>2, RequestType DEF Load
  <1> QED BY <1>2, <1>3, <1>4, IdleAssumption

\* A request that goes on keeps everything but its step, what the action is
\* worth and the total it has read.
LEMMA MoveType ==
    ASSUME TypeOK, NEW s \in Sessions, req[s] # NoRequest, NEW step \in RequestSteps,
           NEW worth \in Nat, NEW read \in Nat, Moves(s, step, worth, read)
    PROVE  /\ req' \in [Sessions -> Request \cup {NoRequest}]
           /\ req[s] \in Request /\ req'[s] \in Request /\ req'[s] # NoRequest
           /\ req'[s].step = step /\ req'[s].worth = worth /\ req'[s].read = read
           /\ req'[s].seen = req[s].seen /\ req'[s].event = req[s].event
           /\ req'[s].op = req[s].op
           /\ \A t \in Sessions \ {s} : req'[t] = req[t]
  <1>1. req[s] \in Request
    BY InFlight
  <1>2. Moved(req[s], step, worth, read) \in Request
    BY <1>1, MovedType
  <1>3. req'[s] = Moved(req[s], step, worth, read)
    BY DEF TypeOK, Moves
  <1>4. req' \in [Sessions -> Request \cup {NoRequest}]
    BY <1>2, RequestType DEF Moves
  <1>5. \A t \in Sessions \ {s} : req'[t] = req[t]
    BY DEF TypeOK, Moves
  <1> QED BY <1>1, <1>2, <1>3, <1>4, <1>5, MovedType, IdleAssumption

LEMMA GotoType ==
    ASSUME TypeOK, NEW s \in Sessions, req[s] # NoRequest,
           NEW step \in RequestSteps, Goto(s, step)
    PROVE  /\ req[s].worth \in Nat /\ req[s].read \in Nat
           /\ req' \in [Sessions -> Request \cup {NoRequest}]
           /\ req[s] \in Request /\ req'[s] \in Request /\ req'[s] # NoRequest
           /\ req'[s].step = step
           /\ req'[s].worth = req[s].worth /\ req'[s].read = req[s].read
           /\ req'[s].seen = req[s].seen /\ req'[s].event = req[s].event
           /\ req'[s].op = req[s].op
           /\ \A t \in Sessions \ {s} : req'[t] = req[t]
  <1>1. req[s] \in Request
    BY InFlight
  <1>2. req' = [req EXCEPT ![s] = [req[s] EXCEPT !.step = step]]
    BY DEF Goto, TypeOK
  <1>3. /\ req[s].worth \in Nat /\ req[s].read \in Nat
        /\ [req[s] EXCEPT !.step = step]
              = Moved(req[s], step, req[s].worth, req[s].read)
    BY <1>1, MovedForms
  <1>4. Moves(s, step, req[s].worth, req[s].read)
    BY <1>2, <1>3 DEF Moves
  <1> QED BY <1>3, <1>4, MoveType

LEMMA MinRow ==
    ASSUME NEW S, S \subseteq Rows, S # {}
    PROVE  Min(S) \in S
  <1>1. PICK m \in S : \A y \in S : ~(<<y, m>> \in OpToRel(<, Nat))
    BY NatLessThanWellFounded, WFMin
  <1>2. \A y \in S : m <= y
    <2> TAKE y \in S
    <2>1. m \in Nat /\ y \in Nat
      OBVIOUS
    <2>2. ~(y < m)
      BY <1>1, <2>1 DEF OpToRel
    <2> QED BY <2>1, <2>2
  <1> QED BY <1>2 DEF Min

\* The requests about attendances.
LEMMA AttendanceType ==
    ASSUME TInv, NEW s \in Sessions,
           \/ \E e \in Events : Attend(s, e) \/ Unattend(s, e)
           \/ Redeem(s)
           \/ Insert(s) \/ Delete(s)
    PROVE  TInv'
  <1> USE DEF TInv
  <1>1. Owned'
    BY DEF Owned, Attend, Unattend, Redeem, Insert, Delete, points, mailing
  <1>2. req' \in [Sessions -> Request \cup {NoRequest}]
    <2>1. CASE \E e \in Events : Attend(s, e)
      BY <2>1, LoadType DEF Attend
    <2>2. CASE \E e \in Events : Unattend(s, e)
      <3>1. PICK e \in Events : Unattend(s, e)
        BY <2>2
      <3>2. PICK row \in rows[SessionUser[s]][e] : Load(s, "unattend", "delete", e, row, 0)
        BY <3>1 DEF Unattend
      <3>3. row \in Nat
        BY <3>2 DEF TypeOK
      <3> QED BY <3>2, <3>3, LoadType
    <2>3. CASE Redeem(s)
      BY <2>3, LoadType DEF Redeem
    <2>4. CASE Insert(s)
      BY <2>4, GotoType DEF Insert, At, RequestSteps
    <2>5. CASE Delete(s)
      BY <2>5, GotoType DEF Delete, At, RequestSteps
    <2> QED BY <2>1, <2>2, <2>3, <2>4, <2>5
  <1>3. rows' \in [Users -> [Events -> SUBSET Rows]]
    <2> DEFINE u == SessionUser[s]  e == req[s].event
    <2>1. CASE Insert(s) \/ Delete(s)
      <3>1. PICK new \in SUBSET Rows : rows' = [rows EXCEPT ![u][e] = new]
        <4>1. u \in Users /\ e \in Events
          BY <2>1 DEF Insert, Delete, At, Placed
        <4>2. rows[u][e] \in SUBSET Rows
          BY <4>1 DEF TypeOK
        <4>3. CASE Insert(s)
          <5>1. PICK row \in Rows : rows' = [rows EXCEPT ![u][e] = @ \cup {row}]
            <6> DEFINE free == Rows \ (rows[u][e] \cup Held(u, e))
            <6>1. /\ free # {} /\ free \subseteq Rows
                  /\ rows' = [rows EXCEPT ![u][e] = @ \cup {Min(free)}]
              BY <4>3 DEF Insert
            <6> HIDE DEF free
            <6>2. Min(free) \in Rows
              BY <6>1, MinRow
            <6> QED BY <6>1, <6>2
          <5>2. rows' = [rows EXCEPT ![u][e] = rows[u][e] \cup {row}]
            BY <5>1, <4>1 DEF TypeOK
          <5> QED BY <5>2, <4>2
        <4>4. CASE Delete(s)
          <5>1. rows' = [rows EXCEPT ![u][e] = rows[u][e] \ {req[s].row}]
            BY <4>4, <4>1 DEF TypeOK, Delete
          <5> QED BY <5>1, <4>2
        <4> QED BY <2>1, <4>3, <4>4
      <3>2. [rows[u] EXCEPT ![e] = new] \in [Events -> SUBSET Rows]
        BY DEF TypeOK
      <3>3. rows' = [rows EXCEPT ![u] = [rows[u] EXCEPT ![e] = new]]
        BY <3>1 DEF TypeOK
      <3> QED BY <3>2, <3>3 DEF TypeOK
    <2>2. CASE rows' = rows
      BY <2>2 DEF TypeOK
    <2> QED BY <2>1, <2>2 DEF Attend, Unattend, Redeem, points
  <1>4. UNCHANGED <<ledger, earned, weekly, spent, user, redemption, admin,
                    reset, overtaken, jobs, told>>
    BY DEF Attend, Unattend, Redeem, Insert, Delete, points, mailing, resetting
  <1>5. Placed'
    <2> SUFFICES ASSUME NEW t \in Sessions, req'[t] # NoRequest,
                        req'[t].step \in {"insert", "earn", "delete", "lose"}
        PROVE  req'[t].event \in Events
      BY DEF Placed
    <2>1. CASE t # s
      BY <2>1 DEF Placed, TypeOK, Attend, Unattend, Redeem, Insert, Delete, Load, Goto
    <2>2. CASE t = s /\ (Insert(s) \/ Delete(s))
      <3>1. req[s] \in Request /\ req[s].event \in Events
        BY <2>2, InFlight DEF Placed, Insert, Delete, At
      <3>2. req'[s].event = req[s].event
        BY <2>2, GotoType DEF Insert, Delete, At, RequestSteps
      <3> QED BY <3>1, <3>2, <2>2
    <2>3. CASE t = s /\ ~(Insert(s) \/ Delete(s))
      BY <2>3 DEF TypeOK, Attend, Unattend, Redeem, Load
    <2> QED BY <2>1, <2>2, <2>3
  <1>6. TypeOK'
    BY <1>2, <1>3, <1>4 DEF TypeOK
  <1> QED BY <1>1, <1>5, <1>6

LEMMA LedgerType ==
    ASSUME TypeOK, NEW u \in Users, NEW e, NEW change \in Int, NEW last \in Nat,
           Ledger(u, e, change, last)
    PROVE  /\ ledger' \in [Users -> [Events -> [net: Int, last: Nat]]]
           /\ earned' \in [Users -> Int]
  <1>1. earned' \in [Users -> Int]
    BY DEF Ledger, TypeOK
  <1>2. ledger' = [ledger EXCEPT ![u] = [ledger[u] EXCEPT ![e] =
                     [net |-> ledger[u][e].net + change, last |-> last]]]
    BY DEF Ledger, TypeOK
  <1>3. [ledger[u] EXCEPT ![e] = [net |-> ledger[u][e].net + change, last |-> last]]
          \in [Events -> [net: Int, last: Nat]]
    <2>1. ledger[u] \in [Events -> [net: Int, last: Nat]]
      BY DEF TypeOK
    <2>2. CASE e \in Events
      <3>1. ledger[u][e].net \in Int
        BY <2>1, <2>2
      <3>2. [net |-> ledger[u][e].net + change, last |-> last] \in [net: Int, last: Nat]
        BY <3>1
      <3> QED BY <2>1, <3>2
    <2>3. CASE e \notin Events
      BY <2>1, <2>3
    <2> QED BY <2>2, <2>3
  <1> QED BY <1>1, <1>2, <1>3 DEF TypeOK

LEMMA ManagerType ==
    ASSUME TInv, NEW s \in Sessions, Earn(s) \/ Lose(s)
    PROVE  /\ TInv'
           /\ req[s] # NoRequest /\ req[s].step \in {"earn", "lose"}
           /\ req[s] \in Request /\ req'[s] \in Request /\ req'[s] # NoRequest
           /\ req'[s].step = "user"
           /\ req'[s].seen = req[s].seen /\ req'[s].event = req[s].event
           /\ \A t \in Sessions \ {s} : req'[t] = req[t]
  <1> USE DEF TInv
  <1> DEFINE u == SessionUser[s]  e == req[s].event
  <1>1. /\ req[s] # NoRequest /\ req[s].step \in {"earn", "lose"}
        /\ req[s] \in Request /\ u \in Users
    BY InFlight DEF Earn, Lose, At
  <1>2. /\ ledger' \in [Users -> [Events -> [net: Int, last: Nat]]]
        /\ earned' \in [Users -> Int]
    <2>1. CASE Earn(s)
      <3>1. PICK worth \in Worths : Ledger(u, e, worth, worth)
        BY <2>1 DEF Earn
      <3> QED BY <3>1, <1>1, LedgerType
    <2>2. CASE Lose(s)
      <3>1. e \in Events
        BY <2>2 DEF Lose, At, Placed
      <3>2. ledger[u][e].last \in Nat
        BY <1>1, <3>1 DEF TypeOK
      <3>3. Ledger(u, e, -ledger[u][e].last, ledger[u][e].last)
        BY <2>2 DEF Lose
      <3> QED BY <3>2, <3>3, <1>1, LedgerType
    <2> QED BY <2>1, <2>2
  <1>3. PICK worth \in Nat : Moves(s, "user", worth, req[s].read)
    <2>1. PICK worth \in Worths :
             req' = [req EXCEPT ![s] = [req[s] EXCEPT !.step = "user", !.worth = worth]]
      BY DEF Earn, Lose, TypeOK
    <2>2. "user" \in RequestSteps /\ worth \in Nat
      BY DEF RequestSteps, WeeklySteps
    <2>3. [req[s] EXCEPT !.step = "user", !.worth = worth]
             = Moved(req[s], "user", worth, req[s].read)
      BY <1>1, <2>2, MovedForms
    <2> QED BY <2>1, <2>2, <2>3 DEF Moves
  <1>4. /\ req' \in [Sessions -> Request \cup {NoRequest}]
        /\ req'[s] \in Request /\ req'[s] # NoRequest /\ req'[s].step = "user"
        /\ req'[s].seen = req[s].seen /\ req'[s].event = req[s].event
        /\ \A t \in Sessions \ {s} : req'[t] = req[t]
    <2>1. req[s].read \in Nat /\ "user" \in RequestSteps
      BY <1>1 DEF Request, RequestSteps, WeeklySteps
    <2> QED BY <1>1, <1>3, <2>1, MoveType
  <1>5. UNCHANGED <<rows, weekly, spent, user, redemption, admin, reset, overtaken,
                    jobs, told>>
    BY DEF Earn, Lose, mailing, resetting
  <1>6. Placed'
    BY <1>4 DEF Placed
  <1>7. TypeOK'
    BY <1>2, <1>4, <1>5 DEF TypeOK
  <1> QED BY <1>1, <1>4, <1>5, <1>6, <1>7 DEF Owned

\* The updates of the weekly totals.
LEMMA WeeklyType ==
    ASSUME NEW r \in Request, NEW total \in Nat, NEW column \in Nat
    PROVE  After(r, total) \in Nat /\ Weekly(r, total, column) \in Nat
  <1>1. After(r, total) \in Nat
    BY DEF After, Minus, Request
  <1> QED BY <1>1 DEF Weekly, Changed

WeeklyUpdate(s) ==
    \/ UserWeekly(s) \/ ReadGroup(s) \/ GroupWeekly(s) \/ ReadMember(s) \/ MemberWeekly(s)

LEMMA WeeklyMoves ==
    ASSUME TypeOK, NEW s \in Sessions, WeeklyUpdate(s)
    PROVE  /\ req[s] # NoRequest /\ req[s].step \in WeeklySteps
           /\ req' \in [Sessions -> Request \cup {NoRequest}]
           /\ req[s] \in Request /\ req'[s] \in Request /\ req'[s] # NoRequest
           /\ UserWeekly(s) => req[s].step = "user" /\ req'[s].step = "group"
           /\ ReadGroup(s) => req[s].step = "group" /\ req'[s].step = "groupWeekly"
           /\ GroupWeekly(s) => req[s].step = "groupWeekly" /\ req'[s].step = "member"
           /\ ReadMember(s) => req[s].step = "member" /\ req'[s].step = "memberWeekly"
           /\ MemberWeekly(s) => req[s].step = "memberWeekly" /\ req'[s].step = "total"
           /\ req'[s].seen = req[s].seen /\ req'[s].event = req[s].event
           /\ req'[s].worth = req[s].worth /\ req'[s].op = req[s].op
           /\ \A t \in Sessions \ {s} : req'[t] = req[t]
  <1> USE DEF RequestSteps, WeeklySteps
  <1>1. CASE UserWeekly(s) \/ GroupWeekly(s) \/ MemberWeekly(s)
    BY <1>1, GotoType DEF UserWeekly, GroupWeekly, MemberWeekly, ReadGroup, ReadMember, At
  <1>2. CASE ReadGroup(s) \/ ReadMember(s)
    <2>1. /\ req[s] # NoRequest /\ req[s].step = IF ReadGroup(s) THEN "group" ELSE "member"
          /\ ~UserWeekly(s) /\ ~GroupWeekly(s) /\ ~MemberWeekly(s)
          /\ ReadGroup(s) => ~ReadMember(s)
      BY <1>2 DEF UserWeekly, GroupWeekly, MemberWeekly, ReadGroup, ReadMember, At
    <2>2. req[s] \in Request
      BY <2>1, InFlight
    <2> DEFINE step == IF ReadGroup(s) THEN "groupWeekly" ELSE "memberWeekly"
               total == IF ReadGroup(s) THEN weekly.group ELSE weekly.member[SessionUser[s]]
    <2>3. total \in Nat /\ step \in RequestSteps
      BY DEF TypeOK
    <2>4. req' = [req EXCEPT ![s] = [req[s] EXCEPT !.step = step, !.read = total]]
      BY <1>2 DEF ReadGroup, ReadMember, TypeOK
    <2> HIDE DEF step, total
    <2>5. /\ req[s].worth \in Nat
          /\ [req[s] EXCEPT !.step = step, !.read = total]
                = Moved(req[s], step, req[s].worth, total)
      <3>1. req[s].worth \in Nat
        BY <2>2 DEF Request
      <3>2. [req[s] EXCEPT !.step = step, !.read = total]
               = Moved(req[s], step, req[s].worth, total)
        BY <2>2, <2>3 DEF Moved, Request
      <3> QED BY <3>1, <3>2
    <2>6. Moves(s, step, req[s].worth, total)
      BY <2>4, <2>5 DEF Moves
    <2>7. /\ req' \in [Sessions -> Request \cup {NoRequest}]
          /\ req'[s] \in Request /\ req'[s] # NoRequest /\ req'[s].step = step
          /\ req'[s].seen = req[s].seen /\ req'[s].event = req[s].event
          /\ req'[s].worth = req[s].worth /\ req'[s].op = req[s].op
          /\ \A t \in Sessions \ {s} : req'[t] = req[t]
      BY <2>1, <2>3, <2>5, <2>6, MoveType
    <2> QED BY <1>2, <2>1, <2>2, <2>7 DEF step
  <1> QED BY <1>1, <1>2 DEF WeeklyUpdate

\* What each update writes, with the total the request has in memory.
LEMMA WeeklyWrites ==
    ASSUME TypeOK, NEW s \in Sessions, WeeklyUpdate(s)
    PROVE  LET u == SessionUser[s]  r == req[s]
           IN  /\ UserWeekly(s) =>
                     /\ user' = [user EXCEPT ![u] = [user[u] EXCEPT !.weekly =
                                   Weekly(r, r.seen.weekly, user[u].weekly)]]
                     /\ weekly' = weekly
               /\ ~UserWeekly(s) => user' = user
               /\ GroupWeekly(s) =>
                     weekly' = [weekly EXCEPT !.group = Weekly(r, r.read, weekly.group)]
               /\ MemberWeekly(s) =>
                     weekly' = [weekly EXCEPT !.member = [weekly.member EXCEPT ![u] =
                                  Weekly(r, r.read, weekly.member[u])]]
               /\ ReadGroup(s) \/ ReadMember(s) => weekly' = weekly
               /\ UNCHANGED <<rows, ledger, earned, spent, redemption, admin, reset,
                              overtaken, jobs, told>>
  <1>1. UNCHANGED <<rows, ledger, earned, spent, redemption, admin, reset,
                    overtaken, jobs, told>>
    BY DEF WeeklyUpdate, UserWeekly, ReadGroup, GroupWeekly, ReadMember, MemberWeekly,
           points, mailing, resetting
  <1>2. CASE UserWeekly(s)
    <2>1. ~GroupWeekly(s) /\ ~MemberWeekly(s)
      BY <1>2 DEF UserWeekly, GroupWeekly, MemberWeekly, At
    <2> QED BY <1>1, <1>2, <2>1 DEF UserWeekly, TypeOK, points
  <1>3. CASE ~UserWeekly(s)
    BY <1>1, <1>3 DEF WeeklyUpdate, ReadGroup, GroupWeekly, ReadMember, MemberWeekly,
       TypeOK, points
  <1> QED BY <1>2, <1>3

LEMMA MemberWrites ==
    ASSUME TypeOK, NEW s \in Sessions, WeeklyUpdate(s)
    PROVE  LET u == SessionUser[s]
           IN  /\ MemberWeekly(s) =>
                     weekly'.member = [weekly.member EXCEPT ![u] =
                        Weekly(req[s], req[s].read, weekly.member[u])]
               /\ ~MemberWeekly(s) => weekly'.member = weekly.member
  <1> DEFINE new == [weekly.member EXCEPT ![SessionUser[s]] =
                        Weekly(req[s], req[s].read, weekly.member[SessionUser[s]])]
  <1>1. weekly \in [group: Nat, member: [Users -> Nat]]
    BY DEF TypeOK
  <1>2. CASE MemberWeekly(s)
    <2>1. weekly' = [weekly EXCEPT !.member = new]
      BY <1>2, WeeklyWrites
    <2> HIDE DEF new
    <2>2. weekly'.member = new
      BY <1>1, <2>1
    <2> QED BY <1>2, <2>2 DEF new
  <1>3. CASE ~MemberWeekly(s)
    <2>1. weekly' = weekly \/ \E n : weekly' = [weekly EXCEPT !.group = n]
      BY <1>3, WeeklyWrites DEF WeeklyUpdate
    <2> QED BY <1>1, <1>3, <2>1
  <1> QED BY <1>2, <1>3

LEMMA WeeklyUpdateType ==
    ASSUME TInv, NEW s \in Sessions, WeeklyUpdate(s)
    PROVE  TInv'
  <1> USE DEF TInv
  <1> DEFINE u == SessionUser[s]
  <1>1. /\ req[s] \in Request /\ u \in Users /\ user[u] \in Columns
        /\ req[s].seen.weekly \in Nat /\ req[s].read \in Nat /\ user[u].weekly \in Nat
        /\ weekly.group \in Nat /\ weekly.member \in [Users -> Nat]
    BY WeeklyMoves DEF TypeOK, Request, Columns
  <1>2. /\ Weekly(req[s], req[s].seen.weekly, user[u].weekly) \in Nat
        /\ Weekly(req[s], req[s].read, weekly.group) \in Nat
        /\ Weekly(req[s], req[s].read, weekly.member[u]) \in Nat
    BY <1>1, WeeklyType
  <1>3. user' \in [Users -> Columns]
    <2>1. ASSUME NEW n \in Nat PROVE [user[u] EXCEPT !.weekly = n] \in Columns
      BY <1>1 DEF Columns
    <2>2. PICK n \in Nat :
             \/ user' = user
             \/ user' = [user EXCEPT ![u] = [user[u] EXCEPT !.weekly = n]]
      BY <1>2, WeeklyWrites
    <2> DEFINE new == [user[u] EXCEPT !.weekly = n]
    <2>3. new \in Columns /\ user \in [Users -> Columns]
      BY <2>1 DEF TypeOK
    <2>4. user' = user \/ user' = [user EXCEPT ![u] = new]
      BY <2>2
    <2> HIDE DEF new
    <2> QED BY <2>3, <2>4
  <1>4. weekly' \in [group: Nat, member: [Users -> Nat]]
    <2>1. ASSUME NEW n \in Nat
          PROVE  /\ [weekly EXCEPT !.group = n] \in [group: Nat, member: [Users -> Nat]]
                 /\ [weekly EXCEPT !.member = [weekly.member EXCEPT ![u] = n]]
                       \in [group: Nat, member: [Users -> Nat]]
      BY <1>1 DEF TypeOK
    <2>2. \/ weekly' = weekly
          \/ weekly' = [weekly EXCEPT !.group = Weekly(req[s], req[s].read, weekly.group)]
          \/ weekly' = [weekly EXCEPT !.member = [weekly.member EXCEPT ![u] =
                           Weekly(req[s], req[s].read, weekly.member[u])]]
      BY WeeklyWrites DEF WeeklyUpdate
    <2> QED BY <2>1, <2>2, <1>2 DEF TypeOK
  <1>5. req' \in [Sessions -> Request \cup {NoRequest}]
    BY WeeklyMoves
  <1>6. TypeOK'
    BY <1>3, <1>4, <1>5, WeeklyWrites DEF TypeOK
  <1>7. Owned'
    BY WeeklyWrites DEF Owned
  <1>8. Placed'
    <2> SUFFICES ASSUME NEW t \in Sessions, req'[t] # NoRequest,
                        req'[t].step \in {"insert", "earn", "delete", "lose"}
        PROVE  req'[t].event \in Events
      BY DEF Placed
    <2>1. t # s
      BY WeeklyMoves DEF WeeklyUpdate
    <2>2. req'[t] = req[t]
      BY <2>1, WeeklyMoves
    <2> QED BY <2>2 DEF Placed
  <1> QED BY <1>6, <1>7, <1>8

\* The rest of a request: the totals, the redemption.
LEMMA SaveType ==
    ASSUME TInv, NEW s \in Sessions, Total(s) \/ Save(s) \/ CreateReward(s)
    PROVE  TInv'
  <1> USE DEF TInv
  <1> DEFINE u == SessionUser[s]
  <1>1. /\ req[s] \in Request /\ u \in Users /\ user[u] \in Columns
        /\ earned[u] \in Int /\ spent[u] \in Nat
    BY InFlight DEF Total, Save, CreateReward, At, TypeOK
  <1>2. req' \in [Sessions -> Request \cup {NoRequest}]
    <2>1. CASE Total(s)
      <3>1. req' = [req EXCEPT ![s] = [req[s] EXCEPT !.step = "save",
                      !.total = [points |-> earned[u], credits |-> Credits(u)]]]
        BY <2>1 DEF Total, TypeOK
      <3>2. [points |-> earned[u], credits |-> Credits(u)] \in Totals
        BY <1>1 DEF Credits, Totals
      <3>3. [req[s] EXCEPT !.step = "save",
               !.total = [points |-> earned[u], credits |-> Credits(u)]] \in Request
        BY <1>1, <3>2 DEF Request
      <3> QED BY <3>1, <3>3, RequestType
    <2>2. CASE Save(s) \/ CreateReward(s)
      BY <2>2 DEF Save, CreateReward, Done, TypeOK
    <2> QED BY <2>1, <2>2
  <1>3. user' \in [Users -> Columns]
    <2>1. CASE Save(s)
      <3>1. /\ req[s].total.points \in Int /\ req[s].total.credits \in Int
        BY <1>1 DEF Request, Totals
      <3>2. PICK p \in Int, c \in Int :
               user' = [user EXCEPT ![u] = [user[u] EXCEPT !.points = p, !.credits = c]]
        <4>1. user' = [user EXCEPT
                 ![u].points = Changed(req[s].total.points, req[s].seen.points, @),
                 ![u].credits = Changed(req[s].total.credits, req[s].seen.credits, @)]
          BY <2>1 DEF Save
        <4>2. user' = [user EXCEPT ![u] = [user[u] EXCEPT
                 !.points = Changed(req[s].total.points, req[s].seen.points, user[u].points),
                 !.credits = Changed(req[s].total.credits, req[s].seen.credits,
                                     user[u].credits)]]
          BY <4>1, <1>1 DEF TypeOK, Columns
        <4> QED BY <4>2, <3>1, <1>1 DEF Changed, Columns
      <3>3. [user[u] EXCEPT !.points = p, !.credits = c] \in Columns
        BY <1>1 DEF Columns
      <3> QED BY <3>2, <3>3 DEF TypeOK
    <2>2. CASE user' = user
      BY <2>2 DEF TypeOK
    <2> QED BY <2>1, <2>2 DEF Total, CreateReward
  <1>4. /\ redemption' \in [Redemptions -> [status: Statuses \cup {"absent"},
                                            user: Users \cup {0}]]
        /\ spent' \in [Users -> Nat]
        /\ jobs' \subseteq Redemptions
        /\ \A r \in Redemptions : redemption'[r].status # "absent" =>
              redemption'[r].user \in Users
        /\ \A r \in Redemptions : redemption[r].status # "absent" =>
              redemption'[r] = redemption[r]
    <2>1. CASE CreateReward(s)
      <3>1. PICK r \in Absent : /\ redemption' = [redemption EXCEPT ![r] =
                                     [status |-> "pending", user |-> u]]
                                /\ jobs' = jobs \cup {r}
        BY <2>1 DEF CreateReward
      <3>2. r \in Redemptions /\ redemption[r].status = "absent"
        BY DEF Absent
      <3>3. req[s].cost \in Nat
        BY <1>1 DEF Request
      <3>4. spent' = [spent EXCEPT ![u] = spent[u] + req[s].cost]
        BY <2>1 DEF CreateReward, TypeOK
      <3>5. spent' \in [Users -> Nat]
        BY <3>3, <3>4, <1>1 DEF TypeOK
      <3> QED BY <3>1, <3>2, <3>5, <1>1 DEF TypeOK, Owned, Statuses
    <2>2. CASE UNCHANGED <<redemption, spent, jobs>>
      BY <2>2 DEF TypeOK, Owned
    <2> QED BY <2>1, <2>2 DEF Total, Save, mailing
  <1>5. UNCHANGED <<rows, ledger, earned, weekly, admin, reset, overtaken, told>>
    BY DEF Total, Save, CreateReward, points, mailing, resetting
  <1>6. TypeOK'
    BY <1>2, <1>3, <1>4, <1>5 DEF TypeOK
  <1>7. Owned'
    BY <1>4, <1>5 DEF Owned
  <1>8. Placed'
    <2> SUFFICES ASSUME NEW t \in Sessions, req'[t] # NoRequest,
                        req'[t].step \in {"insert", "earn", "delete", "lose"}
        PROVE  req'[t].event \in Events
      BY DEF Placed
    <2>1. t # s
      BY <1>1 DEF Total, Save, CreateReward, Done, TypeOK, Request
    <2>2. req'[t] = req[t]
      BY <2>1 DEF Total, Save, CreateReward, Done, TypeOK
    <2> QED BY <2>2 DEF Placed
  <1> QED BY <1>6, <1>7, <1>8

\* The administrator and the jobs.
LEMMA OthersType ==
    ASSUME TInv,
           \/ \E r \in Redemptions : Approve(r) \/ Forfeit(r) \/ Mailer(r)
           \/ ApproveTotal \/ ApproveSave
           \/ ResetUsers \/ ResetGroups \/ ResetMembers
    PROVE  TInv'
  <1> USE DEF TInv
  <1>1. CASE \E r \in Redemptions : Approve(r) \/ Forfeit(r)
    <2>1. PICK r \in Redemptions : Approve(r) \/ Forfeit(r)
      BY <1>1
    <2>2. PICK status \in {"redeemed", "forfeited"} : Decide(r, status)
      BY <2>1 DEF Approve, Forfeit
    <2>3. redemption' = [redemption EXCEPT ![r] = [redemption[r] EXCEPT !.status = status]]
      BY <2>2 DEF Decide, TypeOK
    <2>4. redemption[r].status # "absent"
      BY <2>2 DEF Decide, Absent
    <2>5. /\ redemption' \in [Redemptions -> [status: Statuses \cup {"absent"},
                                              user: Users \cup {0}]]
          /\ \A x \in Redemptions : redemption'[x].user = redemption[x].user
          /\ \A x \in Redemptions : redemption'[x].status = "absent" <=>
                                    redemption[x].status = "absent"
      <3> DEFINE Records == [status: Statuses \cup {"absent"}, user: Users \cup {0}]
                 row == [redemption[r] EXCEPT !.status = status]
      <3>1. redemption \in [Redemptions -> Records] /\ redemption[r] \in Records
        BY DEF TypeOK
      <3>2. row \in Records /\ row.user = redemption[r].user /\ row.status # "absent"
        BY <3>1 DEF Statuses
      <3> HIDE DEF row
      <3>3. redemption' \in [Redemptions -> Records]
        BY <3>1, <3>2, <2>3 DEF row
      <3>4. \A x \in Redemptions : redemption'[x] = IF x = r THEN row ELSE redemption[x]
        BY <3>1, <2>3 DEF row
      <3> QED BY <3>2, <3>3, <3>4, <2>4
    <2>6. admin' \in Approval
      <3>1. CASE Approve(r)
        <4>1. admin' = [step |-> "total", row |-> r, seen |-> 0, credits |-> 0]
          BY <3>1 DEF Approve, NoApproval
        <4> QED BY <4>1 DEF Approval
      <3>2. CASE Forfeit(r)
        BY <3>2 DEF Forfeit, TypeOK
      <3> QED BY <2>1, <3>1, <3>2
    <2>7. told' \subseteq Redemptions /\ jobs' \subseteq Redemptions
      BY <2>1, <2>2 DEF Approve, Forfeit, Decide, TypeOK
    <2>8. UNCHANGED <<rows, ledger, earned, weekly, spent, user, req, reset, overtaken>>
      BY <2>1 DEF Approve, Forfeit, points, resetting
    <2>9. TypeOK'
      BY <2>5, <2>6, <2>7, <2>8 DEF TypeOK
    <2>10. Owned'
      BY <2>1, <2>4, <2>5 DEF Owned, Approve, Forfeit, NoApproval
    <2>11. Placed'
      BY <2>8 DEF Placed
    <2> QED BY <2>9, <2>10, <2>11
  <1>2. CASE \E r \in Redemptions : Mailer(r)
    BY <1>2 DEF Mailer, TypeOK, Owned, Placed, points, resetting
  <1>3. CASE ApproveTotal \/ ApproveSave
    <2> DEFINE u == redemption[admin.row].user
    <2>1. /\ u \in Users /\ user[u] \in Columns /\ admin.row \in Redemptions
          /\ admin \in Approval /\ Credits(u) \in Int
      BY <1>3 DEF ApproveTotal, ApproveSave, Owned, TypeOK, Credits
    <2>2. admin' \in Approval
      <3>1. CASE ApproveTotal
        <4>1. admin' = [admin EXCEPT !.step = "save", !.seen = user[u].credits,
                                     !.credits = Credits(u)]
          BY <3>1 DEF ApproveTotal
        <4> QED BY <4>1, <2>1 DEF Approval, Columns
      <3>2. CASE ApproveSave
        BY <3>2 DEF ApproveSave, NoApproval, Approval
      <3> QED BY <1>3, <3>1, <3>2
    <2>3. user' \in [Users -> Columns]
      <3>1. CASE ApproveSave
        <4>1. user' = [user EXCEPT ![u] = [user[u] EXCEPT !.credits =
                         Changed(admin.credits, admin.seen, user[u].credits)]]
          BY <3>1, <2>1 DEF ApproveSave, TypeOK
        <4>2. Changed(admin.credits, admin.seen, user[u].credits) \in Int
          BY <2>1 DEF Changed, Approval, Columns
        <4>3. [user[u] EXCEPT !.credits =
                 Changed(admin.credits, admin.seen, user[u].credits)] \in Columns
          BY <4>2, <2>1 DEF Columns
        <4> QED BY <4>1, <4>3 DEF TypeOK
      <3>2. CASE ApproveTotal
        BY <3>2 DEF ApproveTotal, TypeOK
      <3> QED BY <3>1, <3>2, <1>3
    <2>4. jobs' \subseteq Redemptions
      BY <1>3, <2>1 DEF ApproveTotal, ApproveSave, TypeOK, mailing
    <2>5. UNCHANGED <<rows, ledger, earned, weekly, spent, redemption, req, reset,
                      overtaken, told>>
      BY <1>3 DEF ApproveTotal, ApproveSave, points, mailing, resetting
    <2>6. TypeOK'
      BY <2>2, <2>3, <2>4, <2>5 DEF TypeOK
    <2>7. Owned'
      <3>1. CASE ApproveTotal
        <4>1. admin'.row = admin.row
          BY <3>1, <2>1 DEF ApproveTotal, Approval
        <4>2. redemption[admin.row].status # "absent"
          BY <3>1 DEF ApproveTotal, Owned
        <4> QED BY <4>1, <4>2, <2>1, <2>5 DEF Owned
      <3>2. CASE ApproveSave
        BY <3>2, <2>5 DEF ApproveSave, NoApproval, Owned
      <3> QED BY <1>3, <3>1, <3>2
    <2> QED BY <2>5, <2>6, <2>7 DEF Placed
  <1>4. CASE ResetUsers \/ ResetGroups \/ ResetMembers
    <2>1. user' \in [Users -> Columns]
      <3>1. CASE ResetUsers
        <4>1. ASSUME NEW u \in Users PROVE [user[u] EXCEPT !.weekly = 0] \in Columns
          <5>1. user[u] \in Columns
            BY DEF TypeOK
          <5> QED BY <5>1 DEF Columns
        <4> QED BY <3>1, <4>1 DEF ResetUsers
      <3>2. CASE user' = user
        BY <3>2 DEF TypeOK
      <3> QED BY <1>4, <3>1, <3>2 DEF ResetGroups, ResetMembers
    <2>2. weekly' \in [group: Nat, member: [Users -> Nat]]
      <3>1. CASE ResetGroups
        BY <3>1 DEF ResetGroups, TypeOK
      <3>2. CASE ResetMembers
        BY <3>2 DEF ResetMembers, TypeOK
      <3>3. CASE ResetUsers
        BY <3>3 DEF ResetUsers, TypeOK, points
      <3> QED BY <1>4, <3>1, <3>2, <3>3
    <2>3. reset' \in {"idle", "users", "groups"}
      BY <1>4 DEF ResetUsers, ResetGroups, ResetMembers
    <2>4. UNCHANGED <<rows, ledger, earned, spent, redemption, req, admin, jobs, told>>
      BY <1>4 DEF ResetUsers, ResetGroups, ResetMembers, points, mailing
    <2>5. overtaken' \subseteq Users
      BY <1>4 DEF ResetUsers, ResetGroups, ResetMembers, UserWritten, Between, TypeOK
    <2> QED BY <2>1, <2>2, <2>3, <2>4, <2>5 DEF TypeOK, Owned, Placed
  <1> QED BY <1>1, <1>2, <1>3, <1>4

LEMMA TInvStep == TInv /\ [Next]_vars => TInv'
  <1> SUFFICES ASSUME TInv, [Next]_vars PROVE TInv'
    OBVIOUS
  <1>1. ASSUME NEW s \in Sessions,
               \/ \E e \in Events : Attend(s, e) \/ Unattend(s, e)
               \/ Redeem(s) \/ Proceed(s)
        PROVE  TInv'
    BY <1>1, AttendanceType, ManagerType, WeeklyUpdateType, SaveType DEF Proceed, WeeklyUpdate
  <1>2. CASE UNCHANGED vars
    BY <1>2 DEF TInv, TypeOK, Owned, Placed, vars, points, mailing, resetting
  <1> QED BY <1>1, <1>2, OthersType DEF Next

\* Every variable keeps its type: no weekly total becomes negative, and an
\* approval is about a reward somebody redeemed.
THEOREM TypeCorrect == Spec => []TypeOK
  <1>1. TInv => TypeOK
    BY DEF TInv
  <1> QED BY <1>1, InitTInv, TInvStep, PTL DEF Spec

-----------------------------------------------------------------------------
(* A user's points and credits.  While the only session of a user serves a  *)
(* request, what it loaded is what is stored, and what it is about to write *)
(* is the sum of the ledger.                                                *)

BeforeEntry == {"insert", "earn", "delete", "lose", "create"}

PointsOf(s) ==
    LET u == SessionUser[s]
    IN  IF req[s] = NoRequest THEN user[u].points = earned[u]
        ELSE /\ req[s].seen.points = user[u].points
             /\ req[s].step \in BeforeEntry => user[u].points = earned[u]
             /\ req[s].step = "save" => req[s].total.points = earned[u]
             /\ req[s].step = "create" => Credits(u) >= req[s].cost

PointsInv ==
    /\ \A s \in Sessions : PointsOf(s)
    /\ \A u \in Users : (\A s \in Sessions : SessionUser[s] # u)
                            => user[u].points = earned[u]

LEMMA InitPoints == Init => PointsInv
  BY DEF Init, PointsInv, PointsOf

\* A step that is none of the session's keeps what is said about it.
LEMMA PointsFrame ==
    ASSUME NEW s \in Sessions, PointsOf(s), req'[s] = req[s],
           user'[SessionUser[s]].points = user[SessionUser[s]].points,
           earned'[SessionUser[s]] = earned[SessionUser[s]],
           spent'[SessionUser[s]] = spent[SessionUser[s]]
    PROVE  PointsOf(s)'
  BY DEF PointsOf, Credits

\* What one session writes of users is its own user's.
LEMMA PointsElsewhere ==
    ASSUME TInv, NEW s \in Sessions,
           \/ \E e \in Events : Attend(s, e) \/ Unattend(s, e)
           \/ Redeem(s) \/ Proceed(s)
    PROVE  /\ \A t \in Sessions \ {s} : req'[t] = req[t]
           /\ \A u \in Users \ {SessionUser[s]} :
                 /\ user'[u] = user[u]
                 /\ earned'[u] = earned[u]
                 /\ spent'[u] = spent[u]
                 /\ weekly'.member[u] = weekly.member[u]
                 /\ \A e \in Events : rows'[u][e] = rows[u][e]
                 /\ \A e \in Events : ledger'[u][e] = ledger[u][e]
           /\ reset' = reset /\ overtaken' = overtaken
  <1> USE DEF TInv
  <1>1. CASE \E e \in Events : Attend(s, e) \/ Unattend(s, e)
    BY <1>1 DEF Attend, Unattend, Load, TypeOK, points, mailing, resetting
  <1>2. CASE Redeem(s)
    BY <1>2 DEF Redeem, Load, TypeOK, points, mailing, resetting
  <1>3. CASE Insert(s) \/ Delete(s)
    BY <1>3 DEF Insert, Delete, Goto, TypeOK, resetting
  <1>4. CASE Earn(s) \/ Lose(s)
    <2>1. PICK change, last : Ledger(SessionUser[s], req[s].event, change, last)
      BY <1>4 DEF Earn, Lose
    <2>2. \A v \in Users \ {SessionUser[s]} :
             /\ earned'[v] = earned[v]
             /\ \A e \in Events : ledger'[v][e] = ledger[v][e]
      BY <2>1 DEF Ledger, TypeOK
    <2>3. UNCHANGED <<rows, weekly, spent, user, reset, overtaken>>
      BY <1>4 DEF Earn, Lose, resetting
    <2> QED BY <1>4, <2>2, <2>3, ManagerType
  <1>5. CASE WeeklyUpdate(s)
    <2>1. \A v \in Users \ {SessionUser[s]} :
             user'[v] = user[v] /\ weekly'.member[v] = weekly.member[v]
      <3>1. PICK new : user' = user \/ user' = [user EXCEPT ![SessionUser[s]] = new]
        BY <1>5, WeeklyWrites
      <3>2. PICK n : \/ weekly'.member = weekly.member
                     \/ weekly'.member = [weekly.member EXCEPT ![SessionUser[s]] = n]
        BY <1>5, MemberWrites
      <3> QED BY <3>1, <3>2 DEF TypeOK
    <2>2. UNCHANGED <<rows, ledger, earned, spent, reset, overtaken>>
      BY <1>5, WeeklyWrites
    <2> QED BY <1>5, <2>1, <2>2, WeeklyMoves
  <1>6. CASE Total(s) \/ Save(s) \/ CreateReward(s)
    BY <1>6 DEF Total, Save, CreateReward, Done, TypeOK, points, resetting
  <1> QED BY <1>1, <1>2, <1>3, <1>4, <1>5, <1>6 DEF Proceed, WeeklyUpdate

LEMMA PointsOwnStep ==
    ASSUME TInv, NEW s \in Sessions, PointsOf(s),
           \/ \E e \in Events : Attend(s, e) \/ Unattend(s, e)
           \/ Redeem(s) \/ Proceed(s)
    PROVE  PointsOf(s)'
  <1> USE DEF TInv
  <1> DEFINE u == SessionUser[s]
  <1>1. /\ u \in Users /\ user[u] \in Columns
        /\ earned[u] \in Int /\ spent[u] \in Nat
        /\ req[s] # NoRequest => req[s] \in Request
    BY InFlight DEF TypeOK
  <1>2. CASE \E e \in Events : Attend(s, e) \/ Unattend(s, e)
    <2>1. /\ req[s] = NoRequest /\ req'[s] # NoRequest
          /\ req'[s].seen = user[u] /\ req'[s].step \in {"insert", "delete"}
      <3>1. CASE \E e \in Events : Attend(s, e)
        BY <3>1, LoadType DEF Attend
      <3>2. CASE \E e \in Events : Unattend(s, e)
        <4>1. PICK e \in Events : Unattend(s, e)
          BY <3>2
        <4>2. PICK row \in rows[u][e] : Load(s, "unattend", "delete", e, row, 0)
          BY <4>1 DEF Unattend
        <4>3. row \in Nat
          BY <4>2, <1>1 DEF TypeOK
        <4> QED BY <4>2, <4>3, LoadType
      <3> QED BY <1>2, <3>1, <3>2
    <2>2. user' = user /\ earned' = earned
      BY <1>2 DEF Attend, Unattend, points
    <2> QED BY <2>1, <2>2 DEF PointsOf
  <1>3. CASE Redeem(s)
    <2>1. PICK cost \in Costs : /\ Credits(u) >= cost
                                /\ Load(s, "redeem", "create", 0, 0, cost)
      BY <1>3 DEF Redeem
    <2>2. /\ req[s] = NoRequest /\ req'[s] # NoRequest
          /\ req'[s].seen = user[u] /\ req'[s].step = "create" /\ req'[s].cost = cost
      <3>1. cost \in Nat /\ TypeOK
        OBVIOUS
      <3> HIDE DEF TInv
      <3> QED BY <2>1, <3>1, LoadType
    <2>3. user' = user /\ earned' = earned /\ spent' = spent
      BY <1>3 DEF Redeem, points
    <2> QED BY <2>1, <2>2, <2>3 DEF PointsOf, Credits
  <1>4. CASE Insert(s) \/ Delete(s)
    <2>1. /\ req'[s].seen = req[s].seen /\ req'[s].step \in {"earn", "lose"}
          /\ req[s].step \in BeforeEntry /\ req[s] # NoRequest
      BY <1>4, <1>1 DEF Insert, Delete, At, Goto, TypeOK, BeforeEntry, Request
    <2>2. user' = user /\ earned' = earned
      BY <1>4 DEF Insert, Delete
    <2> QED BY <2>1, <2>2 DEF PointsOf
  <1>5. CASE Earn(s) \/ Lose(s)
    <2>1. /\ req'[s].seen = req[s].seen /\ req'[s].step = "user"
          /\ req[s] # NoRequest /\ req'[s] # NoRequest
      BY <1>5, ManagerType
    <2>2. user' = user
      BY <1>5 DEF Earn, Lose
    <2> QED BY <2>1, <2>2 DEF PointsOf, BeforeEntry
  <1>9. CASE WeeklyUpdate(s)
    <2>1. /\ req'[s].seen = req[s].seen /\ req'[s].step \in WeeklySteps \cup {"total"}
          /\ req[s] # NoRequest /\ req'[s] # NoRequest
      BY <1>9, WeeklyMoves DEF WeeklySteps, WeeklyUpdate
    <2>2. user'[u].points = user[u].points
      <3>1. PICK n : \/ user' = user
                     \/ user' = [user EXCEPT ![u] = [user[u] EXCEPT !.weekly = n]]
        BY <1>9, WeeklyWrites
      <3> QED BY <1>1, <3>1 DEF TypeOK, Columns
    <2> QED BY <2>1, <2>2 DEF PointsOf, BeforeEntry, WeeklySteps
  <1>6. CASE Total(s)
    <2>1. /\ req[s] # NoRequest
          /\ req'[s] = [req[s] EXCEPT !.step = "save",
                !.total = [points |-> earned[u], credits |-> Credits(u)]]
      BY <1>6 DEF Total, At, TypeOK
    <2>2. /\ req'[s].seen = req[s].seen /\ req'[s].step = "save"
          /\ req'[s].total.points = earned[u]
      BY <2>1, <1>1 DEF Request
    <2>4. /\ req'[s] \in Request
          /\ req'[s] # NoRequest
      <3>1. [points |-> earned[u], credits |-> Credits(u)] \in Totals
        BY <1>1 DEF Totals, Credits
      <3>2. req'[s] \in Request
        BY <2>1, <3>1, <1>1 DEF Request
      <3> QED BY <3>2, IdleAssumption
    <2>3. user' = user /\ earned' = earned
      BY <1>6 DEF Total, points
    <2> QED BY <2>1, <2>2, <2>3, <2>4 DEF PointsOf, BeforeEntry
  <1>7. CASE Save(s)
    <2>1. /\ req[s] # NoRequest /\ req[s].step = "save" /\ req'[s] = NoRequest
          /\ earned' = earned
      BY <1>7 DEF Save, At, Done, TypeOK, points
    <2>2. user'[u].points = Changed(req[s].total.points, req[s].seen.points, user[u].points)
      BY <1>7, <1>1 DEF Save, TypeOK, Columns
    <2>3. req[s].seen.points = user[u].points /\ req[s].total.points = earned[u]
      BY <2>1 DEF PointsOf
    <2>4. user'[u].points = earned[u]
      BY <2>2, <2>3 DEF Changed
    <2> QED BY <2>1, <2>4 DEF PointsOf
  <1>8. CASE CreateReward(s)
    <2>1. /\ req[s] # NoRequest /\ req[s].step \in BeforeEntry /\ req'[s] = NoRequest
          /\ earned' = earned /\ user' = user
      BY <1>8 DEF CreateReward, At, Done, TypeOK, points, BeforeEntry
    <2> QED BY <2>1 DEF PointsOf
  <1> QED BY <1>2, <1>3, <1>4, <1>5, <1>6, <1>7, <1>8, <1>9 DEF Proceed, WeeklyUpdate

\* The administrator and the jobs write no user's points.
LEMMA PointsOthers ==
    ASSUME TInv,
           \/ \E r \in Redemptions : Approve(r) \/ Forfeit(r) \/ Mailer(r)
           \/ ApproveTotal \/ ApproveSave
           \/ ResetUsers \/ ResetGroups \/ ResetMembers
    PROVE  /\ UNCHANGED <<req, earned, spent, rows, ledger>>
           /\ \A u \in Users : user'[u].points = user[u].points
  <1> USE DEF TInv
  <1>1. CASE \E r \in Redemptions : Approve(r) \/ Forfeit(r) \/ Mailer(r)
    BY <1>1 DEF Approve, Forfeit, Mailer, points
  <1>2. CASE ApproveTotal \/ ApproveSave
    <2>1. CASE ApproveTotal
      BY <2>1 DEF ApproveTotal, points
    <2>2. CASE ApproveSave
      <3> DEFINE v == redemption[admin.row].user
                 new == Changed(admin.credits, admin.seen, user[v].credits)
      <3>1. user' = [user EXCEPT ![v] = [user[v] EXCEPT !.credits = new]]
        BY <2>2 DEF ApproveSave, Owned, TypeOK
      <3>2. ASSUME NEW u \in Users PROVE user'[u].points = user[u].points
        <4>1. user[u] \in Columns
          BY DEF TypeOK
        <4>2. user'[u] = user[u] \/ user'[u] = [user[u] EXCEPT !.credits = new]
          BY <3>1 DEF TypeOK
        <4> QED BY <4>1, <4>2 DEF Columns
      <3> QED BY <2>2, <3>2 DEF ApproveSave, points
    <2> QED BY <1>2, <2>1, <2>2
  <1>3. CASE ResetUsers \/ ResetGroups \/ ResetMembers
    <2>1. CASE ResetUsers
      <3>1. ASSUME NEW u \in Users PROVE user'[u].points = user[u].points
        <4>1. user[u] \in Columns /\ user'[u] = [user[u] EXCEPT !.weekly = 0]
          BY <2>1 DEF ResetUsers, TypeOK
        <4> QED BY <4>1 DEF Columns
      <3> QED BY <2>1, <3>1 DEF ResetUsers, points
    <2>2. CASE ResetGroups \/ ResetMembers
      BY <2>2 DEF ResetGroups, ResetMembers
    <2> QED BY <1>3, <2>1, <2>2
  <1> QED BY <1>1, <1>2, <1>3

LEMMA PointsStep ==
    ASSUME TInv, OneSessionEach, PointsInv, [Next]_vars
    PROVE  PointsInv'
  <1>1. ASSUME NEW s \in Sessions,
               \/ \E e \in Events : Attend(s, e) \/ Unattend(s, e)
               \/ Redeem(s) \/ Proceed(s)
        PROVE  PointsInv'
    <2>1. PointsOf(s)'
      BY <1>1, PointsOwnStep DEF PointsInv
    <2>2. ASSUME NEW t \in Sessions, t # s PROVE PointsOf(t)'
      <3>1. SessionUser[t] \in Users \ {SessionUser[s]}
        BY <2>2 DEF OneSessionEach
      <3> QED BY <2>2, <3>1, <1>1, PointsElsewhere, PointsFrame DEF PointsInv
    <2>3. ASSUME NEW u \in Users, \A t \in Sessions : SessionUser[t] # u
          PROVE  user'[u].points = earned'[u]
      BY <2>3, <1>1, PointsElsewhere DEF PointsInv
    <2> QED BY <2>1, <2>2, <2>3 DEF PointsInv
  <1>2. ASSUME \/ \E r \in Redemptions : Approve(r) \/ Forfeit(r) \/ Mailer(r)
               \/ ApproveTotal \/ ApproveSave
               \/ ResetUsers \/ ResetGroups \/ ResetMembers
        PROVE  PointsInv'
    BY <1>2, PointsOthers, PointsFrame DEF PointsInv
  <1>3. CASE UNCHANGED vars
    BY <1>3 DEF vars, points, PointsInv, PointsOf, Credits
  <1> QED BY <1>1, <1>2, <1>3 DEF Next

\* The points of a user with one session are the sum of the ledger between
\* requests, whatever the administrator and the jobs do meanwhile.
THEOREM PointsCorrect == Spec => []PointsAreTheLedger
  <1> DEFINE Inv == TInv /\ (OneSessionEach => PointsInv)
  <1>1. Init => Inv
    BY InitTInv, InitPoints
  <1>2. Inv /\ [Next]_vars => Inv'
    BY TInvStep, PointsStep DEF OneSessionEach
  <1>3. Inv => PointsAreTheLedger
    <2> SUFFICES ASSUME PointsInv, NEW u \in Users, Quiet(u)
        PROVE  user[u].points = earned[u]
      BY DEF PointsAreTheLedger
    <2> QED BY DEF PointsInv, PointsOf, Quiet
  <1> QED BY <1>1, <1>2, <1>3, PTL DEF Spec

\* Credits become negative only when points are taken back: a user with one
\* session cannot spend the same credits twice.
THEOREM NoDoubleSpending == Spec => OnlyRemovalOverdraws
  <1> DEFINE Inv == TInv /\ (OneSessionEach => PointsInv)
             Step == OneSessionEach => \A u \in Users :
                Credits(u) >= 0 /\ Credits(u)' < 0 =>
                   \E s \in Sessions : SessionUser[s] = u /\ Lose(s)
  <1>1. Init => Inv
    BY InitTInv, InitPoints
  <1>2. Inv /\ [Next]_vars => Inv'
    BY TInvStep, PointsStep DEF OneSessionEach
  <1>3. Inv /\ [Next]_vars => [Step]_vars
    <2> SUFFICES ASSUME TInv, OneSessionEach, PointsInv, [Next]_vars, NEW u \in Users,
                        Credits(u) >= 0, Credits(u)' < 0
        PROVE  \E s \in Sessions : SessionUser[s] = u /\ Lose(s)
      OBVIOUS
    <2>1. earned[u] \in Int /\ spent[u] \in Nat
      BY DEF TInv, TypeOK
    <2>2. ASSUME NEW s \in Sessions,
                 \/ \E e \in Events : Attend(s, e) \/ Unattend(s, e)
                 \/ Redeem(s) \/ Proceed(s)
          PROVE  SessionUser[s] = u /\ Lose(s)
      <3>1. CASE SessionUser[s] # u
        <4>1. earned'[u] = earned[u] /\ spent'[u] = spent[u]
          BY <2>2, <3>1, PointsElsewhere
        <4> QED BY <4>1, <2>1 DEF Credits
      <3>2. CASE SessionUser[s] = u /\ ~Lose(s)
        <4>1. CASE CreateReward(s)
          <5>1. req[s] \in Request /\ Credits(u) >= req[s].cost
            BY <4>1, <3>2, InFlight DEF CreateReward, At, PointsInv, PointsOf, TInv
          <5>2. spent'[u] = spent[u] + req[s].cost /\ earned' = earned
            BY <4>1, <3>2 DEF CreateReward, TInv, TypeOK, points
          <5>3. req[s].cost \in Nat
            BY <5>1 DEF Request
          <5> QED BY <5>1, <5>2, <5>3, <2>1 DEF Credits
        <4>2. CASE Earn(s)
          <5>1. PICK worth \in Worths : Ledger(u, req[s].event, worth, worth)
            BY <4>2, <3>2 DEF Earn
          <5>2. earned'[u] = earned[u] + worth /\ spent' = spent
            BY <5>1, <4>2 DEF Earn, Ledger, TInv, TypeOK
          <5>3. worth \in Nat
            BY PointsAssumption
          <5> QED BY <5>2, <5>3, <2>1 DEF Credits
        <4>3. CASE earned' = earned /\ spent' = spent
          BY <4>3, <2>1 DEF Credits
        <4>4. WeeklyUpdate(s) => earned' = earned /\ spent' = spent
          BY WeeklyWrites DEF TInv
        <4> QED BY <2>2, <3>2, <4>1, <4>2, <4>3, <4>4
            DEF Proceed, WeeklyUpdate, Attend, Unattend, Redeem, Insert, Delete, Total, Save, points
      <3> QED BY <3>1, <3>2
    <2>3. ASSUME earned' = earned, spent' = spent PROVE FALSE
      BY <2>1, <2>3 DEF Credits
    <2>4. CASE \/ \E r \in Redemptions : Approve(r) \/ Forfeit(r) \/ Mailer(r)
               \/ ApproveTotal \/ ApproveSave
               \/ ResetUsers \/ ResetGroups \/ ResetMembers
      BY <2>4, <2>3, PointsOthers
    <2>5. CASE UNCHANGED vars
      BY <2>5, <2>3 DEF vars, points
    <2> QED BY <2>2, <2>4, <2>5 DEF Next
  <1> QED BY <1>1, <1>2, <1>3, PTL DEF Spec, OnlyRemovalOverdraws

-----------------------------------------------------------------------------
(* What the ledger holds for an event.                                     *)

Clean(R, L) == \/ R = {} /\ L.net = 0
               \/ (\E row : R = {row}) /\ L.net = L.last

\* What the attendance R and the ledger L of an event are when a request for it
\* is at a step.
Fits(step, row, R, L) ==
    /\ step = "earn" => (\E r : R = {r}) /\ L.net = 0
    /\ step = "lose" => R = {} /\ L.net = L.last
    /\ step \notin {"earn", "lose"} => Clean(R, L)
    /\ step = "insert" => R = {}
    /\ step = "delete" => R = {row}

StepFor(s, e) ==
    IF req[s] # NoRequest /\ req[s].event = e THEN req[s].step ELSE "none"

EarnedAt(s, e) == Fits(StepFor(s, e), req[s].row,
                       rows[SessionUser[s]][e], ledger[SessionUser[s]][e])

EarnedInv ==
    /\ \A s \in Sessions, e \in Events : EarnedAt(s, e)
    /\ \A u \in Users, e \in Events :
          (\A s \in Sessions : SessionUser[s] # u) => Clean(rows[u][e], ledger[u][e])

LEMMA InitEarned == Init => EarnedInv
  <1> SUFFICES ASSUME Init PROVE EarnedInv
    OBVIOUS
  <1>1. \A u \in Users, e \in Events : rows[u][e] = {} /\ ledger[u][e].net = 0
    BY DEF Init
  <1>2. \A s \in Sessions, e \in Events : StepFor(s, e) = "none"
    BY DEF Init, StepFor
  <1>3. \A s \in Sessions : SessionUser[s] \in Users
    BY SessionAssumption
  <1> QED BY <1>1, <1>2, <1>3 DEF EarnedInv, EarnedAt, Fits, Clean

LEMMA EarnedFrame ==
    ASSUME NEW s \in Sessions, NEW e \in Events, EarnedAt(s, e), req'[s] = req[s],
           rows'[SessionUser[s]][e] = rows[SessionUser[s]][e],
           ledger'[SessionUser[s]][e] = ledger[SessionUser[s]][e]
    PROVE  EarnedAt(s, e)'
  BY DEF EarnedAt, StepFor

\* A step that leaves the attendance and the ledger alone, and is not at one of
\* the steps that change them afterwards.
LEMMA EarnedElsewhere ==
    ASSUME NEW s \in Sessions, NEW e \in Events, EarnedAt(s, e),
           StepFor(s, e) \notin {"earn", "lose"},
           StepFor(s, e)' \notin {"insert", "earn", "delete", "lose"},
           rows'[SessionUser[s]][e] = rows[SessionUser[s]][e],
           ledger'[SessionUser[s]][e] = ledger[SessionUser[s]][e]
    PROVE  EarnedAt(s, e)'
  <1>1. Clean(rows[SessionUser[s]][e], ledger[SessionUser[s]][e])
    BY DEF EarnedAt, Fits
  <1> QED BY <1>1 DEF EarnedAt, Fits

LEMMA EarnedOwnStep ==
    ASSUME TInv, NEW s \in Sessions, \A e \in Events : EarnedAt(s, e),
           \/ \E e \in Events : Attend(s, e) \/ Unattend(s, e)
           \/ Redeem(s) \/ Proceed(s),
           NEW e \in Events
    PROVE  EarnedAt(s, e)'
  <1> USE DEF TInv
  <1> DEFINE u == SessionUser[s]
  <1>1. /\ u \in Users
        /\ req[s] # NoRequest => req[s] \in Request
        /\ ledger[u][e] \in [net: Int, last: Nat] /\ rows[u][e] \in SUBSET Rows
    BY InFlight DEF TypeOK
  <1>2. ASSUME NEW f \in Events, Attend(s, f) PROVE EarnedAt(s, e)'
    <2>1. /\ rows[u][f] = {} /\ Load(s, "attend", "insert", f, 0, 0)
          /\ UNCHANGED <<rows, ledger>>
      BY <1>2 DEF Attend, points
    <2>2. /\ req[s] = NoRequest
          /\ req'[s] = [op |-> "attend", step |-> "insert", event |-> f, row |-> 0,
                        seen |-> user[u], worth |-> 0, read |-> 0,
                        total |-> NoTotals, cost |-> 0]
      BY <2>1 DEF Load, TypeOK
    <2>3. StepFor(s, e) = "none" /\ StepFor(s, e)' \in {"none", "insert"}
      BY <2>2 DEF StepFor
    <2>4. StepFor(s, e)' = "insert" => rows[u][e] = {}
      BY <2>1, <2>2 DEF StepFor
    <2>5. Clean(rows[u][e], ledger[u][e])
      BY <2>3 DEF EarnedAt, Fits
    <2> QED BY <2>1, <2>3, <2>4, <2>5 DEF EarnedAt, Fits
  <1>3. ASSUME NEW f \in Events, Unattend(s, f) PROVE EarnedAt(s, e)'
    <2>1. PICK row \in rows[u][f] : Load(s, "unattend", "delete", f, row, 0)
      BY <1>3 DEF Unattend
    <2>2. /\ req[s] = NoRequest
          /\ req'[s] = [op |-> "unattend", step |-> "delete", event |-> f, row |-> row,
                        seen |-> user[u], worth |-> 0, read |-> 0,
                        total |-> NoTotals, cost |-> 0]
          /\ UNCHANGED <<rows, ledger>>
      BY <2>1, <1>3 DEF Load, TypeOK, Unattend, points
    <2>3. StepFor(s, e) = "none" /\ StepFor(s, e)' \in {"none", "delete"}
      BY <2>2 DEF StepFor
    <2>4. Clean(rows[u][e], ledger[u][e])
      BY <2>3 DEF EarnedAt, Fits
    <2>5. StepFor(s, e)' = "delete" => rows[u][e] = {req'[s].row}
      <3>1. SUFFICES ASSUME StepFor(s, e)' = "delete" PROVE rows[u][e] = {row}
        BY <2>2
      <3>2. e = f
        BY <2>2, <3>1 DEF StepFor
      <3> QED BY <2>1, <2>4, <3>2 DEF Clean
    <2> QED BY <2>2, <2>3, <2>4, <2>5 DEF EarnedAt, Fits
  <1>4. CASE Redeem(s)
    <2>1. PICK cost \in Costs : Load(s, "redeem", "create", 0, 0, cost)
      BY <1>4 DEF Redeem
    <2>2. req[s] = NoRequest /\ req'[s].step = "create"
      BY <2>1 DEF Load, TypeOK
    <2>3. UNCHANGED <<rows, ledger>>
      BY <1>4 DEF Redeem, points
    <2>4. StepFor(s, e) = "none" /\ StepFor(s, e)' \in {"none", "create"}
      BY <2>2 DEF StepFor
    <2> QED BY <2>3, <2>4, EarnedElsewhere
  <1>5. ASSUME req[s].event # e, Insert(s) \/ Delete(s) \/ Earn(s) \/ Lose(s)
        PROVE  EarnedAt(s, e)'
    <2>1. req[s] # NoRequest /\ req[s] \in Request /\ StepFor(s, e) = "none"
      BY <1>1, <1>5 DEF Insert, Delete, Earn, Lose, At, StepFor
    <2>3. req'[s].event = req[s].event
      <3>1. CASE Insert(s) \/ Delete(s)
        BY <2>1, <3>1, GotoType DEF Insert, Delete, RequestSteps
      <3>2. CASE Earn(s) \/ Lose(s)
        BY <3>2, ManagerType
      <3> QED BY <1>5, <3>1, <3>2
    <2>4. StepFor(s, e)' = "none"
      BY <1>5, <2>3 DEF StepFor
    <2>5. rows'[u][e] = rows[u][e]
      <3>1. CASE Insert(s)
        <4>1. PICK row : rows' = [rows EXCEPT ![u][req[s].event] = @ \cup {row}]
          BY <3>1 DEF Insert
        <4> QED BY <4>1, <1>1, <1>5 DEF TypeOK
      <3>2. CASE Delete(s)
        <4>1. rows' = [rows EXCEPT ![u][req[s].event] = @ \ {req[s].row}]
          BY <3>2 DEF Delete
        <4> QED BY <4>1, <1>1, <1>5 DEF TypeOK
      <3>3. CASE Earn(s) \/ Lose(s)
        BY <3>3 DEF Earn, Lose
      <3> QED BY <1>5, <3>1, <3>2, <3>3
    <2>6. ledger'[u][e] = ledger[u][e]
      <3>1. CASE Insert(s) \/ Delete(s)
        BY <3>1 DEF Insert, Delete
      <3>2. CASE Earn(s) \/ Lose(s)
        <4>1. PICK change, last : Ledger(u, req[s].event, change, last)
          BY <3>2 DEF Earn, Lose
        <4> QED BY <4>1, <1>1, <1>5 DEF Ledger, TypeOK
      <3> QED BY <1>5, <3>1, <3>2
    <2> QED BY <2>1, <2>4, <2>5, <2>6, EarnedElsewhere
  <1>6. ASSUME req[s].event = e, Insert(s) PROVE EarnedAt(s, e)'
    <2>1. req[s] # NoRequest /\ StepFor(s, e) = "insert" /\ UNCHANGED ledger
      BY <1>6 DEF Insert, At, StepFor
    <2>2. PICK row : rows' = [rows EXCEPT ![u][e] = @ \cup {row}]
      BY <1>6 DEF Insert
    <2>3. StepFor(s, e)' = "earn"
      <3>1. req'[s] = [req[s] EXCEPT !.step = "earn"]
        BY <1>6 DEF Insert, Goto, TypeOK
      <3>2. req'[s] \in Request /\ req'[s].step = "earn" /\ req'[s].event = e
        BY <1>1, <1>6, <2>1, <3>1 DEF Request
      <3> QED BY <3>2, IdleAssumption DEF StepFor
    <2>4. rows[u][e] = {} /\ ledger[u][e].net = 0
      <3>1. rows[u][e] = {} /\ Clean(rows[u][e], ledger[u][e])
        BY <2>1 DEF EarnedAt, Fits
      <3> QED BY <3>1 DEF Clean
    <2>5. rows'[u][e] = {row}
      BY <1>1, <2>2, <2>4 DEF TypeOK
    <2> QED BY <2>1, <2>3, <2>4, <2>5 DEF EarnedAt, Fits
  <1>7. ASSUME req[s].event = e, Delete(s) PROVE EarnedAt(s, e)'
    <2>1. req[s] # NoRequest /\ StepFor(s, e) = "delete" /\ UNCHANGED ledger
      BY <1>7 DEF Delete, At, StepFor
    <2>2. rows' = [rows EXCEPT ![u][e] = @ \ {req[s].row}]
      BY <1>7 DEF Delete
    <2>3. StepFor(s, e)' = "lose"
      <3>1. req'[s] = [req[s] EXCEPT !.step = "lose"]
        BY <1>7 DEF Delete, Goto, TypeOK
      <3>2. req'[s] \in Request /\ req'[s].step = "lose" /\ req'[s].event = e
        BY <1>1, <1>7, <2>1, <3>1 DEF Request
      <3> QED BY <3>2, IdleAssumption DEF StepFor
    <2>4. rows[u][e] = {req[s].row} /\ ledger[u][e].net = ledger[u][e].last
      <3>1. rows[u][e] = {req[s].row} /\ Clean(rows[u][e], ledger[u][e])
        BY <2>1 DEF EarnedAt, Fits
      <3> QED BY <3>1 DEF Clean
    <2>5. rows'[u][e] = {}
      BY <1>1, <2>2, <2>4 DEF TypeOK
    <2> QED BY <2>1, <2>3, <2>4, <2>5 DEF EarnedAt, Fits
  <1>8. ASSUME req[s].event = e, Earn(s) \/ Lose(s) PROVE EarnedAt(s, e)'
    <2>1. /\ UNCHANGED rows /\ req[s] # NoRequest
          /\ Earn(s) => StepFor(s, e) = "earn"
          /\ Lose(s) => StepFor(s, e) = "lose"
      BY <1>8 DEF Earn, Lose, At, StepFor
    <2>2. StepFor(s, e)' \in {"none", "user"}
      BY <1>8, ManagerType DEF StepFor
    <2>3. CASE Earn(s)
      <3>1. PICK worth \in Worths : Ledger(u, e, worth, worth)
        BY <2>3, <1>8 DEF Earn
      <3>2. /\ worth \in Int
            /\ ledger'[u][e] = [net |-> ledger[u][e].net + worth, last |-> worth]
        BY <1>1, <3>1, PointsAssumption DEF Ledger, TypeOK
      <3>3. (\E row : rows[u][e] = {row}) /\ ledger[u][e].net = 0
        BY <2>1, <2>3 DEF EarnedAt, Fits
      <3>4. ledger'[u][e].net = ledger'[u][e].last
        BY <3>2, <3>3
      <3>5. Clean(rows[u][e], ledger'[u][e])
        BY <3>3, <3>4 DEF Clean
      <3> QED BY <2>1, <2>2, <3>5 DEF EarnedAt, Fits
    <2>4. CASE Lose(s)
      <3> DEFINE last == ledger[u][e].last
      <3>1. Ledger(u, e, -last, last)
        BY <2>4, <1>8 DEF Lose
      <3>2. ledger'[u][e] = [net |-> ledger[u][e].net + (-last), last |-> last]
        BY <1>1, <3>1 DEF Ledger, TypeOK
      <3>3. rows[u][e] = {} /\ ledger[u][e].net = last
        BY <2>1, <2>4 DEF EarnedAt, Fits
      <3>4. last \in Int
        BY <1>1
      <3> HIDE DEF last
      <3>5. ledger'[u][e].net = 0
        BY <3>2, <3>3, <3>4
      <3>6. Clean(rows[u][e], ledger'[u][e])
        BY <3>3, <3>5 DEF Clean
      <3> QED BY <2>1, <2>2, <3>6 DEF EarnedAt, Fits
    <2> QED BY <1>8, <2>3, <2>4
  <1>9. CASE Total(s)
    <2>1. req[s] # NoRequest /\ req[s].step = "total" /\ UNCHANGED <<rows, ledger>>
      BY <1>9 DEF Total, At, points
    <2>2. req'[s] = [req[s] EXCEPT !.step = "save",
              !.total = [points |-> earned[u], credits |-> Credits(u)]]
      BY <1>9 DEF Total, TypeOK
    <2>3. req'[s].step = "save"
      BY <1>1, <2>1, <2>2 DEF Request
    <2>4. StepFor(s, e) \in {"none", "total"} /\ StepFor(s, e)' \in {"none", "save"}
      BY <2>1, <2>3 DEF StepFor
    <2> QED BY <2>1, <2>4, EarnedElsewhere
  <1>10. CASE Save(s) \/ CreateReward(s)
    <2>1. /\ req[s] # NoRequest /\ req[s].step \in {"save", "create"}
          /\ req'[s] = NoRequest /\ UNCHANGED <<rows, ledger>>
      BY <1>10 DEF Save, CreateReward, At, Done, points, TypeOK
    <2>2. StepFor(s, e) \in {"none", "save", "create"} /\ StepFor(s, e)' = "none"
      BY <2>1 DEF StepFor
    <2> QED BY <2>1, <2>2, EarnedElsewhere
  <1>11. CASE WeeklyUpdate(s)
    <2>1. /\ req[s].step \in WeeklySteps /\ req'[s].step \in WeeklySteps \cup {"total"}
          /\ UNCHANGED <<rows, ledger>>
      BY <1>11, WeeklyMoves, WeeklyWrites DEF WeeklySteps, WeeklyUpdate
    <2>2. /\ StepFor(s, e) \in WeeklySteps \cup {"none"}
          /\ StepFor(s, e)' \in WeeklySteps \cup {"none", "total"}
      BY <2>1 DEF StepFor
    <2> QED BY <2>1, <2>2, EarnedElsewhere DEF WeeklySteps
  <1> QED BY <1>2, <1>3, <1>4, <1>5, <1>6, <1>7, <1>8, <1>9, <1>10, <1>11
          DEF Proceed, WeeklyUpdate

LEMMA EarnedStep ==
    ASSUME TInv, OneSessionEach, EarnedInv, [Next]_vars
    PROVE  EarnedInv'
  <1>1. ASSUME NEW s \in Sessions,
               \/ \E e \in Events : Attend(s, e) \/ Unattend(s, e)
               \/ Redeem(s) \/ Proceed(s)
        PROVE  EarnedInv'
    <2>1. ASSUME NEW e \in Events PROVE EarnedAt(s, e)'
      BY <1>1, EarnedOwnStep DEF EarnedInv
    <2>2. ASSUME NEW t \in Sessions, t # s, NEW e \in Events PROVE EarnedAt(t, e)'
      <3>1. SessionUser[t] \in Users \ {SessionUser[s]}
        BY <2>2, SessionAssumption DEF OneSessionEach
      <3>2. /\ rows'[SessionUser[t]][e] = rows[SessionUser[t]][e]
            /\ ledger'[SessionUser[t]][e] = ledger[SessionUser[t]][e]
            /\ req'[t] = req[t]
        BY <2>2, <3>1, <1>1, PointsElsewhere
      <3> QED BY <2>2, <3>2, EarnedFrame DEF EarnedInv
    <2>3. ASSUME NEW u \in Users, \A t \in Sessions : SessionUser[t] # u, NEW e \in Events
          PROVE  Clean(rows'[u][e], ledger'[u][e])
      <3>1. rows'[u][e] = rows[u][e] /\ ledger'[u][e] = ledger[u][e]
        BY <2>3, <1>1, PointsElsewhere
      <3> QED BY <2>3, <3>1 DEF EarnedInv
    <2> QED BY <2>1, <2>2, <2>3 DEF EarnedInv
  <1>2. ASSUME UNCHANGED <<req, rows, ledger>> PROVE EarnedInv'
    BY <1>2 DEF EarnedInv, EarnedAt, StepFor
  <1>3. ASSUME \/ \E r \in Redemptions : Approve(r) \/ Forfeit(r) \/ Mailer(r)
               \/ ApproveTotal \/ ApproveSave
               \/ ResetUsers \/ ResetGroups \/ ResetMembers
        PROVE  EarnedInv'
    BY <1>3, <1>2, PointsOthers
  <1>4. CASE UNCHANGED vars
    BY <1>4, <1>2 DEF vars, points
  <1> QED BY <1>1, <1>3, <1>4 DEF Next

\* For users with one session, the ledger holds what attending an event gave, or
\* nothing for an event that is not attended.
THEOREM LedgerFollowsAttendance == Spec => []EarnedIfAttending
  <1> DEFINE Inv == TInv /\ (OneSessionEach => EarnedInv)
  <1>1. Init => Inv
    BY InitTInv, InitEarned
  <1>2. Inv /\ [Next]_vars => Inv'
    BY TInvStep, EarnedStep DEF OneSessionEach
  <1>3. Inv => EarnedIfAttending
    <2> SUFFICES ASSUME OneSessionEach => EarnedInv, OneSessionEach,
                        NEW u \in Users, Quiet(u), NEW e \in Events
        PROVE  /\ Cardinality(rows[u][e]) <= 1
               /\ ledger[u][e].net = IF rows[u][e] = {} THEN 0 ELSE ledger[u][e].last
      BY DEF EarnedIfAttending
    <2>1. Clean(rows[u][e], ledger[u][e])
      <3>1. CASE \A s \in Sessions : SessionUser[s] # u
        BY <3>1 DEF EarnedInv
      <3>2. ASSUME NEW s \in Sessions, SessionUser[s] = u
            PROVE  Clean(rows[u][e], ledger[u][e])
        <4>1. StepFor(s, e) = "none" /\ EarnedAt(s, e)
          BY <3>2 DEF EarnedInv, Quiet, StepFor
        <4> QED BY <4>1, <3>2 DEF EarnedAt, Fits
      <3> QED BY <3>1, <3>2
    <2>2. CASE rows[u][e] = {} /\ ledger[u][e].net = 0
      BY <2>2, FS_EmptySet
    <2>3. ASSUME NEW row, rows[u][e] = {row}, ledger[u][e].net = ledger[u][e].last
          PROVE  /\ Cardinality(rows[u][e]) <= 1
                 /\ ledger[u][e].net = IF rows[u][e] = {} THEN 0 ELSE ledger[u][e].last
      <3>1. Cardinality({row}) = 1
        BY FS_Singleton
      <3> QED BY <2>3, <3>1
    <2> QED BY <2>1, <2>2, <2>3 DEF Clean
  <1> QED BY <1>1, <1>2, <1>3, PTL DEF Spec

-----------------------------------------------------------------------------
(* Weekly totals.                                                          *)

Before  == {"insert", "earn", "delete", "lose", "user"}
Writing == WeeklySteps \ {"user"}

StepOf(s) == IF req[s] = NoRequest THEN "none" ELSE req[s].step

\* While no reset is half done, a request that has not updated its user yet has
\* seen no less than the membership has, and one that has updates the membership
\* to no more than the user has.  That must hold of a membership set to zero as
\* well, for the last statement of a reset does that.
WeeklyFor(s) ==
    LET u == SessionUser[s]  r == req[s]  member == weekly.member[u]
    IN  u \notin overtaken =>
          /\ StepOf(s) \in Writing => After(r, 0) <= user[u].weekly
          /\ StepOf(s) = "memberWeekly" => r.read = member
          /\ reset = "idle" /\ StepOf(s) \in Writing =>
                After(r, member) <= user[u].weekly
          /\ reset = "idle" /\ StepOf(s) \notin Writing => member <= user[u].weekly
          /\ reset = "idle" /\ StepOf(s) \in Before => member <= r.seen.weekly

WeeklyInv ==
    /\ \A s \in Sessions : WeeklyFor(s)
    /\ \A u \in Users : (\A s \in Sessions : SessionUser[s] # u) =>
          /\ u \notin overtaken
          /\ reset = "idle" => weekly.member[u] <= user[u].weekly

LEMMA InitWeekly == Init => WeeklyInv
  BY DEF Init, WeeklyInv, WeeklyFor, StepOf, Before, Writing, WeeklySteps

LEMMA WeeklyTypes ==
    ASSUME TypeOK
    PROVE  /\ \A u \in Users : user[u] \in Columns /\ user[u].weekly \in Nat
                               /\ weekly.member[u] \in Nat
           /\ \A s \in Sessions : req[s] # NoRequest =>
                 req[s] \in Request /\ req[s].seen.weekly \in Nat
  BY InFlight DEF TypeOK, Columns, Request

LEMMA AfterMonotone ==
    ASSUME NEW r \in Request, NEW a \in Nat, NEW b \in Nat, a <= b
    PROVE  /\ After(r, a) <= After(r, b) /\ After(r, a) \in Nat
           /\ After(r, b) = b => After(r, a) <= a
           /\ After(r, b) = b => After(r, 0) = 0
  BY DEF After, Minus, Request

\* A step that leaves what the invariant looks at as it is, or begins or ends a
\* request.
LEMMA WeeklyFrame ==
    ASSUME TypeOK, NEW s \in Sessions, WeeklyFor(s),
           UNCHANGED <<reset, overtaken>>,
           weekly'.member[SessionUser[s]] = weekly.member[SessionUser[s]],
           user'[SessionUser[s]].weekly = user[SessionUser[s]].weekly,
           \/ req'[s] = req[s]
           \/ /\ StepOf(s) \notin Writing /\ StepOf(s)' \notin Writing
              /\ StepOf(s)' \in Before =>
                    \/ req'[s].seen = user[SessionUser[s]] /\ req[s] = NoRequest
                    \/ req'[s].seen = req[s].seen /\ StepOf(s) \in Before
    PROVE  WeeklyFor(s)'
  <1>1. CASE req'[s] = req[s]
    BY <1>1 DEF WeeklyFor, StepOf, After, Minus
  <1>2. CASE req'[s] # req[s]
    <2>1. "memberWeekly" \in Writing /\ "none" \notin Writing
      BY DEF Writing, WeeklySteps
    <2>2. req[s] = NoRequest => StepOf(s) = "none"
      BY DEF StepOf
    <2> QED BY <1>2, <2>1, <2>2 DEF WeeklyFor
  <1> QED BY <1>1, <1>2

\* A request that changes no weekly total.
LEMMA WeeklyRead ==
    ASSUME TInv, NEW s \in Sessions, WeeklyFor(s),
           \/ \E e \in Events : Attend(s, e) \/ Unattend(s, e)
           \/ Redeem(s) \/ Insert(s) \/ Delete(s) \/ Earn(s) \/ Lose(s)
           \/ Total(s) \/ Save(s) \/ CreateReward(s)
    PROVE  WeeklyFor(s)'
  <1> USE DEF TInv, Before, Writing, WeeklySteps
  <1> DEFINE u == SessionUser[s]
  <1>1. u \in Users /\ (req[s] # NoRequest => req[s] \in Request)
    BY InFlight
  <1>2. weekly' = weekly /\ UNCHANGED <<reset, overtaken>>
    BY DEF Attend, Unattend, Redeem, Insert, Delete, Earn, Lose, Total, Save,
           CreateReward, points, resetting
  <1>3. user'[u].weekly = user[u].weekly
    <2>1. CASE Save(s)
      BY <2>1, <1>1 DEF Save, TypeOK, Columns
    <2>2. CASE user' = user
      BY <2>2
    <2> QED BY <2>1, <2>2 DEF Attend, Unattend, Redeem, Insert, Delete, Earn, Lose,
               Total, CreateReward
  <1>4. CASE (\E e \in Events : Attend(s, e) \/ Unattend(s, e)) \/ Redeem(s)
    <2>1. /\ req[s] = NoRequest /\ req'[s].seen = user[u]
          /\ req'[s].step \in {"insert", "delete", "create"}
      <3>1. CASE \E e \in Events : Attend(s, e)
        BY <3>1 DEF Attend, Load, TypeOK
      <3>2. CASE \E e \in Events : Unattend(s, e)
        BY <3>2 DEF Unattend, Load, TypeOK
      <3>3. CASE Redeem(s)
        BY <3>3 DEF Redeem, Load, TypeOK
      <3> QED BY <1>4, <3>1, <3>2, <3>3
    <2>3. StepOf(s) \notin Writing /\ StepOf(s)' \notin Writing
      BY <2>1 DEF StepOf
    <2> QED BY <1>2, <1>3, <2>1, <2>3, WeeklyFrame
  <1>5. CASE Insert(s) \/ Delete(s) \/ Earn(s) \/ Lose(s)
    <2>1. /\ req'[s].seen = req[s].seen /\ req[s] # NoRequest
          /\ req[s].step \in Before /\ req'[s].step \in Before
      <3>1. CASE Insert(s) \/ Delete(s)
        BY <3>1, GotoType DEF Insert, Delete, At, RequestSteps
      <3>2. CASE Earn(s) \/ Lose(s)
        BY <3>2, ManagerType
      <3> QED BY <1>5, <3>1, <3>2
    <2>2. StepOf(s) \in Before /\ StepOf(s)' \in Before \cup {"none"}
      BY <2>1 DEF StepOf
    <2> QED BY <1>2, <1>3, <2>1, <2>2, WeeklyFrame
  <1>6. CASE Total(s) \/ Save(s) \/ CreateReward(s)
    <2>1. StepOf(s) \in {"total", "save", "create"}
      BY <1>6 DEF Total, Save, CreateReward, At, StepOf
    <2>2. StepOf(s)' \in {"save", "none"}
      <3>1. CASE Total(s)
        <4>1. req'[s] = [req[s] EXCEPT !.step = "save",
                  !.total = [points |-> earned[u], credits |-> Credits(u)]]
          BY <3>1 DEF Total, TypeOK
        <4>2. req'[s].step = "save"
          <5>1. req[s] \in Request
            BY <1>1, <3>1 DEF Total, At
          <5> QED BY <4>1, <5>1 DEF Request
        <4> QED BY <4>2 DEF StepOf
      <3>2. CASE Save(s) \/ CreateReward(s)
        BY <3>2 DEF Save, CreateReward, Done, TypeOK, StepOf
      <3> QED BY <1>6, <3>1, <3>2
    <2> QED BY <1>2, <1>3, <2>1, <2>2, WeeklyFrame
  <1> QED BY <1>4, <1>5, <1>6

\* The updates of the weekly totals: the user's covers what the membership will
\* be given or keep.
LEMMA WeeklyWritten ==
    ASSUME TInv, NEW s \in Sessions, WeeklyFor(s), WeeklyUpdate(s)
    PROVE  WeeklyFor(s)'
  <1> USE DEF TInv
  <1> DEFINE u == SessionUser[s]  r == req[s]  member == weekly.member[u]
             total == user[u].weekly
  <1>1. /\ u \in Users /\ r # NoRequest /\ r \in Request /\ req'[s] # NoRequest
        /\ member \in Nat /\ total \in Nat /\ r.seen.weekly \in Nat
        /\ UNCHANGED <<reset, overtaken>>
    BY WeeklyMoves, WeeklyWrites, WeeklyTypes
  <1>2. \A n \in Nat : After(req'[s], n) = After(r, n)
    BY WeeklyMoves DEF After, Minus
  <1>3. StepOf(s) = r.step /\ StepOf(s)' = req'[s].step
    BY <1>1 DEF StepOf
  <1> SUFFICES ASSUME u \notin overtaken
               PROVE  WeeklyFor(s)'
    BY <1>1 DEF WeeklyFor
  <1> USE DEF Writing, WeeklySteps, Before
  <1>4. CASE UserWeekly(s)
    <2> DEFINE seen == r.seen.weekly
    <2>1. r.step = "user" /\ req'[s].step = "group"
      BY <1>4, WeeklyMoves
    <2>2. weekly' = weekly /\ user'[u].weekly = Weekly(r, seen, total)
      BY <1>1, <1>4, WeeklyWrites DEF TypeOK, Columns
    <2>3. reset = "idle" => member <= total /\ member <= seen
      BY <1>3, <2>1 DEF WeeklyFor
    <2>4. After(r, seen) \in Nat /\ After(r, 0) <= After(r, seen)
      BY <1>1, AfterMonotone
    <2>5. After(r, seen) = seen => After(r, 0) = 0
      BY <1>1, AfterMonotone
    <2>6. reset = "idle" => /\ After(r, member) \in Nat
                            /\ After(r, member) <= After(r, seen)
                            /\ After(r, seen) = seen => After(r, member) <= member
      BY <1>1, <2>3, AfterMonotone
    <2> HIDE DEF seen, member, total, r, u
    <2>7. /\ After(r, 0) <= user'[u].weekly
          /\ reset = "idle" => After(r, member) <= user'[u].weekly
      BY <1>1, <2>2, <2>3, <2>4, <2>5, <2>6 DEF Weekly, Changed
    <2> QED BY <1>1, <1>2, <1>3, <2>1, <2>2, <2>7 DEF WeeklyFor, r, u, member
  <1>5. CASE ReadGroup(s) \/ GroupWeekly(s) \/ ReadMember(s)
    <2>1. /\ r.step \in {"group", "groupWeekly", "member"}
          /\ req'[s].step \in {"groupWeekly", "member", "memberWeekly"}
          /\ req'[s].step = "memberWeekly" => ReadMember(s)
          /\ ~UserWeekly(s) /\ ~MemberWeekly(s)
      BY <1>5, WeeklyMoves DEF UserWeekly, ReadGroup, GroupWeekly, ReadMember, MemberWeekly, At
    <2>2. user' = user /\ weekly'.member = weekly.member
      BY <2>1, WeeklyWrites, MemberWrites
    <2>3. ReadMember(s) => req'[s].read = member
      BY <1>1 DEF ReadMember, TypeOK, Request
    <2> HIDE DEF r
    <2> QED BY <1>1, <1>2, <1>3, <2>1, <2>2, <2>3 DEF WeeklyFor, r
  <1>6. CASE MemberWeekly(s)
    <2>1. r.step = "memberWeekly" /\ req'[s].step = "total" /\ ~GroupWeekly(s) /\ ~UserWeekly(s)
      BY <1>6, WeeklyMoves DEF UserWeekly, ReadGroup, GroupWeekly, ReadMember, MemberWeekly, At
    <2>2. r.read = member
      BY <1>3, <2>1 DEF WeeklyFor
    <2>3. user' = user /\ weekly'.member[u] = Weekly(r, r.read, member)
      BY <1>1, <1>6, <2>1, WeeklyWrites DEF TypeOK
    <2>4. weekly'.member[u] = After(r, member)
      BY <2>2, <2>3 DEF Weekly, Changed
    <2>5. reset = "idle" => weekly'.member[u] <= user'[u].weekly
      BY <1>3, <2>1, <2>3, <2>4 DEF WeeklyFor
    <2> QED BY <1>1, <1>3, <2>1, <2>5 DEF WeeklyFor
  <1> QED BY <1>4, <1>5, <1>6 DEF WeeklyUpdate

\* The statements of a reset.
LEMMA WeeklyReset ==
    ASSUME TInv, WeeklyInv, ResetUsers \/ ResetGroups \/ ResetMembers
    PROVE  WeeklyInv'
  <1> USE DEF TInv
  <1>1. req' = req /\ \A s \in Sessions : StepOf(s)' = StepOf(s)
    BY DEF ResetUsers, ResetGroups, ResetMembers, StepOf
  <1>2. \A s \in Sessions : /\ SessionUser[s] \in Users
                            /\ StepOf(s) \in Writing => SessionUser[s] \in UserWritten
                            /\ StepOf(s) = "memberWeekly" =>
                                  SessionUser[s] \in Between({"memberWeekly"})
    BY DEF StepOf, UserWritten, Between, At, Writing, WeeklySteps
  <1>3. \A u \in UserWritten \cup Between({"memberWeekly"}) :
           \E s \in Sessions : SessionUser[s] = u
    BY DEF UserWritten, Between
  <1>4. CASE ResetUsers
    <2>1. reset' = "users" /\ overtaken' = overtaken \cup UserWritten /\ weekly' = weekly
      BY <1>4 DEF ResetUsers, points
    <2>2. ASSUME NEW s \in Sessions PROVE WeeklyFor(s)'
      <3>1. "memberWeekly" \in Writing
        BY DEF Writing, WeeklySteps
      <3> QED BY <1>1, <1>2, <2>1, <3>1 DEF WeeklyFor
    <2>3. ASSUME NEW u \in Users, \A s \in Sessions : SessionUser[s] # u
          PROVE  u \notin overtaken'
      BY <1>3, <2>1, <2>3 DEF WeeklyInv
    <2> QED BY <2>1, <2>2, <2>3 DEF WeeklyInv
  <1>5. CASE ResetGroups
    <2>1. /\ reset' = "groups" /\ overtaken' = overtaken /\ user' = user
          /\ weekly'.member = weekly.member
      BY <1>5 DEF ResetGroups, TypeOK
    <2>2. ASSUME NEW s \in Sessions PROVE WeeklyFor(s)'
      BY <1>1, <2>1 DEF WeeklyInv, WeeklyFor, After, Minus
    <2> QED BY <2>1, <2>2 DEF WeeklyInv
  <1>6. CASE ResetMembers
    <2>1. /\ overtaken' = (overtaken \cap UserWritten) \cup Between({"memberWeekly"})
          /\ user' = user /\ \A u \in Users : weekly'.member[u] = 0
      BY <1>6 DEF ResetMembers, TypeOK
    <2>2. ASSUME NEW s \in Sessions PROVE WeeklyFor(s)'
      <3> DEFINE u == SessionUser[s]
      <3>1. SUFFICES ASSUME u \notin overtaken' PROVE WeeklyFor(s)'
        BY DEF WeeklyFor
      <3>2. StepOf(s) # "memberWeekly"
        BY <1>2, <2>1, <3>1
      <3>3. StepOf(s) \in Writing => After(req[s], 0) <= user[u].weekly
        BY <1>2, <2>1, <3>1 DEF WeeklyInv, WeeklyFor
      <3>4. user[u].weekly \in Nat /\ weekly'.member[u] = 0
        BY <1>2, <2>1, WeeklyTypes
      <3>5. StepOf(s) \in Before => 0 <= req[s].seen.weekly
        BY WeeklyTypes DEF StepOf, Before
      <3>6. After(req[s], 0)' = After(req[s], 0)
        BY <1>1 DEF After, Minus
      <3> QED BY <1>1, <2>1, <3>2, <3>3, <3>4, <3>5, <3>6 DEF WeeklyFor, After, Minus
    <2>3. ASSUME NEW u \in Users, \A s \in Sessions : SessionUser[s] # u
          PROVE  u \notin overtaken' /\ weekly'.member[u] <= user'[u].weekly
      BY <1>3, <2>1, <2>3, WeeklyTypes
    <2> QED BY <2>2, <2>3 DEF WeeklyInv
  <1> QED BY <1>4, <1>5, <1>6

LEMMA WeeklyStep ==
    ASSUME TInv, OneSessionEach, WeeklyInv, [Next]_vars
    PROVE  WeeklyInv'
  <1>1. ASSUME NEW s \in Sessions,
               \/ \E e \in Events : Attend(s, e) \/ Unattend(s, e)
               \/ Redeem(s) \/ Proceed(s)
        PROVE  WeeklyInv'
    <2>1. WeeklyFor(s)'
      BY <1>1, WeeklyRead, WeeklyWritten DEF Proceed, WeeklyUpdate, WeeklyInv
    <2>2. ASSUME NEW t \in Sessions, t # s PROVE WeeklyFor(t)'
      <3>1. SessionUser[t] \in Users \ {SessionUser[s]}
        BY <2>2, SessionAssumption DEF OneSessionEach
      <3>2. /\ weekly'.member[SessionUser[t]] = weekly.member[SessionUser[t]]
            /\ user'[SessionUser[t]] = user[SessionUser[t]]
            /\ req'[t] = req[t] /\ UNCHANGED <<reset, overtaken>>
        BY <2>2, <3>1, <1>1, PointsElsewhere
      <3> QED BY <3>2, WeeklyFrame DEF WeeklyInv, TInv
    <2>3. ASSUME NEW u \in Users, \A t \in Sessions : SessionUser[t] # u
          PROVE  /\ weekly'.member[u] = weekly.member[u] /\ user'[u] = user[u]
                 /\ UNCHANGED <<reset, overtaken>>
      BY <1>1, <2>3, PointsElsewhere
    <2> QED BY <2>1, <2>2, <2>3 DEF WeeklyInv
  <1>2. ASSUME UNCHANGED <<req, weekly, reset, overtaken>>,
               \A u \in Users : user'[u].weekly = user[u].weekly
        PROVE  WeeklyInv'
    <2>1. ASSUME NEW s \in Sessions PROVE WeeklyFor(s)'
      BY <1>2, <2>1, WeeklyFrame, SessionAssumption DEF WeeklyInv, TInv
    <2> QED BY <1>2, <2>1 DEF WeeklyInv
  <1>3. CASE \E r \in Redemptions : Approve(r) \/ Forfeit(r) \/ Mailer(r)
    BY <1>3, <1>2 DEF Approve, Forfeit, Mailer, points, resetting
  <1>4. CASE ApproveTotal
    BY <1>4, <1>2 DEF ApproveTotal, points, resetting
  <1>5. CASE ApproveSave
    <2>1. UNCHANGED <<req, weekly, reset, overtaken>>
      BY <1>5 DEF ApproveSave, points, resetting
    <2>2. \A u \in Users : user'[u].weekly = user[u].weekly
      <3>1. PICK w, credits : user' = [user EXCEPT ![w].credits = credits]
        BY <1>5 DEF ApproveSave
      <3> QED BY <3>1 DEF TInv, TypeOK, Columns
    <2> QED BY <2>1, <2>2, <1>2
  <1>6. CASE UNCHANGED vars
    BY <1>6, <1>2 DEF vars, points, resetting
  <1> QED BY <1>1, <1>3, <1>4, <1>5, <1>6, WeeklyReset DEF Next

\* Between the requests of a user with one session, and between resets, the
\* membership has no more points than its user, unless a reset came between the
\* update of the user and that of the membership.
THEOREM WeeklyTotalsAgree == Spec => []MemberWithinUser
  <1> DEFINE Inv == TInv /\ (OneSessionEach => WeeklyInv)
  <1>1. Init => Inv
    BY InitTInv, InitWeekly
  <1>2. Inv /\ [Next]_vars => Inv'
    BY TInvStep, WeeklyStep DEF OneSessionEach
  <1>3. Inv => MemberWithinUser
    <2> SUFFICES ASSUME WeeklyInv, NEW u \in Users, Quiet(u), reset = "idle",
                        u \notin overtaken
        PROVE  weekly.member[u] <= user[u].weekly
      BY DEF MemberWithinUser
    <2>1. ASSUME NEW s \in Sessions, SessionUser[s] = u
          PROVE  weekly.member[u] <= user[u].weekly
      <3>1. StepOf(s) \notin Writing
        BY <2>1 DEF Quiet, StepOf, Writing, WeeklySteps
      <3> QED BY <2>1, <3>1 DEF WeeklyInv, WeeklyFor
    <2> QED BY <2>1 DEF WeeklyInv
  <1> QED BY <1>1, <1>2, <1>3, PTL DEF Spec
=============================================================================
