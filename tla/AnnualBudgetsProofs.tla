------------------------ MODULE AnnualBudgetsProofs -------------------------
(***************************************************************************)
(* For any number of annual budgets, requests, events and expenses, and    *)
(* whatever comes between two transactions of an administrator's           *)
(* operation: a group has at most one open annual budget of each kind, a   *)
(* closed one is never written, and the figures of the only open one go    *)
(* wrong in two ways only.                                                 *)
(*                                                                         *)
(* The first two need no figure, and IInv leaves them untyped.  The last   *)
(* one is about sums: the lemmas on SumFunctionOnSet say that they exist   *)
(* and are numbers, and the rest is which rows, events and expenses each   *)
(* of them ranges over when it is written and when it is read.             *)
(***************************************************************************)
EXTENDS AnnualBudgets, FiniteSetTheorems, WellFoundedInduction, TLAPS

\* A table of annual budgets, whatever its figures.
RowShape(row) ==
    /\ row = [state |-> row.state, enterprise |-> row.enterprise,
              figures |-> row.figures]
    /\ row.state \in {"absent", "open", "closed"}
    /\ row.enterprise \in BOOLEAN
Table(t) == t = [a \in Ids |-> t[a]] /\ \A a \in Ids : RowShape(t[a])

OneOpen(t) ==
    \A a, b \in Ids :
        t[a].state = "open" /\ t[b].state = "open"
        /\ t[a].enterprise = t[b].enterprise => a = b

\* The row an operation is about to write to is open.
RowIsOpen ==
    /\ admin = [name |-> admin.name, step |-> admin.step, row |-> admin.row,
                seen |-> admin.seen, money |-> admin.money, loaded |-> admin.loaded]
    /\ admin.step \in Steps
    /\ admin.row \in Ids \cup {0}
    /\ admin.step = "close" /\ admin.row # 0 => annual[admin.row].state = "open"
    /\ admin.step \in {"amount", "group", "clear", "clearRow"} /\ admin.row # 0
          => annual[admin.row].state = "open"
    /\ admin.step \in {"amount", "clearRow"} => admin.row # 0

IInv == Table(annual) /\ OneOpen(annual) /\ RowIsOpen

\* u is t with rows created, and figures of open rows written.
Extends(t, u) ==
    /\ Table(u)
    /\ OneOpen(u)
    /\ \A a \in Ids : /\ t[a].state = "closed" => u[a] = t[a]
                      /\ t[a].state = "open" => u[a].state = "open"
                      /\ u[a].state = "absent" => u[a] = t[a]

LEMMA NatMin ==
    ASSUME NEW S, S \subseteq Nat, S # {}
    PROVE  \E m \in S : \A y \in S : m <= y
  <1>1. PICK m \in S : \A y \in S : ~(<<y, m>> \in OpToRel(<, Nat))
    BY NatLessThanWellFounded, WFMin
  <1>2. ASSUME NEW y \in S PROVE m <= y
    <2>1. m \in Nat /\ y \in Nat
      OBVIOUS
    <2>2. ~(y < m)
      BY <1>1, <2>1 DEF OpToRel
    <2> QED BY <2>1, <2>2
  <1> QED BY <1>2

LEMMA MinId ==
    ASSUME NEW S, S \subseteq Ids, S # {}
    PROVE  Min(S) \in S
  <1>1. S \subseteq Nat
    BY BoundAssumption DEF Ids
  <1>2. \E m \in S : \A y \in S : m <= y
    BY <1>1, NatMin
  <1> QED BY <1>2 DEF Min

LEMMA MaxId ==
    ASSUME NEW S, S \subseteq Ids, S # {}
    PROVE  Max(S) \in S
  <1> DEFINE T == {n \in Nat : \E x \in S : n = MaxYears - x}
  <1>1. T # {}
    <2>1. PICK x \in S : TRUE
      OBVIOUS
    <2>2. MaxYears - x \in T
      BY BoundAssumption DEF Ids
    <2> QED BY <2>2
  <1>2. PICK m \in T : \A y \in T : m <= y
    BY <1>1, NatMin
  <1>3. PICK x \in S : m = MaxYears - x
    BY <1>2
  <1>4. ASSUME NEW y \in S PROVE x >= y
    <2>1. MaxYears - y \in T
      BY BoundAssumption DEF Ids
    <2>2. m <= MaxYears - y
      BY <1>2, <2>1
    <2> QED BY <1>3, <2>2, BoundAssumption DEF Ids
  <1> QED BY <1>4 DEF Max

LEMMA ExtendsTransitive ==
    ASSUME NEW t, NEW u, NEW v, Extends(t, u), Extends(u, v)
    PROVE  Extends(t, v)
  BY DEF Extends

\* find_or_create_by keeps what is there and returns an open row.
LEMMA FindOrCreateKeeps ==
    ASSUME Table(annual), OneOpen(annual), NEW enterprise \in BOOLEAN,
           NEW rows, rows \subseteq OpenRows, CanFindOrCreate(rows),
           \A a \in OpenRows : annual[a].enterprise = enterprise => rows # {}
    PROVE  /\ Extends(annual, FindOrCreate(rows, enterprise))
           /\ FindOrCreateId(rows) \in Ids
           /\ FindOrCreate(rows, enterprise)[FindOrCreateId(rows)].state = "open"
  <1>1. CASE rows # {}
    <2>1. FindOrCreateId(rows) \in rows
      BY <1>1, MinId DEF FindOrCreateId, OpenRows, InState
    <2> QED BY <1>1, <2>1 DEF FindOrCreate, Extends, OpenRows, InState
  <1>2. CASE rows = {}
    <2> DEFINE id == FindOrCreateId(rows)
               new == [state |-> "open", enterprise |-> enterprise, figures |-> NoFigures]
               u == FindOrCreate(rows, enterprise)
    <2>1. id \in Ids /\ annual[id].state = "absent"
      BY <1>2, MinId DEF FindOrCreateId, CanFindOrCreate, InState
    <2>2. u = [annual EXCEPT ![id] = new]
      BY <1>2 DEF FindOrCreate
    <2> HIDE DEF id, u
    <2>3. /\ u[id] = new
          /\ \A a \in Ids : a # id => u[a] = annual[a]
          /\ u = [a \in Ids |-> u[a]]
      BY <2>1, <2>2 DEF Table
    <2>4. RowShape(new)
      BY DEF RowShape
    <2>5. Table(u)
      BY <2>3, <2>4 DEF Table
    <2>6. OneOpen(u)
      BY <1>2, <2>1, <2>3 DEF OneOpen, OpenRows, InState
    <2>7. Extends(annual, u)
      BY <2>1, <2>3, <2>5, <2>6 DEF Extends
    <2> QED BY <2>1, <2>3, <2>7 DEF id, u
  <1> QED BY <1>1, <1>2

\* Writing the figures of an open row.
LEMMA FiguresKeep ==
    ASSUME NEW t, Table(t), OneOpen(t), NEW a \in Ids, t[a].state = "open",
           NEW figures
    PROVE  /\ Extends(t, [t EXCEPT ![a].figures = figures])
           /\ [t EXCEPT ![a].figures = figures][a].state = "open"
  <1> DEFINE u == [t EXCEPT ![a].figures = figures]
  <1>1. u[a] = [t[a] EXCEPT !.figures = figures]
    BY DEF Table
  <1>2. RowShape(t[a])
    BY DEF Table
  <1>3. /\ RowShape(u[a])
        /\ u[a].state = t[a].state /\ u[a].enterprise = t[a].enterprise
    BY <1>1, <1>2 DEF RowShape
  <1>4. /\ \A b \in Ids : b # a => u[b] = t[b]
        /\ u = [b \in Ids |-> u[b]]
    BY DEF Table
  <1> HIDE DEF u
  <1>5. Table(u) /\ OneOpen(u)
    BY <1>3, <1>4 DEF Table, OneOpen
  <1>6. Extends(t, u) /\ u[a].state = "open"
    BY <1>3, <1>4, <1>5 DEF Extends
  <1> QED BY <1>6 DEF u

LEMMA RefreshKeeps ==
    ASSUME NEW t, Table(t), OneOpen(t), NEW a \in Ids, t[a].state = "open",
           NEW g, NEW approved, NEW spent
    PROVE  /\ Extends(t, Refresh(t, a, g, approved, spent).annual)
           /\ Refresh(t, a, g, approved, spent).annual[a].state = "open"
  <1>1. PICK figures :
          Refresh(t, a, g, approved, spent).annual = [t EXCEPT ![a].figures = figures]
    BY DEF Refresh
  <1> QED BY <1>1, FiguresKeep

\* The callback creates a row only when there is none, and writes to an open one.
LEMMA CallbackKeeps ==
    ASSUME IInv, NEW table, Extends(annual, table),
           Current(table) # {} \/ (table = annual /\ CanFindOrCreate(OpenRows)),
           NEW requests, NEW events, NEW expenses, NEW twice \in BOOLEAN,
           UpdateAnnualBudget(table, requests, events, expenses, twice)
    PROVE  Extends(annual, annual')
  <1> DEFINE rows == Current(table)
             row == FindOrCreateId(rows)
             created == IF rows # {} THEN table ELSE FindOrCreate(rows, FALSE)
             approved == ApprovedBudget(created, requests)
             spent == SpentBudget(created, events, expenses)
             once == Refresh(created, row, group, approved, spent)
             again == Refresh(once.annual, row, once.group, approved, spent)
  <1>1. Extends(annual, created) /\ row \in Ids /\ created[row].state = "open"
    <2>1. CASE rows # {}
      <3>1. row \in rows
        BY <2>1, MinId DEF FindOrCreateId, Current
      <3> QED BY <2>1, <3>1 DEF Current
    <2>2. CASE rows = {}
      <3>1. table = annual /\ rows = OpenRows /\ CanFindOrCreate(rows)
        BY <2>2 DEF Current, OpenRows, InState
      <3>2. created = FindOrCreate(rows, FALSE)
        BY <2>2
      <3> HIDE DEF rows, created
      <3> QED BY <3>1, <3>2, FindOrCreateKeeps DEF IInv, row
    <2> QED BY <2>1, <2>2
  <1>2. annual' = IF twice THEN again.annual ELSE once.annual
    BY DEF UpdateAnnualBudget
  <1> HIDE DEF rows, row, created, approved, spent
  <1>3. Extends(created, once.annual) /\ once.annual[row].state = "open"
    BY <1>1, RefreshKeeps DEF Extends
  <1> HIDE DEF once
  <1>4. Extends(once.annual, again.annual)
    BY <1>1, <1>3, RefreshKeeps DEF Extends
  <1> HIDE DEF again
  <1>5. Extends(annual, once.annual)
    BY <1>1, <1>3, ExtendsTransitive
  <1>6. Extends(annual, again.annual)
    BY <1>4, <1>5, ExtendsTransitive
  <1> QED BY <1>2, <1>5, <1>6

\* A request that leaves the operation in flight alone.
LEMMA RequestKeeps ==
    ASSUME IInv, Extends(annual, annual'), UNCHANGED admin
    PROVE  IInv'
  BY DEF IInv, Extends, RowIsOpen

LEMMA ExtendsItself ==
    ASSUME IInv PROVE Extends(annual, annual)
  BY DEF IInv, Extends

LEMMA EnterpriseKeeps ==
    ASSUME IInv, CanFindOrCreate(EnterpriseRows)
    PROVE  /\ Extends(annual, FindOrCreate(EnterpriseRows, TRUE))
           /\ FindOrCreateId(EnterpriseRows) \in Ids
           /\ FindOrCreate(EnterpriseRows, TRUE)[FindOrCreateId(EnterpriseRows)].state
                = "open"
  <1>1. PICK rows : rows = EnterpriseRows
    OBVIOUS
  <1>2. /\ rows \subseteq OpenRows
        /\ \A a \in OpenRows : annual[a].enterprise = TRUE => rows # {}
    BY <1>1 DEF EnterpriseRows
  <1> QED BY <1>1, <1>2, FindOrCreateKeeps DEF IInv

\* The requests of one transaction.
OneTransaction ==
    \/ \E r \in Requests : CreateRequest(r) \/ DeclineRequest(r) \/ DestroyRequest(r)
    \/ \E e \in Events : \/ CreateEvent(e) \/ DrawLeftover(e)
                         \/ FinishExpenses(e) \/ DestroyEvent(e)
                         \/ \E r \in Requests : ReassignEvent(e, r)
    \/ \E x \in Expenses : AddExpense(x) \/ UpdateExpense(x) \/ DestroyExpense(x)

LEMMA OneTransactionKeeps ==
    ASSUME IInv, OneTransaction
    PROVE  Extends(annual, annual') /\ UNCHANGED admin
  <1>1. ASSUME NEW r \in Requests, CreateRequest(r)
        PROVE  Extends(annual, annual') /\ UNCHANGED admin
    BY <1>1, EnterpriseKeeps DEF CreateRequest
  <1>2. ASSUME NEW r \in Requests, DestroyRequest(r)
        PROVE  Extends(annual, annual') /\ UNCHANGED admin
    BY <1>2, CallbackKeeps, ExtendsItself DEF DestroyRequest
  <1>3. ASSUME NEW e \in Events, CreateEvent(e)
        PROVE  Extends(annual, annual') /\ UNCHANGED admin
    BY <1>3, EnterpriseKeeps DEF CreateEvent
  <1>4. ASSUME NEW e \in Events, DestroyEvent(e)
        PROVE  Extends(annual, annual') /\ UNCHANGED admin
    <2>1. PICK twice \in BOOLEAN : twice = (LiveExpensesOf(e) # {})
      OBVIOUS
    <2>2. UpdateAnnualBudget(annual, request, event', expense', twice)
      BY <1>4, <2>1 DEF DestroyEvent
    <2> QED BY <1>4, <2>2, CallbackKeeps, ExtendsItself DEF DestroyEvent
  <1>5. ASSUME NEW x \in Expenses, AddExpense(x)
        PROVE  Extends(annual, annual') /\ UNCHANGED admin
    <2>1. PICK table : table = FindOrCreate(EnterpriseRows, TRUE)
      OBVIOUS
    <2>2. Extends(annual, table) /\ Current(table) # {}
      BY <1>5, <2>1, EnterpriseKeeps DEF AddExpense, Current
    <2>3. UpdateAnnualBudget(table, request, event, expense', TRUE)
      BY <1>5, <2>1 DEF AddExpense
    <2> QED BY <1>5, <2>2, <2>3, CallbackKeeps DEF AddExpense
  <1>6. ASSUME NEW x \in Expenses, UpdateExpense(x) \/ DestroyExpense(x)
        PROVE  Extends(annual, annual') /\ UNCHANGED admin
    BY <1>6, CallbackKeeps, ExtendsItself DEF UpdateExpense, DestroyExpense
  <1>7. ASSUME UNCHANGED <<annual, admin>>
        PROVE  Extends(annual, annual') /\ UNCHANGED admin
    BY <1>7, ExtendsItself
  <1> QED BY <1>1, <1>2, <1>3, <1>4, <1>5, <1>6, <1>7
          DEF OneTransaction, DeclineRequest, DrawLeftover, FinishExpenses, ReassignEvent

LEMMA IdleShape == Idle.step = "idle" /\ Idle.row = 0
                   /\ Idle = [name |-> Idle.name, step |-> Idle.step, row |-> Idle.row,
                              seen |-> Idle.seen, money |-> Idle.money,
                              loaded |-> Idle.loaded]
  BY DEF Idle

\* An operation that ends, or has no row yet.
LEMMA IdleKeeps ==
    ASSUME IInv, Extends(annual, annual'),
           \/ admin' = Idle
           \/ \E name, seen, money : Begin(name, "snapshot", 0, seen, money)
    PROVE  IInv'
  BY IdleShape DEF IInv, Extends, RowIsOpen, Begin, Steps

LEMMA BeginCarryOverKeeps ==
    ASSUME IInv, BeginCarryOver
    PROVE  IInv' /\ UNCHANGED annual
  <1> DEFINE rows == {a \in EnterpriseRows : annual[a].figures.leftover # 0}
  <1>1. /\ rows # {} /\ UNCHANGED annual
        /\ Begin("carry_over", "close", Max(rows), group,
                 annual[Max(rows)].figures.leftover)
    BY DEF BeginCarryOver
  <1>2. rows \subseteq Ids /\ \A a \in rows : annual[a].state = "open"
    BY DEF EnterpriseRows, OpenRows, InState
  <1> HIDE DEF rows
  <1>3. Max(rows) \in rows
    BY <1>1, <1>2, MaxId
  <1> QED BY <1>1, <1>2, <1>3 DEF IInv, RowIsOpen, Begin, Steps

LEMMA SnapshotKeeps ==
    ASSUME IInv, Snapshot
    PROVE  IInv' /\ Extends(annual, annual')
  <1>1. PICK table, row, figures :
          /\ table = FindOrCreate(EnterpriseRows, TRUE)
          /\ row = FindOrCreateId(EnterpriseRows)
          /\ annual' = [table EXCEPT ![row].figures = figures]
    BY DEF Snapshot
  <1>2. Extends(annual, table) /\ row \in Ids /\ table[row].state = "open"
    BY <1>1, EnterpriseKeeps DEF Snapshot
  <1>3. Extends(table, annual')
    <2>1. Table(table) /\ OneOpen(table)
      BY <1>2 DEF Extends
    <2> QED BY <1>1, <1>2, <2>1, FiguresKeep
  <1>4. Extends(annual, annual')
    BY <1>2, <1>3, ExtendsTransitive
  <1>5. PICK rows :
          /\ rows = {a \in Ids : /\ annual'[a].state = "open" /\ annual'[a].enterprise
                                 /\ annual'[a].figures.amount # 0}
          /\ \/ admin' = Idle
             \/ \E loaded : \E step \in {"clear", "close"} :
                  admin' = [admin EXCEPT !.row = IF rows = {} THEN 0 ELSE Max(rows),
                                         !.step = step, !.loaded = loaded]
    BY DEF Snapshot
  <1>6. CASE admin' = Idle
    BY <1>4, <1>6, IdleKeeps
  <1>7. CASE admin' # Idle
    <2>0. PICK loaded : \E step \in {"clear", "close"} :
            admin' = [admin EXCEPT !.row = IF rows = {} THEN 0 ELSE Max(rows),
                                   !.step = step, !.loaded = loaded]
      BY <1>5, <1>7
    <2>1. PICK step \in {"clear", "close"} :
            admin' = [admin EXCEPT !.row = IF rows = {} THEN 0 ELSE Max(rows),
                                   !.step = step, !.loaded = loaded]
      BY <2>0
    <2>2. /\ rows \subseteq Ids
          /\ \A a \in rows : annual'[a].state = "open"
      BY <1>5
    <2>3. PICK id \in Ids \cup {0} :
            /\ id = IF rows = {} THEN 0 ELSE Max(rows)
            /\ id # 0 => annual'[id].state = "open"
      BY <2>2, MaxId
    <2>4. admin' = [name |-> admin.name, step |-> step, row |-> id,
                    seen |-> admin.seen, money |-> admin.money, loaded |-> loaded]
      BY <2>1, <2>3 DEF IInv, RowIsOpen
    <2> QED BY <1>4, <2>3, <2>4 DEF IInv, Extends, RowIsOpen, Steps
  <1> QED BY <1>4, <1>6, <1>7

\* Closing is the one step that takes a row out of the open ones.
LEMMA CloseKeeps ==
    ASSUME IInv, Close
    PROVE  /\ IInv'
           /\ \A a \in Ids : annual[a].state = "closed" => annual'[a] = annual[a]
           /\ \A a \in Ids : annual'[a].state = "absent" => annual'[a] = annual[a]
  <1>1. CASE admin.row = 0
    BY <1>1, ExtendsItself, IdleKeeps DEF Close, IInv, Extends
  <1>2. CASE admin.row # 0
    <2>1. PICK id \in Ids : id = admin.row /\ annual[id].state = "open"
      BY <1>2 DEF Close, IInv, RowIsOpen
    <2>2. /\ annual' = [annual EXCEPT ![id].state = "closed"]
          /\ admin' = [admin EXCEPT !.step = "create"]
      BY <1>2, <2>1 DEF Close
    <2>3. /\ \A a \in Ids : a # id => annual'[a] = annual[a]
          /\ annual'[id] = [annual[id] EXCEPT !.state = "closed"]
          /\ annual' = [a \in Ids |-> annual'[a]]
      BY <2>2 DEF IInv, Table
    <2>4. RowShape(annual[id])
      BY DEF IInv, Table
    <2>5. RowShape(annual'[id]) /\ annual'[id].state = "closed"
      BY <2>3, <2>4 DEF RowShape
    <2>6. Table(annual)' /\ OneOpen(annual)'
      <3>1. ASSUME NEW a \in Ids PROVE RowShape(annual'[a])
        BY <2>3, <2>5 DEF IInv, Table
      <3>2. OneOpen(annual)'
        <4> SUFFICES ASSUME NEW a \in Ids, NEW b \in Ids,
                            annual'[a].state = "open", annual'[b].state = "open",
                            annual'[a].enterprise = annual'[b].enterprise
            PROVE  a = b
          BY DEF OneOpen
        <4>1. annual'[a] = annual[a] /\ annual'[b] = annual[b]
          BY <2>3, <2>5
        <4> QED BY <4>1 DEF IInv, OneOpen
      <3> QED BY <2>3, <3>1, <3>2 DEF Table
    <2>7. RowIsOpen'
      BY <2>2 DEF IInv, RowIsOpen, Steps
    <2>8. \A a \in Ids : /\ annual[a].state = "closed" => annual'[a] = annual[a]
                         /\ annual'[a].state = "absent" => annual'[a] = annual[a]
      BY <2>1, <2>3, <2>5
    <2>9. IInv'
      BY <2>6, <2>7 DEF IInv
    <2> QED BY <2>8, <2>9
  <1> QED BY <1>1, <1>2

LEMMA CreateNewKeeps ==
    ASSUME IInv, CreateNew
    PROVE  IInv' /\ Extends(annual, annual')
  <1>1. PICK id \in Ids :
          /\ id = FindOrCreateId(EnterpriseRows)
          /\ annual'[id].state = "open"
    BY EnterpriseKeeps DEF CreateNew
  <1>2. PICK step \in {"group", "amount"} :
          admin' = [admin EXCEPT !.row = id, !.step = step]
    BY <1>1 DEF CreateNew
  <1>3. admin' = [name |-> admin.name, step |-> step, row |-> id,
                  seen |-> admin.seen, money |-> admin.money, loaded |-> admin.loaded]
    BY <1>2 DEF IInv, RowIsOpen
  <1>4. Extends(annual, annual')
    BY EnterpriseKeeps DEF CreateNew
  <1>5. id # 0
    BY BoundAssumption DEF Ids
  <1> QED BY <1>1, <1>3, <1>4, <1>5 DEF IInv, Extends, RowIsOpen, Steps

LEMMA CarryAmountKeeps ==
    ASSUME IInv, CarryAmount
    PROVE  IInv' /\ Extends(annual, annual')
  <1>1. PICK id \in Ids : id = admin.row /\ annual[id].state = "open"
    BY DEF CarryAmount, IInv, RowIsOpen
  <1>2. PICK figures : annual' = [annual EXCEPT ![id].figures = figures]
    <2>1. annual' = [annual EXCEPT ![id].figures =
                       [annual[id].figures EXCEPT !.amount = admin.money]]
      BY <1>1 DEF CarryAmount, IInv, Table
    <2> QED BY <2>1
  <1>3. Extends(annual, annual')
    BY <1>1, <1>2, FiguresKeep DEF IInv
  <1>4. admin' = [admin EXCEPT !.step = "group"]
    BY DEF CarryAmount
  <1> QED BY <1>1, <1>3, <1>4 DEF IInv, Extends, RowIsOpen, Steps

LEMMA ClearRowKeeps ==
    ASSUME IInv, ClearRow
    PROVE  IInv' /\ Extends(annual, annual')
  <1>1. PICK id \in Ids : id = admin.row /\ annual[id].state = "open"
    BY DEF ClearRow, IInv, RowIsOpen
  <1>2. Extends(annual, annual')
    BY <1>1, FiguresKeep DEF ClearRow, IInv
  <1> QED BY <1>2, IdleKeeps DEF ClearRow

LEMMA ClearKeeps ==
    ASSUME IInv, Clear
    PROVE  IInv' /\ UNCHANGED annual
  <1>1. UNCHANGED annual
    BY DEF Clear
  <1>2. CASE admin.row = 0
    BY <1>1, <1>2, ExtendsItself, IdleKeeps DEF Clear
  <1>3. CASE admin.row # 0
    <2>1. admin' = [admin EXCEPT !.step = "clearRow"]
      BY <1>3 DEF Clear
    <2> QED BY <1>1, <1>3, <2>1 DEF Clear, IInv, RowIsOpen, Steps
  <1> QED BY <1>1, <1>2, <1>3

\* What every step does to the annual budgets.
LEMMA NextKeeps ==
    ASSUME IInv, [Next]_vars
    PROVE  /\ IInv'
           /\ \A a \in Ids : annual[a].state = "closed" => annual'[a] = annual[a]
           /\ \A a \in Ids : annual'[a].state = "absent" => annual'[a] = annual[a]
  <1>1. CASE OneTransaction
    BY <1>1, OneTransactionKeeps, RequestKeeps DEF Extends
  <1>2. CASE \/ Edit \/ BeginReset \/ SetGroup \/ Stop
             \/ \E r \in Requests : ApproveRequest(r)
    <2>1. UNCHANGED annual
      BY <1>2 DEF Edit, BeginReset, SetGroup, Stop, ApproveRequest
    <2>2. \/ admin' = Idle
          \/ \E name, seen, money : Begin(name, "snapshot", 0, seen, money)
      BY <1>2 DEF Edit, BeginReset, SetGroup, Stop, ApproveRequest
    <2> QED BY <2>1, <2>2, ExtendsItself, IdleKeeps
  <1>3. CASE BeginCarryOver \/ Clear
    BY <1>3, BeginCarryOverKeeps, ClearKeeps
  <1>4. CASE Snapshot \/ CreateNew \/ CarryAmount \/ ClearRow
    BY <1>4, SnapshotKeeps, CreateNewKeeps, CarryAmountKeeps, ClearRowKeeps DEF Extends
  <1>5. CASE Close
    BY <1>5, CloseKeeps
  <1>6. CASE UNCHANGED vars
    BY <1>6, ExtendsItself, RequestKeeps DEF vars
  <1> QED BY <1>1, <1>2, <1>3, <1>4, <1>5, <1>6 DEF Next, OneTransaction

LEMMA InitIInv == Init => IInv
  <1> SUFFICES ASSUME Init PROVE IInv
    OBVIOUS
  <1>1. ASSUME NEW a \in Ids
        PROVE  RowShape(annual[a]) /\ annual[a].state = "absent"
    BY DEF Init, RowShape
  <1>2. annual = [a \in Ids |-> annual[a]]
    BY DEF Init
  <1>3. RowIsOpen
    BY IdleShape DEF Init, RowIsOpen, Steps
  <1> QED BY <1>1, <1>2, <1>3 DEF IInv, Table, OneOpen

\* Whatever comes between the transactions of an operation, and wherever it
\* stops, there is one open annual budget of each kind at most.
THEOREM OneOpenAnnualBudget == Spec => []OneOpenRow
  <1>1. IInv => OneOpenRow
    BY DEF IInv, OneOpen, OneOpenRow, OpenRows, InState
  <1> QED BY <1>1, InitIInv, NextKeeps, PTL DEF Spec

\* No request and no step of an operation writes to a closed annual budget.
THEOREM ClosedAnnualBudgetIsKept == Spec => ClosedForGood
  <1>1. IInv /\ [Next]_vars =>
          [\A a \in Ids : annual[a].state = "closed" => annual'[a] = annual[a]]_vars
    BY NextKeeps
  <1> QED BY <1>1, InitIInv, NextKeeps, PTL DEF Spec, ClosedForGood
-----------------------------------------------------------------------------
(* Sums over finite sets.                                                  *)

Pick(S) == CHOOSE x \in S : TRUE

\* partial is the recursion of SumFunctionOnSet on the sets of a domain.
Sums(g, partial, domain) ==
    partial = [s \in domain |-> IF s = {} THEN 0 ELSE g[Pick(s)] + partial[s \ {Pick(s)}]]

LEMMA WithoutPick ==
    ASSUME NEW S, IsFiniteSet(S), S # {}
    PROVE  /\ Pick(S) \in S /\ IsFiniteSet(S \ {Pick(S)})
           /\ Cardinality(S) \in Nat /\ Cardinality(S) > 0
           /\ Cardinality(S \ {Pick(S)}) = Cardinality(S) - 1
  <1>1. Pick(S) \in S
    BY DEF Pick
  <1>2. Cardinality(S) \in Nat /\ Cardinality(S) # 0
    BY FS_CardinalityType, FS_EmptySet
  <1> QED BY <1>1, <1>2, FS_RemoveElement

\* The recursion has a solution: one on the sets with up to n elements extends
\* to those with n + 1.
LEMMA SumUnfolds ==
    ASSUME NEW g, NEW S, IsFiniteSet(S)
    PROVE  \E partial : Sums(g, partial, SUBSET S) /\ SumFunctionOnSet(g, S) = partial[S]
  <1> DEFINE Small(n) == {s \in SUBSET S : Cardinality(s) <= n}
             T == {n \in Nat : ~\E f : Sums(g, f, Small(n))}
  <1>1. \A s \in SUBSET S : IsFiniteSet(s) /\ Cardinality(s) \in Nat
                            /\ Cardinality(s) <= Cardinality(S)
    BY FS_Subset, FS_CardinalityType
  <1>2. ASSUME T # {} PROVE FALSE
    <2>1. PICK n \in T : \A k \in T : n <= k
      <3>1. T \in SUBSET Nat
        OBVIOUS
      <3> HIDE DEF T
      <3> QED BY <3>1, <1>2, NatMin
    <2>2. CASE n = 0
      <3>1. \A s \in Small(0) : s = {}
        BY <1>1, FS_EmptySet
      <3>2. Sums(g, [s \in Small(0) |-> 0], Small(0))
        BY <3>1 DEF Sums
      <3> QED BY <2>1, <2>2, <3>2
    <2>3. CASE n # 0
      <3>1. n - 1 \in Nat /\ n - 1 \notin T
        <4>1. T \subseteq Nat
          OBVIOUS
        <4> HIDE DEF T
        <4> QED BY <4>1, <2>1, <2>3
      <3>2. PICK f : Sums(g, f, Small(n - 1))
        BY <3>1
      <3> DEFINE h == [s \in Small(n) |-> IF s = {} THEN 0 ELSE g[Pick(s)] + f[s \ {Pick(s)}]]
      <3>3. \A s \in Small(n - 1) : s \in Small(n) /\ h[s] = f[s]
        <4>1. \A s \in Small(n - 1) : s \in Small(n)
          BY <1>1, <3>1, <2>1
        <4>2. ASSUME NEW s \in Small(n - 1) PROVE h[s] = f[s]
          <5>1. f[s] = IF s = {} THEN 0 ELSE g[Pick(s)] + f[s \ {Pick(s)}]
            BY <3>2 DEF Sums
          <5>2. h[s] = IF s = {} THEN 0 ELSE g[Pick(s)] + f[s \ {Pick(s)}]
            BY <4>1
          <5> QED BY <5>1, <5>2
        <4> QED BY <4>1, <4>2
      <3>4. \A s \in Small(n) : s # {} => s \ {Pick(s)} \in Small(n - 1)
        BY <1>1, <2>1, WithoutPick
      <3> HIDE DEF Small
      <3>5. h = [s \in Small(n) |-> IF s = {} THEN 0 ELSE g[Pick(s)] + h[s \ {Pick(s)}]]
        BY <3>3, <3>4
      <3> HIDE DEF h
      <3>6. Sums(g, h, Small(n))
        BY <3>5 DEF Sums
      <3> QED BY <2>1, <3>6
    <2> QED BY <2>2, <2>3
  <1>3. Small(Cardinality(S)) = SUBSET S
    BY <1>1
  <1>4. \E f : Sums(g, f, SUBSET S)
    <2>1. Cardinality(S) \in Nat /\ Cardinality(S) \notin T
      BY <1>1, <1>2
    <2> QED BY <1>3, <2>1
  <1>5. PICK partial : /\ partial = CHOOSE f : Sums(g, f, SUBSET S)
                       /\ Sums(g, partial, SUBSET S)
    BY <1>4
  <1>6. SumFunctionOnSet(g, S) = (CHOOSE f : Sums(g, f, SUBSET S))[S]
    BY DEF SumFunctionOnSet, FoldFunctionOnSet, MapThenFoldSet, Sums, Pick
  <1> QED BY <1>5, <1>6

\* No set of finite sets is without a least one.
LEMMA LeastSubset ==
    ASSUME NEW S, IsFiniteSet(S), NEW T \in SUBSET (SUBSET S), T # {}
    PROVE  \E m \in T : /\ IsFiniteSet(m) /\ \A x \in m : m \ {x} \notin T
  <1> DEFINE Sizes == {Cardinality(s) : s \in T}
  <1>1. \A s \in T : IsFiniteSet(s) /\ Cardinality(s) \in Nat
    BY FS_Subset, FS_CardinalityType
  <1>2. Sizes \in SUBSET Nat /\ Sizes # {}
    BY <1>1
  <1> HIDE DEF Sizes
  <1>3. PICK n \in Sizes : \A k \in Sizes : n <= k
    BY <1>2, NatMin
  <1>4. PICK m \in T : n = Cardinality(m)
    BY <1>3 DEF Sizes
  <1>5. ASSUME NEW x \in m PROVE m \ {x} \notin T
    <2>1. Cardinality(m \ {x}) = Cardinality(m) - 1
      BY <1>1, <1>4, FS_RemoveElement
    <2>2. m \ {x} \in T => n <= n - 1 /\ n \in Nat
      BY <1>1, <1>3, <1>4, <2>1 DEF Sizes
    <2> QED BY <2>2
  <1> QED BY <1>1, <1>5

\* The recursion has one solution only.
LEMMA SumsAgree ==
    ASSUME NEW g, NEW S, IsFiniteSet(S), NEW R \in SUBSET S, NEW p, NEW q,
           Sums(g, p, SUBSET S), Sums(g, q, SUBSET R)
    PROVE  p[R] = q[R]
  <1> DEFINE T == {s \in SUBSET R : p[s] # q[s]}
  <1>1. ASSUME NEW s \in SUBSET R
        PROVE  /\ p[s] = IF s = {} THEN 0 ELSE g[Pick(s)] + p[s \ {Pick(s)}]
               /\ q[s] = IF s = {} THEN 0 ELSE g[Pick(s)] + q[s \ {Pick(s)}]
    BY DEF Sums
  <1>2. T = {}
    <2> SUFFICES ASSUME T # {} PROVE FALSE
      OBVIOUS
    <2>1. T \in SUBSET (SUBSET R) /\ IsFiniteSet(R)
      BY FS_Subset
    <2>2. PICK m \in T : \A x \in m : m \ {x} \notin T
      <3> HIDE DEF T
      <3> QED BY <2>1, LeastSubset
    <2>3. m # {}
      BY <1>1, <2>2
    <2>4. Pick(m) \in m
      BY <2>3 DEF Pick
    <2>5. p[m \ {Pick(m)}] = q[m \ {Pick(m)}]
      BY <2>2, <2>4
    <2> QED BY <1>1, <2>2, <2>3, <2>5
  <1> QED BY <1>2

LEMMA SumNone == ASSUME NEW g PROVE SumFunctionOnSet(g, {}) = 0
  <1>1. PICK partial : Sums(g, partial, SUBSET {}) /\ SumFunctionOnSet(g, {}) = partial[{}]
    BY SumUnfolds, FS_EmptySet
  <1> QED BY <1>1 DEF Sums

LEMMA SumPicks ==
    ASSUME NEW g, NEW S, IsFiniteSet(S), S # {}
    PROVE  SumFunctionOnSet(g, S) = g[Pick(S)] + SumFunctionOnSet(g, S \ {Pick(S)})
  <1> DEFINE R == S \ {Pick(S)}
  <1>1. R \in SUBSET S /\ IsFiniteSet(R)
    BY WithoutPick
  <1>2. PICK p : Sums(g, p, SUBSET S) /\ SumFunctionOnSet(g, S) = p[S]
    BY SumUnfolds
  <1>3. PICK q : Sums(g, q, SUBSET R) /\ SumFunctionOnSet(g, R) = q[R]
    BY <1>1, SumUnfolds
  <1>4. p[S] = g[Pick(S)] + p[R]
    BY <1>2 DEF Sums
  <1>5. p[R] = q[R]
    <2>1. Sums(g, p, SUBSET S) /\ Sums(g, q, SUBSET R)
      BY <1>2, <1>3
    <2> HIDE DEF R
    <2> QED BY <1>1, <2>1, SumsAgree
  <1>6. SumFunctionOnSet(g, S) = g[Pick(S)] + SumFunctionOnSet(g, R)
    <2> HIDE DEF R
    <2> QED BY <1>2, <1>3, <1>4, <1>5
  <1> QED BY <1>6

LEMMA SumType ==
    ASSUME NEW g, NEW S, IsFiniteSet(S), \A x \in S : g[x] \in Int
    PROVE  SumFunctionOnSet(g, S) \in Int
  <1> DEFINE T == {s \in SUBSET S : SumFunctionOnSet(g, s) \notin Int}
  <1>1. T = {}
    <2> SUFFICES ASSUME T # {} PROVE FALSE
      OBVIOUS
    <2>1. T \in SUBSET (SUBSET S)
      OBVIOUS
    <2>2. PICK m \in T : IsFiniteSet(m) /\ \A x \in m : m \ {x} \notin T
      <3> HIDE DEF T
      <3> QED BY <2>1, LeastSubset
    <2>3. m # {}
      BY <2>2, SumNone
    <2>4. Pick(m) \in m /\ Pick(m) \in S
      BY <2>2, <2>3, WithoutPick
    <2>5. SumFunctionOnSet(g, m \ {Pick(m)}) \in Int
      BY <2>2, <2>4
    <2>6. SumFunctionOnSet(g, m) = g[Pick(m)] + SumFunctionOnSet(g, m \ {Pick(m)})
      BY <2>2, <2>3, SumPicks
    <2> QED BY <2>2, <2>4, <2>5, <2>6
  <1> QED BY <1>1

\* A column that cannot hold it drops less than a whole.
LEMMA WholeParts ==
    ASSUME NEW x \in Int
    PROVE  Whole(x) \in Int /\ x - Whole(x) \in (1 - Unit)..(Unit - 1)
  <1>1. ASSUME NEW n \in Int, n >= 0
        PROVE  /\ (n \div Unit) * Unit \in Int
               /\ n - (n \div Unit) * Unit >= 0 /\ n - (n \div Unit) * Unit <= Unit - 1
    BY <1>1, BoundAssumption
  <1>2. CASE x >= 0
    BY <1>1, <1>2, BoundAssumption DEF Whole
  <1>3. CASE ~(x >= 0)
    BY <1>1, <1>3, BoundAssumption DEF Whole
  <1> QED BY <1>2, <1>3

-----------------------------------------------------------------------------
(* The types of the columns.                                               *)

LEMMA StoredType ==
    ASSUME NEW amount \in Int, NEW approved \in Int, NEW spent \in Int, NEW leftover \in Int
    PROVE  Stored(amount, approved, spent, leftover) \in Figures
  <1>1. /\ Whole(amount) \in Int /\ Whole(approved) \in Int /\ Whole(spent) \in Int
        /\ Whole(leftover) \in Int
    BY WholeParts
  <1>2. approved - spent \in Int
    OBVIOUS
  <1>3. Whole(approved - spent) \in Int
    BY <1>2, WholeParts
  <1> QED BY <1>1, <1>3 DEF Stored, Figures

LEMMA ApprovedType ==
    ASSUME NEW table, NEW requests \in [Requests -> RequestRow]
    PROVE  ApprovedBudget(table, requests) \in Int
  <1> DEFINE S == {r \in Requests : /\ requests[r].status = "approved"
                                    /\ requests[r].year = Min(Current(table))}
             g == [r \in Requests |-> requests[r].total]
  <1>1. IsFiniteSet(S)
    BY FiniteAssumption, FS_Subset
  <1>2. \A r \in S : g[r] \in Int
    BY DEF RequestRow
  <1>3. SumFunctionOnSet(g, S) \in Int
    <2> HIDE DEF S, g
    <2> QED BY <1>1, <1>2, SumType
  <1> QED BY <1>3 DEF ApprovedBudget

LEMMA SpentType ==
    ASSUME NEW year, NEW events, NEW expenses \in [Expenses -> ExpenseRow]
    PROVE  Spent(year, events, expenses) \in Int
  <1> DEFINE S == {x \in Expenses : /\ expenses[x].state = "live"
                                    /\ events[expenses[x].event].state = "live"
                                    /\ expenses[x].year = year
                                    /\ events[expenses[x].event].year = year}
             g == [x \in Expenses |-> expenses[x].amount]
  <1>1. IsFiniteSet(S)
    BY FiniteAssumption, FS_Subset
  <1>2. \A x \in S : g[x] \in Int
    BY DEF ExpenseRow
  <1>3. SumFunctionOnSet(g, S) \in Int
    <2> HIDE DEF S, g
    <2> QED BY <1>1, <1>2, SumType
  <1> QED BY <1>3 DEF Spent

LEMMA SpentBudgetType ==
    ASSUME NEW table, NEW events, NEW expenses \in [Expenses -> ExpenseRow]
    PROVE  SpentBudget(table, events, expenses) \in Int
  BY SpentType DEF SpentBudget

LEMMA FindOrCreateType ==
    ASSUME IInv, annual \in [Ids -> YearRow], NEW enterprise \in BOOLEAN, NEW rows,
           rows # {} \/ FindOrCreateId(rows) \in Ids
    PROVE  FindOrCreate(rows, enterprise) \in [Ids -> YearRow]
  BY DEF FindOrCreate, YearRow, Figures, NoFigures

LEMMA EnterpriseType ==
    ASSUME IInv, annual \in [Ids -> YearRow], CanFindOrCreate(EnterpriseRows)
    PROVE  FindOrCreate(EnterpriseRows, TRUE) \in [Ids -> YearRow]
  BY EnterpriseKeeps, FindOrCreateType

\* Writing the figures of a row.
WithFigures(t, a, figures) == [t EXCEPT ![a].figures = figures]

LEMMA FiguresType ==
    ASSUME NEW t \in [Ids -> YearRow], NEW a \in Ids, NEW figures \in Figures
    PROVE  WithFigures(t, a, figures) \in [Ids -> YearRow]
  BY DEF YearRow, WithFigures

LEMMA FiguresTwice ==
    ASSUME NEW t \in [Ids -> YearRow], NEW a \in Ids, NEW f, NEW figures
    PROVE  WithFigures(WithFigures(t, a, f), a, figures) = WithFigures(t, a, figures)
  BY DEF YearRow, WithFigures

LEMMA RefreshType ==
    ASSUME NEW t \in [Ids -> YearRow], NEW a \in Ids, NEW g \in GroupRow,
           NEW approved \in Int, NEW spent \in Int
    PROVE  /\ Refresh(t, a, g, approved, spent).annual \in [Ids -> YearRow]
           /\ Refresh(t, a, g, approved, spent).group \in GroupRow
           /\ \E amount, leftover \in Int :
                 Refresh(t, a, g, approved, spent).annual =
                    WithFigures(t, a, Stored(amount, approved, spent, leftover))
  <1> DEFINE base == IF g.annual = NotSet THEN t[a].figures.amount ELSE g.annual
             leftover == (base - approved) + (approved - spent)
             amount == t[a].figures.amount
             new == WithFigures(t, a, Stored(amount, approved, spent, leftover))
  <1>1. amount \in Int /\ base \in Int
    BY DEF YearRow, Figures, GroupRow
  <1>2. leftover \in Int
    BY <1>1
  <1>3. Refresh(t, a, g, approved, spent) =
          [group |-> [annual |-> amount, leftover |-> leftover], annual |-> new]
    BY DEF Refresh, WithFigures
  <1> HIDE DEF base, leftover, amount
  <1>4. [annual |-> amount, leftover |-> leftover] \in GroupRow
    BY <1>1, <1>2 DEF GroupRow
  <1>5. new \in [Ids -> YearRow]
    BY <1>1, <1>2, StoredType, FiguresType
  <1>6. \E m, l \in Int : new = WithFigures(t, a, Stored(m, approved, spent, l))
    BY <1>1, <1>2
  <1> HIDE DEF new
  <1> QED BY <1>3, <1>4, <1>5, <1>6

\* The row a is written with the sums over the rows of t.
Writes(t, a, events, expenses) ==
    /\ t[a].state = "open"
    /\ \E amount, approved, leftover \in Int :
          annual' = WithFigures(t, a,
             Stored(amount, approved, SpentBudget(t, events, expenses), leftover))

\* The callback leaves the row it wrote to with the sums over the rows as the
\* request leaves them.
LEMMA CallbackWrites ==
    ASSUME IInv, annual \in [Ids -> YearRow], group \in GroupRow,
           NEW table \in [Ids -> YearRow], Extends(annual, table),
           Current(table) # {} \/ (table = annual /\ CanFindOrCreate(OpenRows)),
           NEW requests \in [Requests -> RequestRow], NEW events,
           NEW expenses \in [Expenses -> ExpenseRow], NEW twice \in BOOLEAN,
           UpdateAnnualBudget(table, requests, events, expenses, twice)
    PROVE  /\ annual' \in [Ids -> YearRow] /\ group' \in GroupRow
           /\ \E t \in [Ids -> YearRow], a \in Ids : Writes(t, a, events, expenses)
  <1> DEFINE rows == Current(table)
             row == FindOrCreateId(rows)
             created == IF rows # {} THEN table ELSE FindOrCreate(rows, FALSE)
             approved == ApprovedBudget(created, requests)
             spent == SpentBudget(created, events, expenses)
             once == Refresh(created, row, group, approved, spent)
             again == Refresh(once.annual, row, once.group, approved, spent)
  <1>1. created \in [Ids -> YearRow] /\ row \in Ids /\ created[row].state = "open"
    <2>1. CASE rows # {}
      <3>1. row \in rows
        BY <2>1, MinId DEF FindOrCreateId, Current
      <3> QED BY <2>1, <3>1 DEF Current
    <2>2. CASE rows = {}
      <3>1. table = annual /\ rows = OpenRows /\ CanFindOrCreate(rows)
        BY <2>2 DEF Current, OpenRows, InState
      <3>2. created = FindOrCreate(rows, FALSE)
        BY <2>2
      <3> HIDE DEF rows, created
      <3>3. row \in Ids /\ created[row].state = "open"
        BY <3>1, <3>2, FindOrCreateKeeps DEF IInv, row
      <3> QED BY <3>2, <3>3, FindOrCreateType DEF row
    <2> QED BY <2>1, <2>2
  <1>2. approved \in Int /\ spent \in Int
    BY ApprovedType, SpentBudgetType
  <1>3. annual' = (IF twice THEN again ELSE once).annual
        /\ group' = (IF twice THEN again ELSE once).group
    BY DEF UpdateAnnualBudget
  <1>4. spent = SpentBudget(created, events, expenses)
    OBVIOUS
  <1> HIDE DEF rows, row, created, approved, spent
  <1>5. /\ once.annual \in [Ids -> YearRow] /\ once.group \in GroupRow
        /\ \E amount, leftover \in Int :
              once.annual = WithFigures(created, row, Stored(amount, approved, spent, leftover))
    BY <1>1, <1>2, RefreshType DEF once
  <1> HIDE DEF once
  <1>6. /\ again.annual \in [Ids -> YearRow] /\ again.group \in GroupRow
        /\ \E amount, leftover \in Int :
              again.annual = WithFigures(once.annual, row,
                                         Stored(amount, approved, spent, leftover))
    BY <1>1, <1>2, <1>5, RefreshType DEF again
  <1> HIDE DEF again
  <1>7. \E amount, leftover \in Int :
           annual' = WithFigures(created, row, Stored(amount, approved, spent, leftover))
    BY <1>1, <1>3, <1>5, <1>6, FiguresTwice
  <1>8. annual' \in [Ids -> YearRow] /\ group' \in GroupRow
    BY <1>3, <1>5, <1>6
  <1>9. Writes(created, row, events, expenses)
    BY <1>1, <1>2, <1>4, <1>7 DEF Writes
  <1> QED BY <1>1, <1>8, <1>9

\* What the types of the columns leave out: a request that was made and a
\* snapshot that is due belong to an annual budget, and an expense to an event.
Linked ==
    /\ \A x \in Expenses :
          expense[x].state = "live" => event[expense[x].event].state # "absent"
    /\ admin.step = "snapshot" => admin.seen.annual \in Int

\* A row that is not there has no figures.
Unused == \A a \in Ids : annual[a].state = "absent" => annual[a].figures = NoFigures

TInv == IInv /\ TypeOK /\ Linked /\ Unused

LEMMA CreateRequestTypes ==
    ASSUME TInv, NEW r \in Requests, CreateRequest(r)
    PROVE  TypeOK' /\ Linked'
  <1>1. PICK year \in Ids, total \in Int :
          request' = [request EXCEPT ![r] =
                        [status |-> "pending", year |-> year, total |-> total]]
    BY EnterpriseKeeps, AmountAssumption DEF CreateRequest, TInv
  <1>2. annual' \in [Ids -> YearRow]
    BY EnterpriseType DEF CreateRequest, TInv, TypeOK
  <1>3. request' \in [Requests -> RequestRow]
    BY <1>1 DEF TInv, TypeOK, RequestRow
  <1>4. UNCHANGED <<group, event, expense, admin>>
    BY DEF CreateRequest
  <1>5. TypeOK'
    BY <1>2, <1>3, <1>4 DEF TInv, TypeOK
  <1>6. Linked'
    BY <1>1, <1>4 DEF TInv, Linked, TypeOK
  <1> QED BY <1>5, <1>6

LEMMA DeclineRequestTypes ==
    ASSUME TInv, NEW r \in Requests, DeclineRequest(r)
    PROVE  TypeOK' /\ Linked'
  <1>1. request' = [request EXCEPT ![r].status = "declined"]
        /\ request[r].status # "absent"
    BY DEF DeclineRequest, RequestExists
  <1>2. UNCHANGED <<annual, group, event, expense, admin>>
    BY DEF DeclineRequest
  <1>3. request' \in [Requests -> RequestRow]
    BY <1>1 DEF TInv, TypeOK, RequestRow
  <1>4. TypeOK'
    BY <1>2, <1>3 DEF TInv, TypeOK
  <1>5. Linked'
    BY <1>1, <1>2 DEF TInv, Linked, TypeOK, RequestRow
  <1> QED BY <1>4, <1>5

LEMMA DestroyRequestTypes ==
    ASSUME TInv, NEW r \in Requests, DestroyRequest(r)
    PROVE  TypeOK' /\ Linked'
  <1>1. request' = [request EXCEPT ![r].status = "deleted"]
        /\ request[r].status # "absent"
    BY DEF DestroyRequest, RequestExists
  <1>2. UNCHANGED <<event, expense, admin>>
    BY DEF DestroyRequest
  <1>3. request' \in [Requests -> RequestRow]
    BY <1>1 DEF TInv, TypeOK, RequestRow
  <1>4. annual' \in [Ids -> YearRow] /\ group' \in GroupRow
    BY <1>3, CallbackWrites, ExtendsItself DEF TInv, TypeOK, DestroyRequest
  <1>5. TypeOK'
    BY <1>2, <1>3, <1>4 DEF TInv, TypeOK
  <1>6. Linked'
    BY <1>1, <1>2 DEF TInv, Linked, TypeOK, RequestRow
  <1> QED BY <1>5, <1>6

LEMMA CreateEventTypes ==
    ASSUME TInv, NEW e \in Events, CreateEvent(e)
    PROVE  TypeOK' /\ Linked'
  <1>1. PICK year \in Ids :
          event' = [event EXCEPT ![e] = [state |-> "live", year |-> year, finished |-> FALSE]]
    BY EnterpriseKeeps DEF CreateEvent, TInv
  <1>2. annual' \in [Ids -> YearRow]
    BY EnterpriseType DEF CreateEvent, TInv, TypeOK
  <1>3. event' \in [Events -> EventRow]
    BY <1>1 DEF TInv, TypeOK, EventRow
  <1>4. UNCHANGED <<group, request, expense, admin>>
    BY DEF CreateEvent
  <1>5. TypeOK'
    BY <1>2, <1>3, <1>4 DEF TInv, TypeOK
  <1>6. Linked'
    BY <1>1, <1>4 DEF TInv, Linked, TypeOK, ExpenseRow
  <1> QED BY <1>5, <1>6

\* An event that is live keeps an annual budget.
LEMMA LiveEvent ==
    ASSUME TypeOK, NEW e \in Events, event[e].state = "live"
    PROVE  event[e] \in [state : {"live", "deleted"}, year : Ids, finished : BOOLEAN]
  BY DEF TypeOK, EventRow

LEMMA ReassignEventTypes ==
    ASSUME TInv, NEW e \in Events, NEW r \in Requests, ReassignEvent(e, r)
    PROVE  TypeOK' /\ Linked'
  <1>1. /\ event' = [event EXCEPT ![e].year = request[r].year]
        /\ request[r].year \in Ids /\ event[e].state = "live"
        /\ UNCHANGED <<annual, group, request, expense, admin>>
    BY DEF ReassignEvent, TInv, TypeOK, RequestRow
  <1>2. event' \in [Events -> EventRow]
    BY <1>1, LiveEvent DEF TInv, TypeOK, EventRow
  <1>3. TypeOK'
    BY <1>1, <1>2 DEF TInv, TypeOK
  <1>4. \A f \in Events : event'[f].state = event[f].state
    BY <1>1 DEF TInv, TypeOK, EventRow
  <1>5. Linked'
    BY <1>1, <1>4 DEF TInv, Linked, TypeOK, ExpenseRow
  <1> QED BY <1>3, <1>5

LEMMA DrawLeftoverTypes ==
    ASSUME TInv, NEW e \in Events, DrawLeftover(e)
    PROVE  TypeOK' /\ Linked'
  <1>1. PICK ask \in Int : group' = [group EXCEPT !.leftover = @ - ask]
    BY AmountAssumption DEF DrawLeftover
  <1>2. UNCHANGED <<annual, request, event, expense, admin>>
    BY DEF DrawLeftover
  <1>3. group' \in GroupRow
    BY <1>1 DEF TInv, TypeOK, GroupRow
  <1>4. TypeOK'
    BY <1>2, <1>3 DEF TInv, TypeOK
  <1>5. Linked'
    BY <1>2 DEF TInv, Linked
  <1> QED BY <1>4, <1>5

LEMMA FinishExpensesTypes ==
    ASSUME TInv, NEW e \in Events, FinishExpenses(e)
    PROVE  TypeOK' /\ Linked'
  <1>1. PICK saved \in BOOLEAN : event' = [event EXCEPT ![e].finished = saved]
    BY DEF FinishExpenses
  <1>2. UNCHANGED <<annual, request, expense, admin>> /\ event[e].state = "live"
    BY DEF FinishExpenses
  <1>3. event' \in [Events -> EventRow]
    BY <1>1, <1>2, LiveEvent DEF TInv, TypeOK, EventRow
  <1>4. group' \in GroupRow
    <2>1. PICK approved \in Int, spent \in Int :
            group' = [group EXCEPT !.leftover =
                        (group.annual - approved) + (approved - spent)]
      BY ApprovedType, SpentBudgetType DEF FinishExpenses, TInv, TypeOK
    <2>2. group.annual \in Int
      BY DEF FinishExpenses, TInv, TypeOK, GroupRow
    <2> QED BY <2>1, <2>2 DEF TInv, TypeOK, GroupRow
  <1>5. TypeOK'
    BY <1>2, <1>3, <1>4 DEF TInv, TypeOK
  <1>6. \A f \in Events : event'[f].state = event[f].state
    BY <1>1 DEF TInv, TypeOK, EventRow
  <1>7. Linked'
    BY <1>2, <1>6 DEF TInv, Linked, TypeOK, ExpenseRow
  <1> QED BY <1>5, <1>7

LEMMA DestroyEventTypes ==
    ASSUME TInv, NEW e \in Events, DestroyEvent(e)
    PROVE  TypeOK' /\ Linked'
  <1>1. /\ event' = [event EXCEPT ![e].state = "deleted"]
        /\ event[e].state = "live"
        /\ UNCHANGED <<request, admin>>
    BY DEF DestroyEvent
  <1>2. event' \in [Events -> EventRow]
    BY <1>1, LiveEvent DEF TInv, TypeOK, EventRow
  <1>3. expense' = [x \in Expenses |->
          IF x \in LiveExpensesOf(e) THEN [expense[x] EXCEPT !.state = "deleted"]
          ELSE expense[x]]
    BY DEF DestroyEvent
  <1>4. expense' \in [Expenses -> ExpenseRow]
    BY <1>3 DEF TInv, TypeOK, ExpenseRow
  <1>5. annual' \in [Ids -> YearRow] /\ group' \in GroupRow
    <2>1. PICK twice \in BOOLEAN : twice = (LiveExpensesOf(e) # {})
      OBVIOUS
    <2>2. UpdateAnnualBudget(annual, request, event', expense', twice)
      BY <2>1 DEF DestroyEvent
    <2> QED BY <1>4, <2>2, CallbackWrites, ExtendsItself DEF TInv, TypeOK, DestroyEvent
  <1>6. TypeOK'
    BY <1>1, <1>2, <1>4, <1>5 DEF TInv, TypeOK
  <1>7. \A x \in Expenses : /\ expense'[x].event = expense[x].event
                            /\ expense'[x].state = "live" => expense[x].state = "live"
    BY <1>3 DEF TInv, TypeOK, ExpenseRow
  <1>8. \A f \in Events : event[f].state # "absent" => event'[f].state # "absent"
    BY <1>1 DEF TInv, TypeOK, EventRow
  <1>9. Linked'
    BY <1>1, <1>7, <1>8 DEF TInv, Linked, TypeOK, ExpenseRow
  <1> QED BY <1>6, <1>9

LEMMA AddExpenseTypes ==
    ASSUME TInv, NEW x \in Expenses, AddExpense(x)
    PROVE  TypeOK' /\ Linked'
  <1>1. PICK cost \in Int, year \in Ids :
          expense' = [expense EXCEPT ![x].state = "live", ![x].amount = cost,
                                     ![x].year = year]
    <2>1. PICK cost \in Costs :
            expense' = [expense EXCEPT ![x].state = "live", ![x].amount = cost,
                                       ![x].year = FindOrCreateId(EnterpriseRows)]
      BY DEF AddExpense
    <2>2. PICK year \in Ids : year = FindOrCreateId(EnterpriseRows)
      BY EnterpriseKeeps DEF AddExpense, TInv
    <2>3. cost \in Int
      BY AmountAssumption
    <2> QED BY <2>1, <2>2, <2>3
  <1>2. expense' \in [Expenses -> ExpenseRow]
    <2>1. expense \in [Expenses -> ExpenseRow]
      BY DEF TInv, TypeOK
    <2>2. ASSUME NEW row \in ExpenseRow
          PROVE  [row EXCEPT !.state = "live", !.amount = cost, !.year = year] \in ExpenseRow
      BY DEF ExpenseRow
    <2>3. expense' = [expense EXCEPT ![x] =
             [expense[x] EXCEPT !.state = "live", !.amount = cost, !.year = year]]
      BY <1>1, <2>1
    <2> QED BY <2>1, <2>2, <2>3
  <1>3. PICK table : table = FindOrCreate(EnterpriseRows, TRUE)
    OBVIOUS
  <1>4. /\ table \in [Ids -> YearRow] /\ Extends(annual, table) /\ Current(table) # {}
        /\ UpdateAnnualBudget(table, request, event, expense', TRUE)
    BY <1>3, EnterpriseKeeps, EnterpriseType DEF AddExpense, TInv, TypeOK, Current
  <1>5. annual' \in [Ids -> YearRow] /\ group' \in GroupRow
    BY <1>2, <1>4, CallbackWrites DEF TInv, TypeOK
  <1>6. UNCHANGED <<request, event, admin>> /\ event[expense[x].event].state = "live"
    BY DEF AddExpense
  <1>7. TypeOK'
    BY <1>2, <1>5, <1>6 DEF TInv, TypeOK
  <1>8. \A y \in Expenses : /\ expense'[y].event = expense[y].event
                            /\ y # x => expense'[y].state = expense[y].state
    BY <1>1 DEF TInv, TypeOK, ExpenseRow
  <1>9. Linked'
    BY <1>6, <1>8 DEF TInv, Linked
  <1> QED BY <1>7, <1>9

LEMMA UpdateExpenseTypes ==
    ASSUME TInv, NEW x \in Expenses, UpdateExpense(x)
    PROVE  TypeOK' /\ Linked'
  <1>1. PICK cost \in Int : expense' = [expense EXCEPT ![x].amount = cost]
    BY AmountAssumption DEF UpdateExpense
  <1>2. expense' \in [Expenses -> ExpenseRow]
    BY <1>1 DEF TInv, TypeOK, ExpenseRow
  <1>3. UpdateAnnualBudget(annual, request, event, expense', FALSE)
        /\ CanFindOrCreate(OpenRows) /\ UNCHANGED <<request, event, admin>>
    BY DEF UpdateExpense
  <1>4. annual' \in [Ids -> YearRow] /\ group' \in GroupRow
    BY <1>2, <1>3, CallbackWrites, ExtendsItself DEF TInv, TypeOK
  <1>5. TypeOK'
    BY <1>2, <1>3, <1>4 DEF TInv, TypeOK
  <1>6. \A y \in Expenses : /\ expense'[y].event = expense[y].event
                            /\ expense'[y].state = expense[y].state
    BY <1>1 DEF TInv, TypeOK, ExpenseRow
  <1>7. Linked'
    BY <1>3, <1>6 DEF TInv, Linked
  <1> QED BY <1>5, <1>7

LEMMA DestroyExpenseTypes ==
    ASSUME TInv, NEW x \in Expenses, DestroyExpense(x)
    PROVE  TypeOK' /\ Linked'
  <1>1. expense' = [expense EXCEPT ![x].state = "deleted"]
    BY DEF DestroyExpense
  <1>2. expense' \in [Expenses -> ExpenseRow]
    BY <1>1 DEF TInv, TypeOK, ExpenseRow
  <1>3. UpdateAnnualBudget(annual, request, event, expense', FALSE)
        /\ CanFindOrCreate(OpenRows) /\ UNCHANGED <<request, event, admin>>
    BY DEF DestroyExpense
  <1>4. annual' \in [Ids -> YearRow] /\ group' \in GroupRow
    BY <1>2, <1>3, CallbackWrites, ExtendsItself DEF TInv, TypeOK
  <1>5. TypeOK'
    BY <1>2, <1>3, <1>4 DEF TInv, TypeOK
  <1>6. \A y \in Expenses : /\ expense'[y].event = expense[y].event
                            /\ expense'[y].state = "live" => expense[y].state = "live"
    BY <1>1 DEF TInv, TypeOK, ExpenseRow
  <1>7. Linked'
    BY <1>3, <1>6 DEF TInv, Linked
  <1> QED BY <1>5, <1>7

LEMMA NoFiguresType == NoFigures \in Figures
  BY DEF NoFigures, Figures

LEMMA IdleType == Idle \in Operation
  BY NoFiguresType DEF Idle, Operation, GroupRow, Steps

\* An operation that begins.
LEMMA BeginType ==
    ASSUME NEW name \in {"edit", "approve", "reset", "carry_over"}, NEW step \in Steps,
           NEW row \in Ids \cup {0}, NEW seen \in GroupRow, NEW money \in Int,
           Begin(name, step, row, seen, money)
    PROVE  admin' \in Operation /\ admin'.step = step /\ admin'.seen = seen
  BY NoFiguresType DEF Begin, Operation

\* A step of an operation, which writes to the group or to a row.
LEMMA OperationTypes ==
    ASSUME TInv, UNCHANGED <<request, event, expense>>, annual' \in [Ids -> YearRow],
           group' \in GroupRow, admin' \in Operation,
           admin'.step = "snapshot" => admin'.seen.annual \in Int
    PROVE  TypeOK' /\ Linked'
  <1>1. TypeOK'
    BY DEF TInv, TypeOK
  <1>2. Linked'
    BY DEF TInv, Linked
  <1> QED BY <1>1, <1>2

LEMMA EditTypes ==
    ASSUME TInv, Edit
    PROVE  TypeOK' /\ Linked'
  <1>1. PICK amount \in Int, approved \in Int, spent \in Int :
          group' = [annual |-> amount, leftover |-> (amount - approved) + (approved - spent)]
    BY AmountAssumption, ApprovedType, SpentBudgetType DEF Edit, TInv, TypeOK
  <1>3. group' \in GroupRow /\ group'.annual \in Int
    BY <1>1 DEF GroupRow
  <1>2. PICK g : g = group'
    OBVIOUS
  <1>4. admin' \in Operation /\ admin'.step = "snapshot" /\ admin'.seen = g
    <2>1. Begin("edit", "snapshot", 0, g, 0)
      BY <1>2 DEF Edit
    <2> QED BY <1>2, <1>3, <2>1, BeginType DEF Steps
  <1>5. annual' \in [Ids -> YearRow] /\ UNCHANGED <<request, event, expense>>
    BY DEF Edit, TInv, TypeOK
  <1> QED BY <1>2, <1>3, <1>4, <1>5, OperationTypes

\* A group with an annual budget that is set.
LEMMA BudgetIsSet ==
    ASSUME group \in GroupRow, group.annual \notin {NotSet, 0}
    PROVE  group.annual \in Int
  BY DEF GroupRow

LEMMA ApproveRequestTypes ==
    ASSUME TInv, NEW r \in Requests, ApproveRequest(r)
    PROVE  TypeOK' /\ Linked'
  <1>1. /\ group.annual \notin {NotSet, 0}
        /\ UNCHANGED <<annual, group, event, expense>>
    BY DEF ApproveRequest
  <1>2. PICK year \in Ids \cup {0} :
          request' = [request EXCEPT ![r].status = "approved", ![r].year = year]
    <2>1. PICK page \in Pages :
            request' = [request EXCEPT ![r].status = "approved",
                                       ![r].year = IF page = "list" THEN @ ELSE 0]
      BY DEF ApproveRequest
    <2>2. PICK row \in RequestRow : row = request[r]
      BY DEF TInv, TypeOK
    <2>3. row.year \in Ids \cup {0}
      BY DEF RequestRow
    <2> QED BY <2>1, <2>2, <2>3
  <1>3. admin' \in Operation /\ admin'.seen = group
    <2>1. Begin("approve", "snapshot", 0, group, 0) /\ group \in GroupRow
      BY DEF ApproveRequest, TInv, TypeOK
    <2> QED BY <2>1, BeginType DEF Steps
  <1>4. request' \in [Requests -> RequestRow]
    BY <1>2 DEF TInv, TypeOK, RequestRow
  <1>5. TypeOK'
    BY <1>1, <1>3, <1>4 DEF TInv, TypeOK
  <1>6. admin'.seen.annual \in Int
    BY <1>1, <1>3, BudgetIsSet DEF TInv, TypeOK
  <1>8. Linked'
    BY <1>1, <1>6 DEF TInv, Linked
  <1> QED BY <1>5, <1>8

LEMMA BeginResetTypes ==
    ASSUME TInv, BeginReset
    PROVE  TypeOK' /\ Linked'
  <1>1. admin' \in Operation /\ admin'.seen = group
    <2>1. Begin("reset", "snapshot", 0, group, 0) /\ group \in GroupRow
      BY DEF BeginReset, TInv, TypeOK
    <2> QED BY <2>1, BeginType DEF Steps
  <1>3. group.annual \in Int
    BY BudgetIsSet DEF BeginReset, TInv, TypeOK
  <1>4. /\ UNCHANGED <<request, event, expense>>
        /\ annual' \in [Ids -> YearRow] /\ group' \in GroupRow
    BY DEF BeginReset, TInv, TypeOK
  <1> QED BY <1>1, <1>3, <1>4, OperationTypes

LEMMA BeginCarryOverTypes ==
    ASSUME TInv, BeginCarryOver
    PROVE  TypeOK' /\ Linked'
  <1> DEFINE rows == {a \in EnterpriseRows : annual[a].figures.leftover # 0}
             row == Max(rows)
  <1>1. row \in Ids
    <2>1. rows # {} /\ rows \subseteq Ids
      BY DEF BeginCarryOver, EnterpriseRows, OpenRows, InState
    <2> HIDE DEF rows
    <2> QED BY <2>1, MaxId
  <1>2. Begin("carry_over", "close", row, group, annual[row].figures.leftover)
    BY DEF BeginCarryOver
  <1> HIDE DEF row
  <1>3. annual[row].figures.leftover \in Int
    BY <1>1 DEF TInv, TypeOK, YearRow, Figures
  <1>4. admin' \in Operation /\ admin'.step = "close"
    BY <1>1, <1>2, <1>3, BeginType DEF TInv, TypeOK, Steps
  <1>5. /\ UNCHANGED <<request, event, expense>>
        /\ annual' \in [Ids -> YearRow] /\ group' \in GroupRow
    BY DEF BeginCarryOver, TInv, TypeOK
  <1> QED BY <1>4, <1>5, OperationTypes

\* What an operation holds in memory.
LEMMA HeldType ==
    ASSUME TInv
    PROVE  /\ admin = [name |-> admin.name, step |-> admin.step, row |-> admin.row,
                       seen |-> admin.seen, money |-> admin.money,
                       loaded |-> admin.loaded]
           /\ admin \in Operation
           /\ admin.seen \in GroupRow /\ admin.seen.leftover \in Int /\ admin.money \in Int
  BY DEF TInv, TypeOK, Operation, GroupRow

LEMMA MoveOnType ==
    ASSUME TInv, NEW step \in Steps, NEW row \in Ids \cup {0}
    PROVE  /\ [admin EXCEPT !.row = row, !.step = step] \in Operation
           /\ \A loaded \in Figures :
                 LET new == [admin EXCEPT !.row = row, !.step = step, !.loaded = loaded]
                 IN  new \in Operation /\ new.step = step
  BY HeldType DEF Operation

LEMMA NextStepType ==
    ASSUME TInv, NEW step \in Steps
    PROVE  [admin EXCEPT !.step = step] \in Operation
  BY HeldType DEF Operation

LEMMA SnapshotTypes ==
    ASSUME TInv, Snapshot
    PROVE  TypeOK' /\ Linked'
  <1> DEFINE table == FindOrCreate(EnterpriseRows, TRUE)
             row == FindOrCreateId(EnterpriseRows)
             figures == Stored(admin.seen.annual, ApprovedBudget(table, request),
                               SpentBudget(table, event, expense), admin.seen.leftover)
             rows == {a \in Ids : /\ annual'[a].state = "open" /\ annual'[a].enterprise
                                  /\ annual'[a].figures.amount # 0}
             id == IF rows = {} THEN 0 ELSE Max(rows)
  <1>1. table \in [Ids -> YearRow] /\ row \in Ids
    BY EnterpriseType, EnterpriseKeeps DEF Snapshot, TInv, TypeOK
  <1>2. annual' = WithFigures(table, row, figures)
    BY DEF Snapshot, WithFigures
  <1>3. figures \in Figures
    <2>1. admin.seen.annual \in Int /\ admin.seen.leftover \in Int
      BY HeldType DEF Snapshot, TInv, Linked
    <2>2. ApprovedBudget(table, request) \in Int /\ SpentBudget(table, event, expense) \in Int
      BY ApprovedType, SpentBudgetType DEF TInv, TypeOK
    <2> HIDE DEF table
    <2> QED BY <2>1, <2>2, StoredType
  <1>4. annual' \in [Ids -> YearRow]
    <2> HIDE DEF table, row, figures
    <2> QED BY <1>1, <1>2, <1>3, FiguresType
  <1>5. id \in Ids \cup {0}
    <2>1. rows \subseteq Ids
      OBVIOUS
    <2> HIDE DEF rows
    <2> QED BY <2>1, MaxId
  <1>6. PICK step \in {"clear", "close"}, loaded \in Figures :
          admin' = IF admin.name # "reset" THEN Idle
                   ELSE [admin EXCEPT !.row = id, !.step = step, !.loaded = loaded]
    <2> DEFINE eventless == \A e \in Events : event[e].state # "live"
    <2>1. admin' = IF admin.name # "reset" THEN Idle
               ELSE [admin EXCEPT !.row = id,
                       !.step = IF eventless THEN "clear" ELSE "close",
                       !.loaded = IF rows # {} /\ eventless
                                  THEN annual'[Max(rows)].figures ELSE @]
      BY DEF Snapshot
    <2>2. rows # {} => Max(rows) \in Ids
      <3>1. rows \subseteq Ids
        OBVIOUS
      <3> HIDE DEF rows
      <3> QED BY <3>1, MaxId
    <2>3. (IF rows # {} /\ eventless THEN annual'[Max(rows)].figures ELSE admin.loaded)
            \in Figures
      BY <1>4, <2>2, HeldType DEF YearRow, Operation
    <2> HIDE DEF rows, id, eventless
    <2>4. (IF eventless THEN "clear" ELSE "close") \in {"clear", "close"}
      OBVIOUS
    <2> QED BY <2>1, <2>3, <2>4
  <1> HIDE DEF id
  <1>7. admin' \in Operation /\ admin'.step # "snapshot"
    <2> DEFINE new == [admin EXCEPT !.row = id, !.step = step, !.loaded = loaded]
    <2>1. step \in Steps /\ step # "snapshot"
      BY DEF Steps
    <2>2. new \in Operation /\ new.step = step
      BY <1>5, <1>6, <2>1, MoveOnType
    <2>3. admin' = Idle \/ admin' = new
      BY <1>6
    <2> HIDE DEF new
    <2>4. Idle \in Operation /\ Idle.step # "snapshot"
      BY IdleType, IdleShape
    <2> QED BY <2>1, <2>2, <2>3, <2>4
  <1>8. group' \in GroupRow /\ UNCHANGED <<request, event, expense>>
    BY DEF Snapshot, TInv, TypeOK
  <1> QED BY <1>4, <1>7, <1>8, OperationTypes

LEMMA CloseTypes ==
    ASSUME TInv, Close
    PROVE  TypeOK' /\ Linked'
  <1>1. group' \in GroupRow /\ UNCHANGED <<request, event, expense>>
    BY DEF Close, TInv, TypeOK
  <1>2. annual' \in [Ids -> YearRow]
    BY HeldType DEF Close, TInv, TypeOK, YearRow
  <1>3. admin' \in {Idle, [admin EXCEPT !.step = "create"]}
    BY DEF Close
  <1>4. [admin EXCEPT !.step = "create"].step = "create"
    BY HeldType
  <1>5. admin' \in Operation /\ admin'.step # "snapshot"
    BY <1>3, <1>4, IdleType, IdleShape, NextStepType DEF Steps
  <1> QED BY <1>1, <1>2, <1>5, OperationTypes

LEMMA CreateNewTypes ==
    ASSUME TInv, CreateNew
    PROVE  TypeOK' /\ Linked'
  <1>1. group' \in GroupRow /\ UNCHANGED <<request, event, expense>>
    BY DEF CreateNew, TInv, TypeOK
  <1>2. annual' \in [Ids -> YearRow]
    BY EnterpriseType DEF CreateNew, TInv, TypeOK
  <1>3. PICK row \in Ids, step \in {"group", "amount"} :
          admin' = [admin EXCEPT !.row = row, !.step = step]
    BY EnterpriseKeeps DEF CreateNew, TInv
  <1>4. admin' \in Operation
    BY <1>3, MoveOnType DEF Steps
  <1>5. admin'.step # "snapshot"
    BY <1>3, HeldType
  <1> QED BY <1>1, <1>2, <1>4, <1>5, OperationTypes

LEMMA CarryAmountTypes ==
    ASSUME TInv, CarryAmount
    PROVE  TypeOK' /\ Linked'
  <1>1. group' \in GroupRow /\ UNCHANGED <<request, event, expense>>
    BY DEF CarryAmount, TInv, TypeOK
  <1>2. annual' \in [Ids -> YearRow]
    <2>1. admin.money \in Int
      BY HeldType
    <2>2. annual' = [annual EXCEPT ![admin.row].figures.amount = admin.money]
      BY DEF CarryAmount
    <2>3. ASSUME NEW f \in Figures PROVE [f EXCEPT !.amount = admin.money] \in Figures
      BY <2>1 DEF Figures
    <2>4. annual \in [Ids -> YearRow]
      BY DEF TInv, TypeOK
    <2> QED BY <2>2, <2>3, <2>4 DEF YearRow
  <1>3. admin' = [admin EXCEPT !.step = "group"]
    BY DEF CarryAmount
  <1>4. admin' \in Operation
    BY <1>3, NextStepType DEF Steps
  <1>5. admin'.step # "snapshot"
    BY <1>3, HeldType
  <1> QED BY <1>1, <1>2, <1>4, <1>5, OperationTypes

LEMMA WrittenType ==
    ASSUME TInv, NEW a \in Int, NEW leftover \in Int
    PROVE  Written([annual |-> a, leftover |-> leftover]) \in GroupRow
  BY DEF Written, TInv, TypeOK, GroupRow

\* A carry over writes the leftover to the group as its next annual budget.
LEMMA GroupTypes ==
    ASSUME TInv, SetGroup \/ Clear
    PROVE  TypeOK' /\ Linked'
  <1>1. annual' \in [Ids -> YearRow] /\ UNCHANGED <<request, event, expense>>
    BY DEF SetGroup, Clear, TInv, TypeOK
  <1>2. group' \in GroupRow
    <2>1. PICK a \in Int : group' = Written([annual |-> a, leftover |-> 0])
      BY HeldType DEF SetGroup, Clear
    <2> QED BY <2>1, WrittenType
  <1>3. admin' \in {Idle, [admin EXCEPT !.step = "clearRow"]}
    BY DEF SetGroup, Clear
  <1>4. [admin EXCEPT !.step = "clearRow"].step = "clearRow"
    BY HeldType
  <1>5. admin' \in Operation /\ admin'.step # "snapshot"
    BY <1>3, <1>4, IdleType, IdleShape, NextStepType DEF Steps
  <1> QED BY <1>1, <1>2, <1>5, OperationTypes

LEMMA ClearRowTypes ==
    ASSUME TInv, ClearRow
    PROVE  TypeOK' /\ Linked'
  <1>1. annual' \in [Ids -> YearRow]
    <2>1. ASSUME NEW f \in Figures PROVE Cleared(f) \in Figures
      BY DEF Cleared, Figures
    <2>2. annual' = [annual EXCEPT ![admin.row].figures = Cleared(@)]
      BY DEF ClearRow
    <2> QED BY <2>1, <2>2 DEF TInv, TypeOK, YearRow
  <1>2. /\ group' \in GroupRow /\ UNCHANGED <<request, event, expense>>
        /\ admin' = Idle
    BY DEF ClearRow, TInv, TypeOK
  <1> QED BY <1>1, <1>2, IdleType, IdleShape, OperationTypes

LEMMA StopTypes ==
    ASSUME TInv, Stop
    PROVE  TypeOK' /\ Linked'
  <1>1. /\ annual' \in [Ids -> YearRow] /\ group' \in GroupRow
        /\ UNCHANGED <<request, event, expense>> /\ admin' = Idle
    BY DEF Stop, TInv, TypeOK
  <1> QED BY <1>1, IdleType, IdleShape, OperationTypes

LEMMA NextTypes ==
    ASSUME TInv, [Next]_vars
    PROVE  TInv'
  <1>1. IInv' /\ \A a \in Ids : annual'[a].state = "absent" => annual'[a] = annual[a]
    BY NextKeeps DEF TInv
  <1>2. Unused'
    BY <1>1 DEF TInv, Unused
  <1>3. TypeOK' /\ Linked'
    <2>1. CASE \E r \in Requests : \/ CreateRequest(r) \/ DeclineRequest(r)
                                   \/ DestroyRequest(r) \/ ApproveRequest(r)
      BY <2>1, CreateRequestTypes, DeclineRequestTypes, DestroyRequestTypes,
         ApproveRequestTypes
    <2>2. CASE \E e \in Events : \/ CreateEvent(e) \/ DrawLeftover(e)
                                 \/ FinishExpenses(e) \/ DestroyEvent(e)
                                 \/ \E r \in Requests : ReassignEvent(e, r)
      BY <2>2, CreateEventTypes, DrawLeftoverTypes, FinishExpensesTypes,
         DestroyEventTypes, ReassignEventTypes
    <2>3. CASE \E x \in Expenses : AddExpense(x) \/ UpdateExpense(x) \/ DestroyExpense(x)
      BY <2>3, AddExpenseTypes, UpdateExpenseTypes, DestroyExpenseTypes
    <2>4. CASE Edit \/ BeginReset \/ BeginCarryOver \/ Snapshot \/ Close \/ CreateNew
      BY <2>4, EditTypes, BeginResetTypes, BeginCarryOverTypes, SnapshotTypes,
         CloseTypes, CreateNewTypes
    <2>5. CASE CarryAmount \/ SetGroup \/ Clear \/ ClearRow \/ Stop
      BY <2>5, CarryAmountTypes, GroupTypes, ClearRowTypes, StopTypes
    <2>6. CASE UNCHANGED vars
      BY <2>6 DEF vars, TInv, TypeOK, Linked
    <2> QED BY <2>1, <2>2, <2>3, <2>4, <2>5, <2>6 DEF Next
  <1> QED BY <1>1, <1>2, <1>3 DEF TInv

LEMMA InitTypes == Init => TInv
  <1> SUFFICES ASSUME Init PROVE TInv
    OBVIOUS
  <1>1. annual \in [Ids -> YearRow] /\ Unused
    BY DEF Init, YearRow, Figures, NoFigures, Unused
  <1>2. group \in GroupRow
    BY DEF Init, GroupRow
  <1>3. request \in [Requests -> RequestRow]
    BY DEF Init, RequestRow
  <1>4. event \in [Events -> EventRow]
    BY DEF Init, EventRow
  <1>5. expense \in [Expenses -> ExpenseRow]
    BY DEF Init, ExpenseRow
  <1>6. Linked
    BY IdleShape DEF Init, Linked
  <1>7. admin \in Operation
    BY IdleType DEF Init
  <1> QED BY <1>1, <1>2, <1>3, <1>4, <1>5, <1>6, <1>7, InitIInv DEF TInv, TypeOK

\* The columns hold what their types allow, the sums of a callback included.
THEOREM TypeCorrect == Spec => []TypeOK
  <1>1. TInv => TypeOK
    BY DEF TInv
  <1> QED BY <1>1, InitTypes, NextTypes, PTL DEF Spec

-----------------------------------------------------------------------------
(* The figures of the only open annual budget.                             *)

\* The only open row, written with the sums over the rows as they are, is right.
LEMMA WrittenIsRight ==
    ASSUME NEW t \in [Ids -> YearRow], NEW a \in Ids, Writes(t, a, event', expense'),
           expense' \in [Expenses -> ExpenseRow], NEW b \in Ids, OpenRows' = {b}
    PROVE  SameAsAvailable(b)'
  <1> DEFINE spent == SpentBudget(t, event', expense')
  <1>1. PICK amount \in Int, approved \in Int, leftover \in Int :
          annual' = WithFigures(t, a, Stored(amount, approved, spent, leftover))
    BY DEF Writes
  <1>2. /\ annual'[a].figures = Stored(amount, approved, spent, leftover)
        /\ \A c \in Ids : annual'[c].state = t[c].state
    <2> HIDE DEF spent
    <2> QED BY <1>1 DEF WithFigures, YearRow
  <1>3. Current(t) = {b}
    BY <1>2 DEF Current, OpenRows, InState
  <1>4. a = b
    BY <1>3 DEF Writes, Current
  <1>5. Min({b}) = b
    <2>1. Min({b}) \in {b}
      BY MinId
    <2> QED BY <2>1
  <1>6. spent = Spent(b, event', expense')
    BY <1>3, <1>5 DEF SpentBudget
  <1>7. PICK part \in (1 - Unit)..(Unit - 1) : part = approved - Whole(approved)
    BY WholeParts
  <1>8. Whole(approved) \in Int /\ Whole(approved) + part = approved
    BY <1>7, WholeParts
  <1>9. /\ annual'[b].figures.approved = Whole(approved)
        /\ annual'[b].figures.available = Whole(approved - Spent(b, event', expense'))
    BY <1>2, <1>4, <1>6 DEF Stored
  <1> QED BY <1>8, <1>9 DEF SameAsAvailable

LEMMA UntouchedIsRight ==
    ASSUME NEW b \in Ids, SameAsAvailable(b),
           annual'[b].figures.approved = annual[b].figures.approved,
           annual'[b].figures.available = annual[b].figures.available,
           Spent(b, event', expense') = Spent(b, event, expense)
    PROVE  SameAsAvailable(b)'
  BY DEF SameAsAvailable

\* What is spent depends on the expenses, and on the events that have some.
LEMMA SpentSame ==
    ASSUME UNCHANGED expense, ~MovesExpenses, NEW b,
           \A x \in Expenses : expense[x].state = "live" =>
              (event'[expense[x].event].state = "live"
                 <=> event[expense[x].event].state = "live")
    PROVE  Spent(b, event', expense') = Spent(b, event, expense)
  <1> DEFINE Counted(events) ==
        {x \in Expenses : /\ expense[x].state = "live"
                          /\ events[expense[x].event].state = "live"
                          /\ expense[x].year = b
                          /\ events[expense[x].event].year = b}
  <1>1. Counted(event') = Counted(event)
    BY DEF MovesExpenses
  <1> QED BY <1>1 DEF Spent

LEMMA CallbackIsRight ==
    ASSUME TInv, NEW table \in [Ids -> YearRow], Extends(annual, table),
           Current(table) # {} \/ (table = annual /\ CanFindOrCreate(OpenRows)),
           NEW requests \in [Requests -> RequestRow], NEW twice \in BOOLEAN,
           expense' \in [Expenses -> ExpenseRow],
           UpdateAnnualBudget(table, requests, event', expense', twice),
           NEW b \in Ids, OpenRows' = {b}
    PROVE  SameAsAvailable(b)'
  <1>1. PICK t \in [Ids -> YearRow], a \in Ids : Writes(t, a, event', expense')
    BY CallbackWrites DEF TInv, TypeOK
  <1> QED BY <1>1, WrittenIsRight

LEMMA NewRowIsEmpty ==
    ASSUME TInv, CanFindOrCreate(EnterpriseRows),
           annual' = FindOrCreate(EnterpriseRows, TRUE), NEW b \in Ids
    PROVE  annual'[b].figures = annual[b].figures
  <1>1. PICK rows : rows = EnterpriseRows
    OBVIOUS
  <1>2. CASE rows # {}
    BY <1>1, <1>2 DEF FindOrCreate
  <1>3. CASE rows = {}
    <2>1. PICK id \in Ids : id = FindOrCreateId(rows) /\ annual[id].state = "absent"
      BY <1>1, <1>3, MinId DEF FindOrCreateId, CanFindOrCreate, InState
    <2>2. PICK new : new = [state |-> "open", enterprise |-> TRUE, figures |-> NoFigures]
      OBVIOUS
    <2>3. new.figures = NoFigures
      BY <2>2
    <2>4. annual' = [annual EXCEPT ![id] = new]
      BY <1>1, <1>3, <2>1, <2>2 DEF FindOrCreate
    <2>5. annual[id].figures = NoFigures
      BY <2>1 DEF TInv, Unused
    <2>6. annual \in [Ids -> YearRow]
      BY DEF TInv, TypeOK
    <2>7. annual'[id] = new /\ (b # id => annual'[b] = annual[b])
      BY <2>4, <2>6
    <2> QED BY <2>3, <2>5, <2>7
  <1> QED BY <1>2, <1>3

\* The requests that run the callback.
LEMMA CallbackRequestIsRight ==
    ASSUME TInv, NEW b \in Ids, OpenRows' = {b},
           \/ \E r \in Requests : DestroyRequest(r)
           \/ \E e \in Events : DestroyEvent(e)
           \/ \E x \in Expenses : AddExpense(x) \/ UpdateExpense(x) \/ DestroyExpense(x)
    PROVE  SameAsAvailable(b)'
  <1>1. TInv'
    <2>1. Next
      BY DEF Next
    <2> QED BY <2>1, NextTypes
  <1>2. request' \in [Requests -> RequestRow] /\ expense' \in [Expenses -> ExpenseRow]
    BY <1>1 DEF TInv, TypeOK
  <1>3. annual \in [Ids -> YearRow] /\ Extends(annual, annual)
    BY ExtendsItself DEF TInv, TypeOK
  <1>4. ASSUME NEW r \in Requests, DestroyRequest(r)
        PROVE  SameAsAvailable(b)'
    <2>1. /\ UpdateAnnualBudget(annual, request', event', expense', FALSE)
          /\ CanFindOrCreate(OpenRows)
      BY <1>4 DEF DestroyRequest
    <2> QED BY <1>2, <1>3, <2>1, CallbackIsRight
  <1>5. ASSUME NEW e \in Events, DestroyEvent(e)
        PROVE  SameAsAvailable(b)'
    <2>1. PICK twice \in BOOLEAN : twice = (LiveExpensesOf(e) # {})
      OBVIOUS
    <2>2. /\ UpdateAnnualBudget(annual, request', event', expense', twice)
          /\ CanFindOrCreate(OpenRows)
      BY <1>5, <2>1 DEF DestroyEvent
    <2> QED BY <1>2, <1>3, <2>2, CallbackIsRight
  <1>6. ASSUME NEW x \in Expenses, AddExpense(x)
        PROVE  SameAsAvailable(b)'
    <2>1. PICK table : table = FindOrCreate(EnterpriseRows, TRUE)
      OBVIOUS
    <2>2. table \in [Ids -> YearRow] /\ Extends(annual, table) /\ Current(table) # {}
      BY <1>3, <1>6, <2>1, EnterpriseKeeps, EnterpriseType DEF AddExpense, TInv, Current
    <2>3. UpdateAnnualBudget(table, request', event', expense', TRUE)
      BY <1>6, <2>1 DEF AddExpense
    <2> QED BY <1>2, <2>2, <2>3, CallbackIsRight
  <1>7. ASSUME NEW x \in Expenses, UpdateExpense(x) \/ DestroyExpense(x)
        PROVE  SameAsAvailable(b)'
    <2>1. /\ UpdateAnnualBudget(annual, request', event', expense', FALSE)
          /\ CanFindOrCreate(OpenRows)
      BY <1>7 DEF UpdateExpense, DestroyExpense
    <2> QED BY <1>2, <1>3, <2>1, CallbackIsRight
  <1> QED BY <1>4, <1>5, <1>6, <1>7

LEMMA SnapshotIsRight ==
    ASSUME TInv, Snapshot, NEW b \in Ids, OpenRows' = {b}
    PROVE  SameAsAvailable(b)'
  <1>1. PICK table, row :
          /\ table = FindOrCreate(EnterpriseRows, TRUE)
          /\ row = FindOrCreateId(EnterpriseRows)
          /\ annual' = WithFigures(table, row,
               Stored(admin.seen.annual, ApprovedBudget(table, request),
                      SpentBudget(table, event, expense), admin.seen.leftover))
    BY DEF Snapshot, WithFigures
  <1>2. table \in [Ids -> YearRow] /\ row \in Ids /\ table[row].state = "open"
    BY <1>1, EnterpriseType, EnterpriseKeeps DEF Snapshot, TInv, TypeOK
  <1>3. /\ admin.seen.annual \in Int /\ admin.seen.leftover \in Int
        /\ ApprovedBudget(table, request) \in Int
    BY HeldType, ApprovedType DEF Snapshot, TInv, TypeOK, Linked
  <1>4. event' = event /\ expense' = expense /\ expense' \in [Expenses -> ExpenseRow]
    BY DEF Snapshot, TInv, TypeOK
  <1>5. Writes(table, row, event, expense)
    BY <1>1, <1>2, <1>3 DEF Writes
  <1>6. Writes(table, row, event', expense')
    BY <1>4, <1>5
  <1> QED BY <1>2, <1>4, <1>6, WrittenIsRight

\* The steps that write no sums.
LEMMA OtherStepIsRight ==
    ASSUME TInv, NEW b \in Ids, OpenRows' = {b}, OpenRows \subseteq {b},
           SameAsAvailable(b), ~MovesExpenses,
           \/ \E r \in Requests : CreateRequest(r) \/ DeclineRequest(r) \/ ApproveRequest(r)
           \/ \E e \in Events : \/ CreateEvent(e) \/ DrawLeftover(e) \/ FinishExpenses(e)
                                \/ \E r \in Requests : ReassignEvent(e, r)
           \/ Edit \/ BeginReset \/ BeginCarryOver \/ Close \/ CreateNew \/ CarryAmount
           \/ SetGroup \/ Clear \/ Stop \/ UNCHANGED vars
    PROVE  SameAsAvailable(b)'
  <1>1. CASE UNCHANGED <<event, expense>> /\ annual'[b].figures = annual[b].figures
    BY <1>1, UntouchedIsRight
  <1>2. CASE UNCHANGED <<annual, event, expense>>
    BY <1>1, <1>2
  <1>3. ASSUME NEW r \in Requests, CreateRequest(r)
        PROVE  SameAsAvailable(b)'
    BY <1>1, <1>3, NewRowIsEmpty DEF CreateRequest
  <1>4. ASSUME NEW e \in Events, CreateEvent(e)
        PROVE  SameAsAvailable(b)'
    <2>1. annual'[b].figures = annual[b].figures /\ UNCHANGED expense
      BY <1>4, NewRowIsEmpty DEF CreateEvent
    <2>2. /\ event[e].state = "absent"
          /\ \A f \in Events : f # e => event'[f] = event[f]
      BY <1>4 DEF CreateEvent, TInv, TypeOK
    <2>3. \A x \in Expenses : expense[x].state = "live" =>
             expense[x].event \in Events /\ expense[x].event # e
      BY <2>2 DEF TInv, TypeOK, Linked, ExpenseRow
    <2>4. Spent(b, event', expense') = Spent(b, event, expense)
      BY <2>1, <2>2, <2>3, SpentSame
    <2> QED BY <2>1, <2>4, UntouchedIsRight
  <1>5. ASSUME NEW e \in Events,
               FinishExpenses(e) \/ \E r \in Requests : ReassignEvent(e, r)
        PROVE  SameAsAvailable(b)'
    <2>1. UNCHANGED <<annual, expense>>
      BY <1>5 DEF FinishExpenses, ReassignEvent
    <2>2. \A f \in Events : event'[f].state = event[f].state
      <3>1. event \in [Events -> EventRow]
        BY DEF TInv, TypeOK
      <3>2. CASE FinishExpenses(e)
        <4>1. PICK saved : event' = [event EXCEPT ![e].finished = saved]
          BY <3>2 DEF FinishExpenses
        <4> QED BY <3>1, <4>1 DEF EventRow
      <3>3. CASE \E r \in Requests : ReassignEvent(e, r)
        <4>1. PICK year : event' = [event EXCEPT ![e].year = year]
          BY <3>3 DEF ReassignEvent
        <4> QED BY <3>1, <4>1 DEF EventRow
      <3> QED BY <1>5, <3>2, <3>3
    <2>3. \A x \in Expenses : expense[x].event \in Events
      BY DEF TInv, TypeOK, ExpenseRow
    <2>4. Spent(b, event', expense') = Spent(b, event, expense)
      BY <2>1, <2>2, <2>3, SpentSame
    <2> QED BY <2>1, <2>4, UntouchedIsRight
  <1>6. CASE Close
    <2>1. CASE admin.row = 0
      BY <1>2, <1>6, <2>1 DEF Close
    <2>2. CASE admin.row # 0
      <3>1. PICK id \in Ids : id = admin.row /\ annual[id].state = "open"
        BY <1>6, <2>2 DEF Close, TInv, IInv, RowIsOpen
      <3>2. id = b
        BY <3>1 DEF OpenRows, InState
      <3>3. annual'[id].state = "closed"
        BY <1>6, <2>2, <3>1 DEF Close, TInv, TypeOK, YearRow
      <3>4. annual'[b].state = "open"
        BY DEF OpenRows, InState
      <3> QED BY <3>2, <3>3, <3>4
    <2> QED BY <2>1, <2>2
  <1>7. CASE CreateNew
    BY <1>1, <1>7, NewRowIsEmpty DEF CreateNew
  <1>8. CASE CarryAmount
    <2>1. UNCHANGED <<event, expense>>
          /\ annual' = [annual EXCEPT ![admin.row].figures.amount = admin.money]
      BY <1>8 DEF CarryAmount
    <2>2. /\ annual'[b].figures.approved = annual[b].figures.approved
          /\ annual'[b].figures.available = annual[b].figures.available
      BY <2>1 DEF TInv, TypeOK, YearRow, Figures
    <2> QED BY <2>1, <2>2, UntouchedIsRight
  <1>9. CASE \/ \E r \in Requests : DeclineRequest(r) \/ ApproveRequest(r)
             \/ \E e \in Events : DrawLeftover(e)
             \/ Edit \/ BeginReset \/ BeginCarryOver \/ SetGroup \/ Clear \/ Stop
             \/ UNCHANGED vars
    BY <1>2, <1>9 DEF DeclineRequest, ApproveRequest, DrawLeftover, Edit, BeginReset,
       BeginCarryOver, SetGroup, Clear, Stop, vars
  <1> QED BY <1>3, <1>4, <1>5, <1>6, <1>7, <1>8, <1>9

\* As long as no event with expenses is moved and no reset clears a row, every
\* step leaves the figures of the only open annual budget right.
THEOREM FiguresStayRight == Spec => FiguresGoWrongByMoveOrClear
  <1> DEFINE Step == \A a \in Ids :
               OpenRows' = {a} /\ OpenRows \subseteq {a} /\ SameAsAvailable(a)
               /\ ~SameAsAvailable(a)' => MovesExpenses \/ ClearRow
  <1>1. TInv /\ [Next]_vars => Step
    <2> SUFFICES ASSUME TInv, [Next]_vars, NEW b \in Ids, OpenRows' = {b},
                        OpenRows \subseteq {b}, SameAsAvailable(b),
                        ~MovesExpenses, ~ClearRow
        PROVE  SameAsAvailable(b)'
      OBVIOUS
    <2> QED BY CallbackRequestIsRight, SnapshotIsRight, OtherStepIsRight DEF Next
  <1>2. TInv /\ [Next]_vars => [Step]_vars
    BY <1>1
  <1> QED BY <1>2, InitTypes, NextTypes, PTL DEF Spec, FiguresGoWrongByMoveOrClear
=============================================================================
