---------------------------- MODULE AnnualBudgets ----------------------------
(***************************************************************************)
(* The annual budgets of one group: app/services/annual_budget_manager.rb, *)
(* the update_annual_budget callbacks of budgets, initiatives and          *)
(* initiative_expenses, and the controllers that call them.                *)
(*                                                                         *)
(* An administrator's operation (AnnualBudgetManager) is a sequence of     *)
(* transactions that nothing encloses: it may stop between two of them,    *)
(* and the other requests, one transaction each, come in between.  There   *)
(* is one administrator at a time.  Amounts count the Unit'th parts of the *)
(* currency that a column without decimals cannot hold.                    *)
(***************************************************************************)
EXTENDS Integers, FiniteSetsExt

CONSTANTS
    MaxYears,     \* bound: rows of annual_budgets
    Requests,     \* budget requests
    Events,       \* initiatives
    Expenses,     \* their expenses
    Amounts,      \* annual budgets typed by the administrator
    Totals,       \* estimated amounts of a request
    Costs,        \* amounts of an expense
    Pages,        \* where the form that approves a request is opened from
    Draws,        \* what an event funded by the leftover takes from it
    Unit,         \* the whole amounts of annual_budgets are multiples of it
    NotSet        \* groups.annual_budget is NULL

ASSUME BoundAssumption == MaxYears \in Nat /\ Unit \in Nat \ {0}
ASSUME AmountAssumption ==
    Amounts \subseteq Int /\ Totals \subseteq Int /\ Costs \subseteq Int /\ Draws \subseteq Int
ASSUME PagesAssumption == Pages \subseteq {"list", "mail"}
ASSUME FiniteAssumption == IsFiniteSet(Requests) /\ IsFiniteSet(Expenses)

VARIABLES
    annual,       \* rows of annual_budgets
    group,        \* annual_budget and leftover_money of the group
    request,      \* budgets: status, annual_budget_id and estimated total
    event,        \* initiatives: annual_budget_id
    expense,      \* initiative_expenses: initiative, annual_budget_id, amount
    admin         \* the operation in flight and what it holds in memory

vars == <<annual, group, request, event, expense, admin>>

Ids == 1..MaxYears
Figures == [amount: Int, approved: Int, available: Int, leftover: Int,
            expenses: Int]
NoFigures == [amount |-> 0, approved |-> 0, available |-> 0, leftover |-> 0,
              expenses |-> 0]

\* enterprise: whether the row was found or created through the enterprise.
YearRow    == [state: {"absent", "open", "closed"}, enterprise: BOOLEAN,
               figures: Figures]
GroupRow   == [annual: Int \cup {NotSet}, leftover: Int]
RequestRow == [status: {"absent", "pending", "approved", "declined", "deleted"},
               year: Ids \cup {0}, total: Int]
EventRow   == [state: {"absent"}, year: {0}, finished: {FALSE}]
                \cup [state: {"live", "deleted"}, year: Ids, finished: BOOLEAN]
ExpenseRow == [state: {"absent", "live", "deleted"}, event: Events,
               year: Ids \cup {0}, amount: Int]
Steps == {"idle", "snapshot", "close", "create", "amount", "group", "clear",
          "clearRow"}
Operation == [name: {"none", "edit", "approve", "reset", "carry_over"},
              step: Steps, row: Ids \cup {0}, seen: GroupRow, money: Int,
              loaded: Figures]

Idle == [name |-> "none", step |-> "idle", row |-> 0,
         seen |-> [annual |-> NotSet, leftover |-> 0], money |-> 0,
         loaded |-> NoFigures]

TypeOK ==
    /\ annual \in [Ids -> YearRow]
    /\ group \in GroupRow
    /\ request \in [Requests -> RequestRow]
    /\ event \in [Events -> EventRow]
    /\ expense \in [Expenses -> ExpenseRow]
    /\ admin \in Operation

Init ==
    /\ annual = [a \in Ids |-> [state |-> "absent", enterprise |-> FALSE,
                                figures |-> NoFigures]]
    /\ group = [annual |-> NotSet, leftover |-> 0]
    /\ request = [r \in Requests |-> [status |-> "absent", year |-> 0, total |-> 0]]
    /\ event = [e \in Events |-> [state |-> "absent", year |-> 0, finished |-> FALSE]]
    /\ expense \in [Expenses -> {[state |-> "absent", event |-> e, year |-> 0,
                                  amount |-> 0] : e \in Events}]
    /\ admin = Idle

-----------------------------------------------------------------------------
(* Finding the open annual budget, and the sums Group computes.            *)

InState(s) == {a \in Ids : annual[a].state = s}

\* find_or_create_by(closed: false, group_id), and with enterprise_id.  MySQL
\* reads the group's index, so the first row is the one of the lowest id.
OpenRows == InState("open")
\* Mutants of EnterpriseRows: closed rows are found too; only rows with money.
EnterpriseRowsAnyState == {a \in Ids : annual[a].state # "absent" /\ annual[a].enterprise}
EnterpriseRowsWithMoney == {a \in OpenRows : annual[a].enterprise /\ annual[a].figures.amount # 0}
EnterpriseRows == {a \in OpenRows : annual[a].enterprise}

FindOrCreateId(rows) == IF rows # {} THEN Min(rows) ELSE Min(InState("absent"))
CanFindOrCreate(rows) == rows # {} \/ InState("absent") # {}
FindOrCreate(rows, enterprise) ==
    IF rows # {} THEN annual
    ELSE [annual EXCEPT ![FindOrCreateId(rows)] =
            [state |-> "open", enterprise |-> enterprise, figures |-> NoFigures]]

\* annual_budgets.find_by(closed: false), in the state of the table given.
Current(table) == {a \in Ids : table[a].state = "open"}

\* Group#approved_budget and Group#spent_budget.
ApprovedBudget(table, requests) ==
    IF Current(table) = {} THEN 0
    ELSE SumFunctionOnSet([r \in Requests |-> requests[r].total],
           {r \in Requests : /\ requests[r].status = "approved"
                             /\ requests[r].year = Min(Current(table))})

\* Initiative#current_expences_sum counts an expense when it is charged to the
\* annual budget its event belongs to.
Spent(year, events, expenses) ==
    SumFunctionOnSet([x \in Expenses |-> expenses[x].amount],
      {x \in Expenses : /\ expenses[x].state = "live"
                        /\ events[expenses[x].event].state = "live"
                        /\ expenses[x].year = year
                        /\ events[expenses[x].event].year = year})
SpentBudget(table, events, expenses) ==
    IF Current(table) = {} THEN 0 ELSE Spent(Min(Current(table)), events, expenses)

\* A decimal column without decimals drops them, whatever the sign.
Whole(x) == IF x >= 0 THEN (x \div Unit) * Unit ELSE -(((-x) \div Unit) * Unit)
Stored(amount, approved, spent, leftover) ==
    [amount |-> Whole(amount), approved |-> Whole(approved),
     available |-> Whole(approved - spent), leftover |-> Whole(leftover),
     expenses |-> Whole(spent)]

-----------------------------------------------------------------------------
(* The callback update_annual_budget, once and twice in a request.         *)

Refresh(table, row, g, approved, spent) ==
    LET base == IF g.annual = NotSet THEN table[row].figures.amount ELSE g.annual
        leftover == (base - approved) + (approved - spent)
        amount == table[row].figures.amount
    IN  [group |-> [annual |-> amount, leftover |-> leftover],
         annual |-> [table EXCEPT ![row].figures =
                       Stored(amount, approved, spent, leftover)]]

\* after_save or after_destroy, over the rows as the request leaves them.
UpdateAnnualBudget(table, requests, events, expenses, twice) ==
    LET rows == Current(table)
        row == FindOrCreateId(rows)
        created == IF rows # {} THEN table ELSE FindOrCreate(rows, FALSE)
        approved == ApprovedBudget(created, requests)
        spent == SpentBudget(created, events, expenses)
        once == Refresh(created, row, group, approved, spent)
        last == IF twice THEN Refresh(once.annual, row, once.group, approved, spent)
                ELSE once
    IN  annual' = last.annual /\ group' = last.group

-----------------------------------------------------------------------------
(* Budget requests, events and expenses: one transaction each.             *)

RequestExists(r) == request[r].status \in {"pending", "approved", "declined"}

\* BudgetsController#create.
CreateRequest(r) ==
    /\ request[r].status = "absent"
    /\ CanFindOrCreate(EnterpriseRows)
    /\ annual' = FindOrCreate(EnterpriseRows, TRUE)
    /\ \E total \in Totals :
          request' = [request EXCEPT ![r] =
             [status |-> "pending", year |-> FindOrCreateId(EnterpriseRows),
              total |-> total]]
    /\ UNCHANGED <<group, event, expense, admin>>

\* BudgetManager#decline leaves the annual budget's figures as they are.
DeclineRequest(r) ==
    /\ RequestExists(r)
    /\ request' = [request EXCEPT ![r].status = "declined"]
    /\ UNCHANGED <<annual, group, event, expense, admin>>

DestroyRequest(r) ==
    /\ RequestExists(r)
    /\ CanFindOrCreate(OpenRows)
    /\ request' = [request EXCEPT ![r].status = "deleted"]
    /\ UpdateAnnualBudget(annual, request', event, expense, FALSE)
    /\ UNCHANGED <<event, expense, admin>>

\* Mutant of CreateEvent: annual_budget_id is not set.
CreateEventUncharged(e) ==
    /\ event[e].state = "absent"
    /\ CanFindOrCreate(EnterpriseRows)
    /\ annual' = FindOrCreate(EnterpriseRows, TRUE)
    /\ event' = [event EXCEPT ![e].state = "live"]
    /\ UNCHANGED <<group, request, expense, admin>>

\* InitiativesController#create.
CreateEvent(e) ==
    /\ event[e].state = "absent"
    /\ CanFindOrCreate(EnterpriseRows)
    /\ annual' = FindOrCreate(EnterpriseRows, TRUE)
    /\ event' = [event EXCEPT ![e] =
          [state |-> "live", year |-> FindOrCreateId(EnterpriseRows),
           finished |-> FALSE]]
    /\ UNCHANGED <<group, request, expense, admin>>

\* InitiativesController#update with an item of another annual budget: the
\* event moves, its expenses stay charged where they were.
ReassignEvent(e, r) ==
    /\ event[e].state = "live"
    /\ request[r].status = "approved" /\ request[r].year \notin {0, event[e].year}
    /\ event' = [event EXCEPT ![e].year = request[r].year]
    /\ UNCHANGED <<annual, group, request, expense, admin>>

\* allocate_budget_funds of an event funded by the leftover (EventFunding).
DrawLeftover(e) ==
    /\ event[e].state = "live"
    /\ \E ask \in Draws :
          /\ ask < group.leftover
          /\ group' = [group EXCEPT !.leftover = @ - ask]
    /\ UNCHANGED <<annual, request, event, expense, admin>>

\* The save of the flag may be refused (EventFunding) when the leftover is
\* already written.
FinishExpenses(e) ==
    /\ event[e].state = "live" /\ ~event[e].finished
    /\ group.annual # NotSet
    /\ LET approved == ApprovedBudget(annual, request)
           spent == SpentBudget(annual, event, expense)
       IN  group' = [group EXCEPT !.leftover =
                       (group.annual - approved) + (approved - spent)]
    /\ \E saved \in BOOLEAN : event' = [event EXCEPT ![e].finished = saved]
    /\ UNCHANGED <<annual, request, expense, admin>>

\* dependent: :destroy runs the callback for each expense, then the event's.
LiveExpensesOf(e) == {x \in Expenses : expense[x].state = "live" /\ expense[x].event = e}
DestroyEvent(e) ==
    /\ event[e].state = "live"
    /\ CanFindOrCreate(OpenRows)
    /\ event' = [event EXCEPT ![e].state = "deleted"]
    /\ expense' = [x \in Expenses |->
          IF x \in LiveExpensesOf(e) THEN [expense[x] EXCEPT !.state = "deleted"]
          ELSE expense[x]]
    /\ UpdateAnnualBudget(annual, request, event', expense', LiveExpensesOf(e) # {})
    /\ UNCHANGED <<request, admin>>

\* Initiatives::ExpensesController#create saves the expense twice.
AddExpense(x) ==
    /\ expense[x].state = "absent" /\ event[expense[x].event].state = "live"
    /\ CanFindOrCreate(EnterpriseRows)
    /\ \E cost \in Costs :
          expense' = [expense EXCEPT ![x].state = "live", ![x].amount = cost,
                        ![x].year = FindOrCreateId(EnterpriseRows)]
    /\ UpdateAnnualBudget(FindOrCreate(EnterpriseRows, TRUE), request, event,
                          expense', TRUE)
    /\ UNCHANGED <<request, event, admin>>

UpdateExpense(x) ==
    /\ expense[x].state = "live"
    /\ CanFindOrCreate(OpenRows)
    /\ \E cost \in Costs : expense' = [expense EXCEPT ![x].amount = cost]
    /\ UpdateAnnualBudget(annual, request, event, expense', FALSE)
    /\ UNCHANGED <<request, event, admin>>

\* Mutant of DestroyExpense: no after_destroy callback.
DestroyExpenseSilently(x) ==
    /\ expense[x].state = "live"
    /\ expense' = [expense EXCEPT ![x].state = "deleted"]
    /\ UNCHANGED <<annual, group, request, event, admin>>

DestroyExpense(x) ==
    /\ expense[x].state = "live"
    /\ CanFindOrCreate(OpenRows)
    /\ expense' = [expense EXCEPT ![x].state = "deleted"]
    /\ UpdateAnnualBudget(annual, request, event, expense', FALSE)
    /\ UNCHANGED <<request, event, admin>>

-----------------------------------------------------------------------------
(* The administrator's operations, one transaction a step.                 *)

Begin(name, step, row, seen, money) ==
    admin' = [name |-> name, step |-> step, row |-> row, seen |-> seen,
              money |-> money, loaded |-> NoFigures]

\* AnnualBudgetManager#edit.
Edit ==
    /\ admin = Idle
    /\ \E amount \in Amounts :
          LET approved == ApprovedBudget(annual, request)
              spent == SpentBudget(annual, event, expense)
          IN  /\ Whole(amount) # 0
              /\ group' = [annual |-> amount,
                           leftover |-> (amount - approved) + (approved - spent)]
    /\ Begin("edit", "snapshot", 0, group', 0)
    /\ UNCHANGED <<annual, request, event, expense>>

\* BudgetsController#approve and BudgetManager#approve; then #approve.  It raises
\* for a request without annual budget, and the form writes annual_budget_id back:
\* that of the list it was opened from, or blank when a mail or the feed led to it.
ApproveRequest(r) ==
    /\ admin = Idle
    /\ RequestExists(r) /\ request[r].year # 0
    /\ group.annual \notin {NotSet, 0}
    /\ request[r].total <= annual[request[r].year].figures.amount
    /\ \E page \in Pages :
          request' = [request EXCEPT ![r].status = "approved",
                                     ![r].year = IF page = "list" THEN @ ELSE 0]
    /\ Begin("approve", "snapshot", 0, group, 0)
    /\ UNCHANGED <<annual, group, event, expense>>

BeginReset ==
    /\ admin = Idle
    /\ group.annual \notin {NotSet, 0}
    /\ Begin("reset", "snapshot", 0, group, 0)
    /\ UNCHANGED <<annual, group, request, event, expense>>

BeginCarryOver ==
    /\ admin = Idle
    /\ group.leftover # 0
    /\ LET rows == {a \in EnterpriseRows : annual[a].figures.leftover # 0}
       IN  /\ rows # {}
           /\ Begin("carry_over", "close", Max(rows), group,
                    annual[Max(rows)].figures.leftover)
    /\ UNCHANGED <<annual, group, request, event, expense>>

\* find_or_create_annual_budget_and_update.  A reset then looks for the row
\* again, by its amount, and asks whether the group has events.
Snapshot ==
    /\ admin.step = "snapshot"
    /\ CanFindOrCreate(EnterpriseRows)
    /\ LET table == FindOrCreate(EnterpriseRows, TRUE)
           row == FindOrCreateId(EnterpriseRows)
       IN  annual' = [table EXCEPT ![row].figures =
              Stored(admin.seen.annual, ApprovedBudget(table, request),
                     SpentBudget(table, event, expense), admin.seen.leftover)]
    /\ LET rows == {a \in Ids : /\ annual'[a].state = "open" /\ annual'[a].enterprise
                                /\ annual'[a].figures.amount # 0}
           eventless == \A e \in Events : event[e].state # "live"
       IN  admin' = IF admin.name # "reset" THEN Idle
                    ELSE [admin EXCEPT
                            !.row = IF rows = {} THEN 0 ELSE Max(rows),
                            !.step = IF eventless THEN "clear" ELSE "close",
                            !.loaded = IF rows # {} /\ eventless
                                       THEN annual'[Max(rows)].figures ELSE @]
    /\ UNCHANGED <<group, request, event, expense>>

\* Without a row the reset raises here.
Close ==
    /\ admin.step = "close"
    /\ IF admin.row = 0
       THEN admin' = Idle /\ UNCHANGED annual
       ELSE /\ annual' = [annual EXCEPT ![admin.row].state = "closed"]
            /\ admin' = [admin EXCEPT !.step = "create"]
    /\ UNCHANGED <<group, request, event, expense>>

CreateNew ==
    /\ admin.step = "create"
    /\ CanFindOrCreate(EnterpriseRows)
    /\ annual' = FindOrCreate(EnterpriseRows, TRUE)
    /\ admin' = [admin EXCEPT !.row = FindOrCreateId(EnterpriseRows),
                   !.step = IF admin.name = "reset" THEN "group" ELSE "amount"]
    /\ UNCHANGED <<group, request, event, expense>>

CarryAmount ==
    /\ admin.step = "amount"
    /\ annual' = [annual EXCEPT ![admin.row].figures.amount = admin.money]
    /\ admin' = [admin EXCEPT !.step = "group"]
    /\ UNCHANGED <<group, request, event, expense>>

\* group.update writes the columns that differ from those it loaded.
Written(new) ==
    [annual |-> IF new.annual # admin.seen.annual THEN new.annual ELSE group.annual,
     leftover |-> IF new.leftover # admin.seen.leftover THEN new.leftover
                  ELSE group.leftover]

SetGroup ==
    /\ admin.step = "group"
    /\ group' = Written([annual |-> IF admin.name = "reset" THEN 0
                                    ELSE admin.seen.leftover,
                         leftover |-> 0])
    /\ admin' = Idle
    /\ UNCHANGED <<annual, request, event, expense>>

\* A reset of a group without events starts the same annual budget again.
Clear ==
    /\ admin.step = "clear"
    /\ group' = Written([annual |-> 0, leftover |-> 0])
    /\ admin' = IF admin.row = 0 THEN Idle ELSE [admin EXCEPT !.step = "clearRow"]
    /\ UNCHANGED <<annual, request, event, expense>>

\* annual_budget.update writes zero over the figures that were not zero when
\* the row was loaded.
Cleared(now) ==
    LET clear(column) == IF admin.loaded[column] # 0 THEN 0 ELSE now[column]
    IN  [amount |-> clear("amount"), approved |-> clear("approved"),
         available |-> clear("available"), leftover |-> clear("leftover"),
         expenses |-> clear("expenses")]

ClearRow ==
    /\ admin.step = "clearRow"
    /\ annual' = [annual EXCEPT ![admin.row].figures = Cleared(@)]
    /\ admin' = Idle
    /\ UNCHANGED <<group, request, event, expense>>

\* The process stops between two transactions.
Stop ==
    /\ admin # Idle
    /\ admin' = Idle
    /\ UNCHANGED <<annual, group, request, event, expense>>

Next ==
    \/ \E r \in Requests : \/ CreateRequest(r) \/ DeclineRequest(r)
                           \/ DestroyRequest(r) \/ ApproveRequest(r)
    \/ \E e \in Events : \/ CreateEvent(e) \/ DrawLeftover(e)
                         \/ FinishExpenses(e) \/ DestroyEvent(e)
                         \/ \E r \in Requests : ReassignEvent(e, r)
    \/ \E x \in Expenses : AddExpense(x) \/ UpdateExpense(x) \/ DestroyExpense(x)
    \/ Edit \/ BeginReset \/ BeginCarryOver
    \/ Snapshot \/ Close \/ CreateNew \/ CarryAmount \/ SetGroup
    \/ Clear \/ ClearRow \/ Stop

Spec == Init /\ [][Next]_vars

-----------------------------------------------------------------------------
(* Properties.                                                             *)

\* Whatever the requests in between and wherever an operation stops, the group
\* has at most one open annual budget found or created through its enterprise,
\* and at most one that a callback created.
OneOpenRow ==
    \A a, b \in OpenRows : annual[a].enterprise = annual[b].enterprise => a = b

\* A closed annual budget is a record: it is not opened again and its figures
\* do not change, by a callback for one of its expenses or otherwise.
ClosedForGood ==
    [][\A a \in Ids : annual[a].state = "closed" => annual'[a] = annual[a]]_vars

\* annual_budget.rb: approved_budget_leftover is the "same as available_budget",
\* but for the part of a whole that the two columns dropped.
SameAsAvailable(a) ==
    \E part \in (1 - Unit)..(Unit - 1) :
        LET approved == annual[a].figures.approved + part
        IN  /\ annual[a].figures.approved = Whole(approved)
            /\ annual[a].figures.available = Whole(approved - Spent(a, event, expense))

\* An event that has expenses is moved to another annual budget.
MovesExpenses ==
    \E x \in Expenses :
        LET e == expense[x].event
        IN  /\ expense[x].state = "live" /\ event[e].state = "live"
            /\ event'[e].year # event[e].year

\* The figures of the only open annual budget go wrong in two ways: an event
\* with expenses is moved between annual budgets, or a reset that saw no event
\* clears a row that has one by then.
FiguresGoWrongByMoveOrClear ==
    [][\A a \in Ids :
         OpenRows' = {a} /\ OpenRows \subseteq {a} /\ SameAsAvailable(a)
         /\ ~SameAsAvailable(a)' => MovesExpenses \/ ClearRow]_vars
=============================================================================
