---------------------------- MODULE EventFunding ----------------------------
(***************************************************************************)
(* How the events of one group draw money from the items of its approved   *)
(* budget requests: app/models/initiative.rb, budget.rb, budget_item.rb,   *)
(* app/services/budget_manager.rb and the controllers that call them.      *)
(*                                                                         *)
(* Saving an event runs the before_save callback allocate_budget_funds,    *)
(* which reads a row of budget_items (or the group's leftover_money) and   *)
(* writes back an absolute amount.  Nothing locks the row, so a save is    *)
(* two steps here: Read reads, Commit writes.  A worker is one application *)
(* process and every request needs a free one, so with a single worker the *)
(* requests are serialised.                                                *)
(***************************************************************************)
EXTENDS Integers, FiniteSetsExt

CONSTANTS
    Budgets,      \* budget requests
    Items,        \* their items (lines of a request)
    BudgetOf,     \* the request each item belongs to
    Events,       \* initiatives of the group
    Workers,      \* application processes serving requests
    Estimates,    \* estimated_amount typed on a budget request
    Asked,        \* estimated_funding typed on the event form
    Pages,        \* where the form that approves a request is opened from
    Leftovers,    \* values the annual budget code writes to leftover_money
    MaxYears,     \* bound: annual budgets opened for the group
    MaxMoney,     \* the largest amount a decimal(8,2) column holds
    NoItem,       \* budget_item_id is blank
    Leftover,     \* budget_item_id is LEFTOVER_BUDGET_ITEM_ID
    NoRequest     \* the worker is idle

ASSUME BudgetOfAssumption == BudgetOf \in [Items -> Budgets]
ASSUME AmountAssumption ==
    /\ Estimates \subseteq Nat
    /\ Asked \subseteq Int
    /\ Leftovers \subseteq Int
    /\ MaxYears \in Nat
    /\ MaxMoney \in Nat
ASSUME PagesAssumption == Pages \subseteq {"list", "mail"}
ASSUME FiniteAssumption == IsFiniteSet(Events)
ASSUME SourceAssumption ==
    /\ NoItem \notin Items
    /\ Leftover \notin Items
    /\ NoItem # Leftover

VARIABLES
    budget,       \* is_approved and annual_budget_id of each request
    item,         \* estimated_amount, available_amount and is_done
    event,        \* the initiatives
    leftover,     \* groups.leftover_money
    year,         \* the annual budget that is open
    req           \* what each worker holds between its reads and its writes

vars == <<budget, item, event, leftover, year, req>>

Sources == Items \cup {NoItem, Leftover}

BudgetRow == [status: {"absent", "pending", "approved", "declined", "deleted"},
              year: Nat]
ItemRow   == [estimated: Nat, available: Int, done: BOOLEAN]
EventRow  == [state: {"new", "live", "deleted"}, source: Sources,
              funding: Int, finished: BOOLEAN, year: Nat]

\* What a save holds in memory: the event as it was read, the form's choice,
\* and the money it read (the item's row, or else the leftover).
Request ==
    [step: {"reassign", "read", "write"}, event: Events, create: BOOLEAN,
     old: EventRow, source: Sources, ask: Int,
     present: BOOLEAN, seen: Int, seenDone: BOOLEAN, estimated: Nat]

ASSUME IdleAssumption == NoRequest \notin Request

TypeOK ==
    /\ budget \in [Budgets -> BudgetRow]
    /\ item \in [Items -> ItemRow]
    /\ event \in [Events -> EventRow]
    /\ leftover \in Int
    /\ year \in Nat
    /\ req \in [Workers -> Request \cup {NoRequest}]

BlankItem == [estimated |-> 0, available |-> 0, done |-> FALSE]
BlankEvent(state) == [state |-> state, source |-> NoItem, funding |-> 0,
                      finished |-> FALSE, year |-> 0]

Init ==
    /\ budget = [b \in Budgets |-> [status |-> "absent", year |-> 0]]
    /\ item = [i \in Items |-> BlankItem]
    /\ event = [e \in Events |-> BlankEvent("new")]
    /\ leftover \in Leftovers
    /\ year = 1
    /\ req = [w \in Workers |-> NoRequest]

-----------------------------------------------------------------------------
(* Budget requests: BudgetsController and BudgetManager.                   *)

ItemsOf(b) == {i \in Items : BudgetOf[i] = b}
Exists(b)  == budget[b].status \in {"pending", "approved", "declined"}

\* BudgetItem.find, or initiative.budget_item, returns a row.
Present(s) == s \in Items /\ Exists(BudgetOf[s])

\* A process is free to serve a request that is one step here.
Free == \E w \in Workers : req[w] = NoRequest

\* BudgetItem#available_amount: the reader, not the column.
Spendable(i) == IF item[i].done THEN 0 ELSE item[i].available

CreateBudget(b) ==
    /\ Free
    /\ budget[b].status = "absent"
    /\ budget' = [budget EXCEPT ![b] = [status |-> "pending", year |-> year]]
    /\ \E amount \in [ItemsOf(b) -> Estimates] :
          item' = [i \in Items |->
              IF i \in ItemsOf(b)
              THEN [BlankItem EXCEPT !.estimated = amount[i]]
              ELSE item[i]]
    /\ UNCHANGED <<event, leftover, year, req>>

\* BudgetItem#approve!: the column goes back to the estimate, is_done stays.
Approved(row) == [row EXCEPT !.available = row.estimated]

\* The controller refuses a request larger than its annual budget (see module
\* AnnualBudgets), and raises without one; it looks at no status, so a request
\* may be approved twice.  The form writes annual_budget_id back: the one of the
\* list the page was opened from, or blank when a mail or the activity feed led
\* to it.
ApproveBudget(b) ==
    /\ Free
    /\ Exists(b) /\ budget[b].year # 0
    /\ item' = [i \in Items |->
                  IF i \in ItemsOf(b) THEN Approved(item[i]) ELSE item[i]]
    /\ \E page \in Pages :
          budget' = [budget EXCEPT ![b] =
             [status |-> "approved", year |-> IF page = "list" THEN @.year ELSE 0]]
    /\ UNCHANGED <<event, leftover, year, req>>

DeclineBudget(b) ==
    /\ Free
    /\ Exists(b)
    /\ budget' = [budget EXCEPT ![b].status = "declined"]
    /\ UNCHANGED <<item, event, leftover, year, req>>

\* The items go with the request; the events keep a dangling budget_item_id.
\* update_annual_budget then recomputes leftover_money.
DestroyBudget(b) ==
    /\ Free
    /\ Exists(b)
    /\ budget' = [budget EXCEPT ![b] = [status |-> "deleted", year |-> 0]]
    /\ item' = [i \in Items |-> IF i \in ItemsOf(b) THEN BlankItem ELSE item[i]]
    /\ leftover' \in Leftovers
    /\ UNCHANGED <<event, year, req>>

-----------------------------------------------------------------------------
(* Saving an event.                                                        *)

\* Budget.pre_approved_events: the items the event form offers.
Offered == {i \in Items : budget[BudgetOf[i]].status = "approved" /\ ~item[i].done}

\* Initiative#allocate_budget_funds against an item with money to spend: the
\* event's funding and what remains; a blank ask takes everything.
TakesAll(ask, spendable) == ask = 0 \/ ask >= spendable
Granted(ask, spendable) == IF TakesAll(ask, spendable) THEN spendable ELSE ask

\* What remains of what was read: available_amount in memory.
Left(seen, seenDone, ask) ==
    LET spendable == IF seenDone THEN 0 ELSE seen
    IN  spendable - Granted(ask, spendable)

\* Mutants of SavedItem: with every column written, and nothing subtracted.
SavedItemAllColumns(row, seen, seenDone, ask) ==
    [row EXCEPT !.available = Left(seen, seenDone, ask),
                !.done = seenDone \/ TakesAll(ask, IF seenDone THEN 0 ELSE seen)]
SavedItemNotSubtracted(row, seen, seenDone, ask) ==
    IF TakesAll(ask, IF seenDone THEN 0 ELSE seen)
    THEN [row EXCEPT !.available = 0, !.done = TRUE] ELSE row

\* budget_item.save of a valid item: only changed columns are written.
SavedItem(row, seen, seenDone, ask) ==
    LET left == Left(seen, seenDone, ask)
    IN  [row EXCEPT !.available = IF left # seen THEN left ELSE @,
                    !.done = IF TakesAll(ask, IF seenDone THEN 0 ELSE seen)
                             THEN TRUE ELSE @]

\* A request before allocate_budget_funds has read any money.
Form(step, e, create, old, s, ask) ==
    [step |-> step, event |-> e, create |-> create, old |-> old, source |-> s,
     ask |-> ask, present |-> FALSE, seen |-> 0, seenDone |-> FALSE, estimated |-> 0]

SameForm(e) ==
    Form("read", e, FALSE, event[e], event[e].source, event[e].funding)

\* ... and when it has read the item, or else the leftover.
Loaded(r) ==
    [r EXCEPT !.step = "write",
              !.present = Present(r.source),
              !.seen = IF Present(r.source) THEN item[r.source].available
                                            ELSE leftover,
              !.seenDone = Present(r.source) /\ item[r.source].done,
              !.estimated = IF Present(r.source) THEN item[r.source].estimated
                                                 ELSE 0]

\* BudgetItem validates that available_amount is at most estimated_amount.
ItemIsValid(r) == Left(r.seen, r.seenDone, r.ask) <= r.estimated

\* Mutants of Saves: finished events are not looked at, nor the item's validity.
SavesFinished(r) ==
    /\ r.ask = 0 \/ r.present \/ r.source = Leftover
    /\ r.present => ItemIsValid(r)
SavesUnvalidated(r) ==
    /\ r.ask = 0 \/ r.present \/ r.source = Leftover
    /\ r.present => ~r.old.finished

\* Initiative#check_budget, then the before_save callback.  It halts the save,
\* and nothing is written, when its value is false: that of an event whose
\* expenses are finished, or of budget_item.save, when the item it asks for is
\* there.
Saves(r) ==
    /\ r.ask = 0 \/ r.present \/ r.source = Leftover
    /\ r.present => ~r.old.finished /\ ItemIsValid(r)

\* A negative ask adds to the leftover; the database refuses, and rolls the
\* save back, when the sum does not fit its column.
Overflows(r) == r.source = Leftover /\ r.seen - r.ask > MaxMoney

NewFunding(r) ==
    IF r.present THEN Granted(r.ask, IF r.seenDone THEN 0 ELSE r.seen)
    ELSE IF r.source = Leftover THEN (IF r.ask >= r.seen THEN r.seen ELSE r.ask)
    ELSE 0

ItemsAfter(r) ==
    IF Present(r.source) /\ r.present
    THEN [item EXCEPT ![r.source] = SavedItem(@, r.seen, r.seenDone, r.ask)]
    ELSE item

\* owner_group.save; nothing is taken when the ask is the leftover or more.
LeftoverAfter(r) ==
    IF r.source = Leftover /\ r.ask # 0 /\ r.ask < r.seen
    THEN r.seen - r.ask ELSE leftover

\* Mutant of EventAfter: the two columns are swapped on INSERT.
EventAfterSwapped(r) ==
    IF r.create
    THEN [r.old EXCEPT !.state = "live", !.source = NewFunding(r),
                       !.funding = r.source]
    ELSE event[r.event]

\* INSERT, or UPDATE of the columns that differ from what was read.
EventAfter(r) ==
    IF r.create
    THEN [r.old EXCEPT !.state = "live", !.source = r.source,
                       !.funding = NewFunding(r)]
    ELSE IF event[r.event].state # "live" THEN event[r.event]
    ELSE [event[r.event] EXCEPT
            !.source  = IF r.source # r.old.source THEN r.source ELSE @,
            !.funding = IF NewFunding(r) # r.old.funding THEN NewFunding(r) ELSE @]

\* InitiativesController#create: the form is filled.
LoadCreate(w, e) ==
    /\ req[w] = NoRequest
    /\ event[e].state = "new"
    /\ \A v \in Workers : req[v] # NoRequest => req[v].event # e
    /\ \E s \in Offered \cup {NoItem, Leftover}, ask \in Asked :
          req' = [req EXCEPT ![w] =
                   Form("read", e, TRUE, [event[e] EXCEPT !.year = year], s, ask)]
    /\ UNCHANGED <<budget, item, event, leftover, year>>

\* InitiativesController#update with a filled form: an event that asks for an
\* item first goes through re_assign_annual_budget.
LoadUpdate(w, e) ==
    /\ req[w] = NoRequest
    /\ event[e].state = "live"
    /\ \E s \in Offered \cup {NoItem, Leftover},
          ask \in Asked \cup {event[e].funding} :
          req' = [req EXCEPT ![w] =
                Form(IF s \in Items THEN "reassign" ELSE "read",
                     e, FALSE, event[e], s, ask)]
    /\ UNCHANGED <<budget, item, event, leftover, year>>

\* Saves that leave the budget fields alone: ArchivedInitiatives#restore, and
\* the edit form of an event whose budget panel is disabled.
LoadResave(w, e) ==
    /\ req[w] = NoRequest
    /\ event[e].state = "live"
    /\ req' = [req EXCEPT ![w] = SameForm(e)]
    /\ UNCHANGED <<budget, item, event, leftover, year>>

\* AnnualBudgetManager#re_assign_annual_budget: when the item is of another
\* annual budget than the event, another copy of the event is loaded and saved,
\* and its save allocates from the event's present source.  A save that is
\* refused changes nothing and nobody asks; the request ends when a record is
\* gone, the item's request has no annual budget, or the database refuses.
Reassign(w) ==
    /\ req[w] # NoRequest /\ req[w].step = "reassign"
    /\ LET e == req[w].event
           r == Loaded(SameForm(e))
           to == budget[BudgetOf[req[w].source]].year
           moves == to # event[e].year
           raises == \/ event[e].state # "live" \/ ~Present(req[w].source)
                     \/ moves /\ (to = 0 \/ Overflows(r))
       IN  /\ req' = [req EXCEPT ![w] =
                        IF raises THEN NoRequest ELSE [@ EXCEPT !.step = "read"]]
           /\ IF raises \/ ~moves \/ ~Saves(r)
              THEN UNCHANGED <<item, leftover, event>>
              ELSE /\ item' = ItemsAfter(r)
                   /\ leftover' = LeftoverAfter(r)
                   /\ event' = [event EXCEPT ![e] = [EventAfter(r) EXCEPT !.year = to]]
    /\ UNCHANGED <<budget, year>>

Read(w) ==
    /\ req[w] # NoRequest /\ req[w].step = "read"
    /\ req' = [req EXCEPT ![w] = Loaded(@)]
    /\ UNCHANGED <<budget, item, event, leftover, year>>

Commit(w) ==
    /\ req[w] # NoRequest /\ req[w].step = "write"
    /\ Saves(req[w]) /\ ~Overflows(req[w])
    /\ item' = ItemsAfter(req[w])
    /\ leftover' = LeftoverAfter(req[w])
    /\ event' = [event EXCEPT ![req[w].event] = EventAfter(req[w])]
    /\ req' = [req EXCEPT ![w] = NoRequest]
    /\ UNCHANGED <<budget, year>>

\* The form is shown again with the error.
Refuse(w) ==
    /\ req[w] # NoRequest /\ req[w].step = "write"
    /\ ~Saves(req[w]) \/ Overflows(req[w])
    /\ req' = [req EXCEPT ![w] = NoRequest]
    /\ UNCHANGED <<budget, item, event, leftover, year>>

-----------------------------------------------------------------------------
(* The other requests about events and the group's money.                  *)

\* InitiativesController#finish_expenses: leftover_money is recomputed (module
\* AnnualBudgets says to what), then the flag is saved without allocating.
FinishExpenses(e) ==
    /\ Free
    /\ event[e].state = "live" /\ ~event[e].finished
    /\ leftover' \in Leftovers
    /\ event' = [event EXCEPT ![e].finished =
          LET x == event[e]
          IN  x.funding = 0 \/ Present(x.source) \/ x.source = Leftover]
    /\ UNCHANGED <<budget, item, year, req>>

\* The event's money does not go back to its item.
DestroyEvent(e) ==
    /\ Free
    /\ event[e].state = "live"
    /\ event' = [event EXCEPT ![e] = BlankEvent("deleted")]
    /\ leftover' \in Leftovers
    /\ UNCHANGED <<budget, item, year, req>>

\* AnnualBudgetManager#reset! and #carry_over!: another annual budget is open.
OpenYear ==
    /\ Free
    /\ year < MaxYears
    /\ year' = year + 1
    /\ leftover' = 0
    /\ UNCHANGED <<budget, item, event, req>>

\* AnnualBudgetManager#edit and the callbacks of expenses.
RecomputeLeftover ==
    /\ Free
    /\ leftover' \in Leftovers
    /\ UNCHANGED <<budget, item, event, year, req>>

Next ==
    \/ \E b \in Budgets : \/ CreateBudget(b) \/ ApproveBudget(b)
                          \/ DeclineBudget(b) \/ DestroyBudget(b)
    \/ \E w \in Workers, e \in Events :
          LoadCreate(w, e) \/ LoadUpdate(w, e) \/ LoadResave(w, e)
    \/ \E w \in Workers : Reassign(w) \/ Read(w) \/ Commit(w) \/ Refuse(w)
    \/ \E e \in Events : FinishExpenses(e) \/ DestroyEvent(e)
    \/ OpenYear
    \/ RecomputeLeftover

Spec == Init /\ [][Next]_vars

-----------------------------------------------------------------------------
(* Properties.                                                             *)

LiveEventsOf(i) == {e \in Events : event[e].state = "live" /\ event[e].source = i}
Committed(i) == SumFunctionOnSet([e \in Events |-> event[e].funding], LiveEventsOf(i))

Overcommitted(i) ==
    Exists(BudgetOf[i]) /\ Committed(i) + Spendable(i) > item[i].estimated

\* However saves overlap and whatever amount is typed, an item has between
\* nothing and its estimate left: allocate_budget_funds never takes more than
\* it read, and the save of an event that would give too much back is halted by
\* the item's validation.
ItemWithinEstimate ==
    \A i \in Items : 0 <= item[i].available /\ item[i].available <= item[i].estimated

\* An item marked as used up stays used up, through stale saves that read it
\* before it was marked and through a second approval of its request.
UsedUpStaysUsedUp ==
    [][\A i \in Items :
         item[i].done /\ Exists(BudgetOf[i])'
            => item'[i].done /\ Spendable(i)' = 0]_vars

\* An event moved from another annual budget to an item requested for nothing:
\* its form says no funding and the item has none, so the column is not written
\* and the event keeps what it took when re_assign_annual_budget saved it.
MovesFunding(i) ==
    /\ item[i].estimated = 0
    /\ \E w \in Workers : Commit(w) /\ req[w].source = i /\ req[w].old.funding = 0

\* Serialised requests that type no negative amount never promise more of an
\* item than its estimate, saving an event again and again included, unless its
\* request is approved a second time or an event brings its funding along.
ReapprovalOrMoveOvercommits ==
    [][\A i \in Items :
         (~Overcommitted(i) /\ Overcommitted(i)') =>
             \/ Committed(i) > 0 /\ ApproveBudget(BudgetOf[i])
             \/ MovesFunding(i)]_vars

\* With serialised requests, an event whose expenses are finished never ends
\* up with another item, or more or less money from its item.
FinishedEventKeepsItem ==
    [][\A e \in Events :
         event[e].finished /\ event'[e].state = "live" /\ event'[e].source \in Items
         /\ Exists(BudgetOf[event'[e].source])
            => /\ event'[e].source = event[e].source
               /\ event'[e].funding = event[e].funding]_vars

\* initiative_spec.rb, 'substracts estimated funding from budget item': saving
\* a new event takes its funding from what the item had.
SubtractsFundingFromItem ==
    [][\A e \in Events, i \in Items :
         event[e].state = "new" /\ event'[e].state = "live" /\ event'[e].source = i
         /\ Exists(BudgetOf[i])
            => Spendable(i)' = Spendable(i) - event'[e].funding]_vars
=============================================================================
