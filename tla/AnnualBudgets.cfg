\* Two annual budgets, a budget request and an event that draws on the leftover.
SPECIFICATION Spec
CONSTANTS
    r1 = r1
    e1 = e1
    x1 = x1
    NotSet = NotSet
    Requests = {r1}
    Events = {e1}
    Expenses = {x1}
    MaxYears = 2
    Amounts = {4}
    Totals = {1}
    Costs = {3}
    Draws = {3}
    Pages = {"list", "mail"}
    Unit = 2
INVARIANTS
    TypeOK
    OneOpenRow
PROPERTIES
    ClosedForGood
    FiguresGoWrongByMoveOrClear
\* No annual budget can be opened beyond the bound.
CHECK_DEADLOCK FALSE
