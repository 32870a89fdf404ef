\* One application process: requests are served one after the other, over
\* two requests of one item each, which may ask for nothing, two events and
\* two annual budgets.
SPECIFICATION Spec
CONSTANTS
    b1 = b1
    b2 = b2
    i1 = i1
    i2 = i2
    e1 = e1
    e2 = e2
    w1 = w1
    w2 = w2
    NoItem = NoItem
    Leftover = Leftover
    NoRequest = NoRequest
    Budgets = {b1, b2}
    Items = {i1, i2}
    Events = {e1, e2}
    Workers = {w1}
    BudgetOf <- MCBudgetOf
    Estimates = {0, 2}
    Asked = {1}
    Pages = {"list"}
    Leftovers = {1}
    MaxYears = 2
    MaxMoney = 2
SYMMETRY SerialSymmetry
INVARIANTS
    TypeOK
PROPERTIES
    ReapprovalOrMoveOvercommits
    FinishedEventKeepsItem
