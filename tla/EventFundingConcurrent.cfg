\* Two application processes save the same event, and any amount is typed.
SPECIFICATION Spec
CONSTANTS
    b1 = b1
    b2 = b2
    i1 = i1
    i2 = i2
    e1 = e1
    e2 = e2
    w1 = w1
    w2 = w2
    NoItem = NoItem
    Leftover = Leftover
    NoRequest = NoRequest
    Budgets = {b1}
    Items = {i1}
    Events = {e1}
    Workers = {w1, w2}
    BudgetOf <- MCOneBudgetOf
    Estimates = {2}
    Asked <- MCAnyAmounts
    Pages = {"list", "mail"}
    Leftovers = {1}
    MaxYears = 1
    MaxMoney = 2
SYMMETRY WorkerSymmetry
INVARIANTS
    ItemWithinEstimate
PROPERTIES
    UsedUpStaysUsedUp
