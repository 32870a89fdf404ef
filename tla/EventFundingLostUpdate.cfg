\* Two application processes create two events on one item.
SPECIFICATION Spec
CONSTANTS
    b1 = b1
    b2 = b2
    i1 = i1
    i2 = i2
    e1 = e1
    e2 = e2
    w1 = w1
    w2 = w2
    NoItem = NoItem
    Leftover = Leftover
    NoRequest = NoRequest
    Budgets = {b1}
    Items = {i1}
    Events = {e1, e2}
    Workers = {w1, w2}
    BudgetOf <- MCOneBudgetOf
    Estimates = {2}
    Asked = {1}
    Pages = {"list", "mail"}
    Leftovers = {0}
    MaxYears = 1
    MaxMoney = 2
PROPERTIES
    SubtractsFundingFromItem
