--------------------------- MODULE MCAnnualBudgets ---------------------------
(* One budget request, one event with one expense, two annual budgets.      *)
EXTENDS AnnualBudgets

CONSTANTS r1, e1, x1
=============================================================================
