--------------------------- MODULE MCEventFunding ---------------------------
(* Two budget requests of one item each, two events, and one annual budget  *)
(* more than the first.                                                     *)
EXTENDS EventFunding, TLC

CONSTANTS b1, b2, i1, i2, e1, e2, w1, w2

MCBudgetOf == i1 :> b1 @@ i2 :> b2
MCOneBudgetOf == i1 :> b1
MCAnyAmounts == {-1, 1}

\* Events are interchangeable, and so are the two requests with their items.
RequestSwaps == {b1 :> b1, b1 :> b2 @@ b2 :> b1 @@ i1 :> i2 @@ i2 :> i1}
SerialSymmetry == {p @@ q : p \in Permutations({e1, e2}), q \in RequestSwaps}
WorkerSymmetry == Permutations({w1, w2})
=============================================================================
