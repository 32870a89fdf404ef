------------------------ MODULE EventFundingProofs --------------------------
(***************************************************************************)
(* What holds of EventFunding for any number of requests, items and events.  *)
(* The first part, up to UsedUpForGood, is about any number of application  *)
(* processes and whatever amounts are typed; the rest is about one process, *)
(* which serves a request to its end before it takes another, and its last  *)
(* theorem about amounts that are not negative.                             *)
(***************************************************************************)
EXTENDS EventFunding, FiniteSetTheorems, WellFoundedInduction, TLAPS

\* A request that has read an item, and may write to it, read its estimate and
\* an amount between nothing and that.
SeenWithin(r) ==
    r.present =>
      /\ r.source \in Items
      /\ budget[BudgetOf[r.source]].status # "absent"
      /\ Present(r.source) => /\ r.estimated = item[r.source].estimated
                              /\ 0 <= r.seen /\ r.seen <= r.estimated

SeenWithinEstimate == \A w \in Workers : req[w] # NoRequest => SeenWithin(req[w])

IInv == TypeOK /\ ItemWithinEstimate /\ SeenWithinEstimate

\* Writing back to an item keeps its row well formed, and within its estimate
\* if the amount read was not negative.
LEMMA SavedItemType ==
    ASSUME NEW row \in ItemRow, NEW seen \in Int, NEW seenDone \in BOOLEAN,
           NEW ask \in Int
    PROVE  SavedItem(row, seen, seenDone, ask) \in ItemRow
  <1> DEFINE left == Left(seen, seenDone, ask)
  <1>1. left \in Int
    BY DEF Left, Granted, TakesAll
  <1> HIDE DEF left
  <1>2. [row EXCEPT !.available = IF left # seen THEN left ELSE @,
                    !.done = IF TakesAll(ask, IF seenDone THEN 0 ELSE seen)
                             THEN TRUE ELSE @] \in ItemRow
    BY <1>1 DEF ItemRow
  <1> QED BY <1>2 DEF SavedItem, left

LEMMA SavedItemWithin ==
    ASSUME NEW row \in ItemRow, NEW seen \in Nat, NEW seenDone \in BOOLEAN,
           NEW ask \in Int, 0 <= row.available, row.available <= row.estimated,
           Left(seen, seenDone, ask) <= row.estimated
    PROVE  /\ 0 <= SavedItem(row, seen, seenDone, ask).available
           /\ SavedItem(row, seen, seenDone, ask).available <= row.estimated
  BY DEF SavedItem, Left, Granted, TakesAll, ItemRow

LEMMA LoadedType ==
    ASSUME TypeOK, NEW r \in Request
    PROVE  Loaded(r) \in Request
  BY DEF TypeOK, Loaded, Request, Present, ItemRow

LEMMA FormType ==
    ASSUME TypeOK, NEW step \in {"reassign", "read"}, NEW e \in Events,
           NEW create \in BOOLEAN, NEW old \in EventRow, NEW s \in Sources,
           NEW ask \in Int
    PROVE  Form(step, e, create, old, s, ask) \in Request
  BY DEF Form, Request

LEMMA SameFormType ==
    ASSUME TypeOK, NEW e \in Events
    PROVE  SameForm(e) \in Request /\ ~SameForm(e).present
  BY FormType DEF SameForm, Form, TypeOK, EventRow

\* The money a request reads is within the estimate of its item.
LEMMA LoadedWithin ==
    ASSUME IInv, NEW r \in Request
    PROVE  Loaded(r).present =>
              /\ Loaded(r).source \in Items
              /\ Exists(BudgetOf[r.source])
              /\ Loaded(r).estimated = item[r.source].estimated
              /\ 0 <= Loaded(r).seen
              /\ Loaded(r).seen <= Loaded(r).estimated
  BY DEF IInv, ItemWithinEstimate, Loaded, Present, Request, TypeOK

\* What a commit writes to the items and to the event has the right shape.
LEMMA AfterType ==
    ASSUME TypeOK, NEW r \in Request, r.present => r.source \in Items
    PROVE  /\ ItemsAfter(r) \in [Items -> ItemRow]
           /\ LeftoverAfter(r) \in Int
           /\ EventAfter(r) \in EventRow
  <1>1. ItemsAfter(r) \in [Items -> ItemRow]
    BY SavedItemType DEF ItemsAfter, TypeOK, Request, Present
  <1>2. LeftoverAfter(r) \in Int
    BY DEF LeftoverAfter, TypeOK, Request
  <1>3. NewFunding(r) \in Int
    BY DEF NewFunding, Granted, TakesAll, Request
  <1>4. EventAfter(r) \in EventRow
    <2>1. /\ r.old \in EventRow /\ event[r.event] \in EventRow /\ r.source \in Sources
          /\ event[r.event].source \in Sources /\ event[r.event].funding \in Int
      BY DEF TypeOK, Request, EventRow
    <2>2. ASSUME NEW row \in EventRow, NEW source \in Sources, NEW funding \in Int
          PROVE  /\ [row EXCEPT !.source = source, !.funding = funding] \in EventRow
                 /\ [row EXCEPT !.state = "live", !.source = source, !.funding = funding]
                       \in EventRow
      BY DEF EventRow
    <2> QED BY <1>3, <2>1, <2>2 DEF EventAfter
  <1> QED BY <1>1, <1>2, <1>4

LEMMA ItemsAfterWithin ==
    ASSUME TypeOK, ItemWithinEstimate, NEW r \in Request,
           SeenWithin(r), Saves(r)
    PROVE  \A i \in Items :
              /\ 0 <= ItemsAfter(r)[i].available
              /\ ItemsAfter(r)[i].available <= ItemsAfter(r)[i].estimated
              /\ ItemsAfter(r)[i].estimated = item[i].estimated
              /\ item[i].done = TRUE => ItemsAfter(r)[i].done = TRUE
  <1> SUFFICES ASSUME NEW i \in Items
      PROVE  /\ 0 <= ItemsAfter(r)[i].available
             /\ ItemsAfter(r)[i].available <= ItemsAfter(r)[i].estimated
             /\ ItemsAfter(r)[i].estimated = item[i].estimated
             /\ item[i].done = TRUE => ItemsAfter(r)[i].done = TRUE
    OBVIOUS
  <1>1. CASE Present(r.source) /\ r.present /\ i = r.source
    <2>1. ItemsAfter(r)[i] = SavedItem(item[i], r.seen, r.seenDone, r.ask)
      BY <1>1 DEF ItemsAfter, TypeOK
    <2>2. /\ item[i] \in ItemRow /\ r.seen \in Nat
          /\ r.seenDone \in BOOLEAN /\ r.ask \in Int
          /\ Left(r.seen, r.seenDone, r.ask) <= item[i].estimated
      BY <1>1 DEF TypeOK, Request, SeenWithin, Saves, ItemIsValid
    <2>3. 0 <= item[i].available /\ item[i].available <= item[i].estimated
      BY DEF ItemWithinEstimate
    <2>4. ItemsAfter(r)[i].estimated = item[i].estimated
      BY <2>1, <2>2 DEF SavedItem, ItemRow
    <2>6. item[i].done = TRUE => ItemsAfter(r)[i].done = TRUE
      BY <2>1, <2>2 DEF SavedItem, ItemRow
    <2>5. /\ 0 <= ItemsAfter(r)[i].available
          /\ ItemsAfter(r)[i].available <= item[i].estimated
      BY <2>1, <2>2, <2>3, SavedItemWithin
    <2> QED BY <2>4, <2>5, <2>6
  <1>2. CASE ~(Present(r.source) /\ r.present /\ i = r.source)
    <2>1. ItemsAfter(r)[i] = item[i]
      BY <1>2 DEF ItemsAfter, TypeOK
    <2> QED BY <2>1 DEF ItemWithinEstimate
  <1> QED BY <1>1, <1>2

LEMMA InitIInv == Init => IInv
  <1> SUFFICES ASSUME Init PROVE IInv
    OBVIOUS
  <1>1. TypeOK
    BY AmountAssumption, SourceAssumption
    DEF Init, TypeOK, BudgetRow, ItemRow, EventRow, BlankItem, BlankEvent, Sources
  <1>2. ItemWithinEstimate /\ SeenWithinEstimate
    BY DEF Init, ItemWithinEstimate, SeenWithinEstimate, BlankItem
  <1> QED BY <1>1, <1>2 DEF IInv

\* A step that neither brings items back nor changes the estimate of items
\* that stay keeps what a request it leaves alone has seen within the estimate.
SameEstimates ==
    \A i \in Items :
        /\ budget[BudgetOf[i]].status # "absent"
             => budget'[BudgetOf[i]].status # "absent"
        /\ Present(i)' => Present(i) /\ item'[i].estimated = item[i].estimated

LEMMA SeenKept ==
    ASSUME SameEstimates, NEW r, SeenWithin(r)
    PROVE  SeenWithin(r)'
  BY DEF SameEstimates, SeenWithin

LEMMA SeenAllKept ==
    ASSUME SameEstimates, SeenWithinEstimate, UNCHANGED req
    PROVE  SeenWithinEstimate'
  <1> SUFFICES ASSUME NEW w \in Workers, req[w] # NoRequest
      PROVE  SeenWithin(req[w])'
    BY DEF SeenWithinEstimate
  <1>1. PICK r : r = req[w] /\ r = req'[w]
    OBVIOUS
  <1>2. SeenWithin(r)
    BY <1>1 DEF SeenWithinEstimate
  <1>3. SeenWithin(r)'
    BY <1>2, SeenKept
  <1> QED BY <1>1, <1>3

LEMMA CreateBudgetInv ==
    ASSUME IInv, NEW b \in Budgets, CreateBudget(b)
    PROVE  IInv'
  <1>1. PICK amount \in [ItemsOf(b) -> Estimates] :
          item' = [i \in Items |->
              IF i \in ItemsOf(b)
              THEN [BlankItem EXCEPT !.estimated = amount[i]] ELSE item[i]]
    BY DEF CreateBudget
  <1>2. ASSUME NEW i \in Items, i \in ItemsOf(b)
        PROVE  /\ item'[i] \in ItemRow
               /\ item'[i].available = 0 /\ 0 <= item'[i].estimated
    <2>1. item'[i] = [estimated |-> amount[i], available |-> 0, done |-> FALSE]
      BY <1>1, <1>2 DEF BlankItem
    <2>2. amount[i] \in Nat
      BY <1>2, AmountAssumption
    <2> QED BY <2>1, <2>2 DEF ItemRow
  <1>3. ASSUME NEW i \in Items, i \notin ItemsOf(b)
        PROVE  item'[i] = item[i]
    BY <1>1, <1>3
  <1>4. TypeOK'
    <2>1. budget' \in [Budgets -> BudgetRow]
      BY DEF CreateBudget, IInv, TypeOK, BudgetRow
    <2>2. ASSUME NEW i \in Items PROVE item'[i] \in ItemRow
      BY <1>2, <1>3 DEF IInv, TypeOK
    <2> QED BY <1>1, <2>1, <2>2 DEF CreateBudget, IInv, TypeOK
  <1>5. ItemWithinEstimate'
    BY <1>2, <1>3 DEF IInv, ItemWithinEstimate
  <1>6. SeenWithinEstimate'
    <2> SUFFICES ASSUME NEW w \in Workers, req[w] # NoRequest
        PROVE  SeenWithin(req[w])'
      BY DEF SeenWithinEstimate, CreateBudget
    <2>1. PICK r : r = req[w] /\ r = req'[w]
      BY DEF CreateBudget
    <2>2. SeenWithin(r)
      BY <2>1 DEF IInv, SeenWithinEstimate
    <2>3. CASE r.present
      <3>1. r.source \in Items /\ BudgetOf[r.source] # b
        BY <2>2, <2>3 DEF SeenWithin, CreateBudget
      <3>2. budget'[BudgetOf[r.source]] = budget[BudgetOf[r.source]]
        BY <3>1, BudgetOfAssumption DEF CreateBudget, IInv, TypeOK
      <3>3. item'[r.source] = item[r.source]
        BY <3>1, <1>3 DEF ItemsOf
      <3>4. SeenWithin(r)'
        BY <2>2, <3>1, <3>2, <3>3 DEF SeenWithin, Present, Exists
      <3> QED BY <2>1, <3>4
    <2>4. CASE ~r.present
      BY <2>1, <2>4 DEF SeenWithin
    <2> QED BY <2>3, <2>4
  <1> QED BY <1>4, <1>5, <1>6 DEF IInv

LEMMA SeenOneChanged ==
    ASSUME SameEstimates, SeenWithinEstimate, req \in [Workers -> Request \cup {NoRequest}],
           NEW w \in Workers, NEW x, req' = [req EXCEPT ![w] = x],
           x # NoRequest => SeenWithin(x)'
    PROVE  SeenWithinEstimate'
  <1> SUFFICES ASSUME NEW v \in Workers, req'[v] # NoRequest
      PROVE  SeenWithin(req[v])'
    BY DEF SeenWithinEstimate
  <1>1. CASE v = w
    <2>1. req'[v] = x
      BY <1>1
    <2> QED BY <2>1
  <1>2. CASE v # w
    <2>1. PICK r : r = req[v] /\ r = req'[v]
      BY <1>2
    <2>2. SeenWithin(r)
      BY <2>1 DEF SeenWithinEstimate
    <2>3. SeenWithin(r)'
      BY <2>2, SeenKept
    <2> QED BY <2>1, <2>3
  <1> QED BY <1>1, <1>2

LEMMA ApprovedRequest ==
    ASSUME TypeOK, NEW b \in Budgets, ApproveBudget(b)
    PROVE  \E y \in Nat :
             budget' = [budget EXCEPT ![b] = [status |-> "approved", year |-> y]]
  <1>1. PICK page \in Pages : budget' = [budget EXCEPT ![b] =
          [status |-> "approved", year |-> IF page = "list" THEN @.year ELSE 0]]
    BY DEF ApproveBudget
  <1>2. budget[b].year \in Nat
    BY DEF TypeOK, BudgetRow
  <1> QED BY <1>1, <1>2

LEMMA ApproveBudgetInv ==
    ASSUME IInv, NEW b \in Budgets, ApproveBudget(b)
    PROVE  IInv'
  <1>1. ASSUME NEW i \in Items
        PROVE  /\ item'[i] \in ItemRow
               /\ item'[i].estimated = item[i].estimated
               /\ 0 <= item'[i].available /\ item'[i].available <= item'[i].estimated
    <2>1. item'[i] = item[i] \/ item'[i] = Approved(item[i])
      BY DEF ApproveBudget
    <2>2. /\ item[i] \in ItemRow
          /\ 0 <= item[i].available /\ item[i].available <= item[i].estimated
      BY DEF IInv, TypeOK, ItemWithinEstimate
    <2> QED BY <2>1, <2>2 DEF Approved, ItemRow
  <1>7. PICK y \in Nat : budget' = [budget EXCEPT ![b] = [status |-> "approved", year |-> y]]
    BY ApprovedRequest DEF IInv
  <1>2. /\ budget' \in [Budgets -> BudgetRow]
        /\ \A c \in Budgets : budget'[c].status # "absent"
                                <=> budget[c].status # "absent"
    BY <1>7 DEF ApproveBudget, Exists, IInv, TypeOK, BudgetRow
  <1>3. \A c \in Budgets : Exists(c)' => Exists(c)
    BY <1>7 DEF ApproveBudget, Exists, IInv, TypeOK
  <1>4. TypeOK'
    BY <1>1, <1>2 DEF ApproveBudget, IInv, TypeOK
  <1>5. SameEstimates
    BY <1>1, <1>2, <1>3, BudgetOfAssumption DEF SameEstimates, Present
  <1>6. SeenWithinEstimate'
    BY <1>5, SeenAllKept DEF ApproveBudget, IInv
  <1> QED BY <1>1, <1>4, <1>6 DEF IInv, ItemWithinEstimate

LEMMA DeclineBudgetInv ==
    ASSUME IInv, NEW b \in Budgets, DeclineBudget(b)
    PROVE  IInv'
  <1>1. TypeOK'
    BY DEF DeclineBudget, IInv, TypeOK, BudgetRow
  <1>2. \A c \in Budgets : /\ Exists(c)' => Exists(c)
                           /\ budget[c].status # "absent"
                                => budget'[c].status # "absent"
    BY DEF DeclineBudget, Exists, IInv, TypeOK, BudgetRow
  <1>3. SameEstimates
    BY <1>2, BudgetOfAssumption DEF DeclineBudget, SameEstimates, Present
  <1>4. SeenWithinEstimate'
    BY <1>3, SeenAllKept DEF DeclineBudget, IInv
  <1> QED BY <1>1, <1>4 DEF DeclineBudget, IInv, ItemWithinEstimate

LEMMA DestroyBudgetInv ==
    ASSUME IInv, NEW b \in Budgets, DestroyBudget(b)
    PROVE  IInv'
  <1>1. ASSUME NEW i \in Items
        PROVE  /\ item'[i] \in ItemRow
               /\ 0 <= item'[i].available /\ item'[i].available <= item'[i].estimated
    <2>1. item'[i] = item[i] \/ item'[i] = BlankItem
      BY DEF DestroyBudget
    <2>2. /\ item[i] \in ItemRow
          /\ 0 <= item[i].available /\ item[i].available <= item[i].estimated
      BY DEF IInv, TypeOK, ItemWithinEstimate
    <2>3. /\ BlankItem \in ItemRow
          /\ 0 <= BlankItem.available /\ BlankItem.available <= BlankItem.estimated
      BY DEF BlankItem, ItemRow
    <2> QED BY <2>1, <2>2, <2>3
  <1>2. TypeOK'
    BY <1>1, AmountAssumption DEF DestroyBudget, IInv, TypeOK, BudgetRow
  <1>3. ASSUME NEW i \in Items
        PROVE  /\ budget[BudgetOf[i]].status # "absent"
                    => budget'[BudgetOf[i]].status # "absent"
               /\ Present(i)' => Present(i) /\ item'[i] = item[i]
    <2>1. CASE BudgetOf[i] = b
      BY <2>1 DEF DestroyBudget, Present, Exists, IInv, TypeOK
    <2>2. CASE BudgetOf[i] # b
      BY <2>2, BudgetOfAssumption
      DEF DestroyBudget, Present, Exists, ItemsOf, IInv, TypeOK
    <2> QED BY <2>1, <2>2
  <1>4. SameEstimates
    BY <1>3 DEF SameEstimates
  <1>5. SeenWithinEstimate'
    BY <1>4, SeenAllKept DEF DestroyBudget, IInv
  <1> QED BY <1>1, <1>2, <1>5 DEF IInv, ItemWithinEstimate

LEMMA LoadInv ==
    ASSUME IInv, NEW w \in Workers, NEW e \in Events,
           LoadCreate(w, e) \/ LoadUpdate(w, e) \/ LoadResave(w, e)
    PROVE  IInv'
  <1>1. PICK x \in Request : req' = [req EXCEPT ![w] = x] /\ ~x.present
    <2>1. CASE LoadCreate(w, e)
      <3>1. PICK s \in Offered \cup {NoItem, Leftover}, ask \in Asked :
              req' = [req EXCEPT ![w] =
                   Form("read", e, TRUE, [event[e] EXCEPT !.year = year], s, ask)]
        BY <2>1 DEF LoadCreate
      <3>2. /\ s \in Sources /\ ask \in Int
            /\ [event[e] EXCEPT !.year = year] \in EventRow
        BY AmountAssumption DEF Offered, Sources, IInv, TypeOK, EventRow
      <3> QED BY <3>1, <3>2, FormType DEF Form, IInv
    <2>2. CASE LoadUpdate(w, e)
      <3>1. PICK s \in Offered \cup {NoItem, Leftover},
                 ask \in Asked \cup {event[e].funding},
                 step \in {"reassign", "read"} :
              req' = [req EXCEPT ![w] = Form(step, e, FALSE, event[e], s, ask)]
        BY <2>2 DEF LoadUpdate
      <3>2. s \in Sources /\ ask \in Int /\ event[e] \in EventRow
        BY AmountAssumption DEF Offered, Sources, IInv, TypeOK, EventRow
      <3> QED BY <3>1, <3>2, FormType DEF Form, IInv
    <2>3. CASE LoadResave(w, e)
      BY <2>3, SameFormType DEF LoadResave, IInv
    <2> QED BY <2>1, <2>2, <2>3
  <1>2. UNCHANGED <<budget, item, event, leftover, year>>
    BY DEF LoadCreate, LoadUpdate, LoadResave
  <1>3. TypeOK'
    BY <1>1, <1>2 DEF IInv, TypeOK
  <1>4. SameEstimates
    BY <1>2 DEF SameEstimates, Present, Exists
  <1>5. SeenWithinEstimate'
    BY <1>1, <1>4, SeenOneChanged DEF IInv, TypeOK, SeenWithin
  <1> QED BY <1>2, <1>3, <1>5 DEF IInv, ItemWithinEstimate

\* One save: what it writes keeps the items typed and within their estimates
\* and their estimates unchanged.
LEMMA SaveKeeps ==
    ASSUME IInv, UNCHANGED budget, NEW r \in Request, SeenWithin(r), Saves(r),
           item' = ItemsAfter(r)
    PROVE  item' \in [Items -> ItemRow] /\ ItemWithinEstimate' /\ SameEstimates
  <1>1. \A i \in Items :
              /\ 0 <= ItemsAfter(r)[i].available
              /\ ItemsAfter(r)[i].available <= ItemsAfter(r)[i].estimated
              /\ ItemsAfter(r)[i].estimated = item[i].estimated
    BY ItemsAfterWithin DEF IInv
  <1>2. item' \in [Items -> ItemRow]
    BY AfterType DEF IInv, SeenWithin
  <1>3. ItemWithinEstimate'
    BY <1>1 DEF ItemWithinEstimate
  <1>4. SameEstimates
    BY <1>1 DEF SameEstimates, Present, Exists
  <1> QED BY <1>2, <1>3, <1>4

LEMMA ReassignInv ==
    ASSUME IInv, NEW w \in Workers, Reassign(w)
    PROVE  IInv'
  <1> DEFINE e == req[w].event
  <1>1. req[w] \in Request /\ e \in Events
    BY DEF Reassign, IInv, TypeOK, Request
  <1>2. PICK r \in Request : r = Loaded(SameForm(e))
    BY <1>1, SameFormType, LoadedType DEF IInv
  <1>3. SeenWithin(r)
    <2>1. PICK q \in Request : q = SameForm(e)
      BY <1>1, SameFormType DEF IInv
    <2>2. r.source = q.source
      BY <1>2, <2>1 DEF Loaded, Request
    <2> QED BY <1>2, <2>1, <2>2, LoadedWithin DEF SeenWithin, Exists
  <1>4. UNCHANGED <<budget, year>>
    BY DEF Reassign
  <1>5. /\ item' \in [Items -> ItemRow] /\ ItemWithinEstimate' /\ SameEstimates
        /\ leftover' \in Int
        /\ event' \in [Events -> EventRow]
    <2>1. CASE UNCHANGED <<item, leftover, event>>
      BY <2>1, <1>4 DEF IInv, TypeOK, ItemWithinEstimate, SameEstimates, Present, Exists
    <2>2. CASE /\ Present(req[w].source) /\ Saves(r)
               /\ item' = ItemsAfter(r)
               /\ leftover' = LeftoverAfter(r)
               /\ event' = [event EXCEPT ![e] = [EventAfter(r) EXCEPT
                              !.year = budget[BudgetOf[req[w].source]].year]]
      <3>1. item' \in [Items -> ItemRow] /\ ItemWithinEstimate' /\ SameEstimates
        BY <1>3, <1>4, <2>2, SaveKeeps
      <3>2. LeftoverAfter(r) \in Int /\ EventAfter(r) \in EventRow
        BY <1>3, AfterType DEF SeenWithin, IInv
      <3>3. budget[BudgetOf[req[w].source]].year \in Nat
        BY <2>2, BudgetOfAssumption DEF Present, IInv, TypeOK, BudgetRow
      <3>4. event' \in [Events -> EventRow]
        BY <1>1, <2>2, <3>2, <3>3 DEF IInv, TypeOK, EventRow
      <3> QED BY <2>2, <3>1, <3>2, <3>4
    <2> QED BY <1>2, <2>1, <2>2 DEF Reassign
  <1>6. PICK x \in Request \cup {NoRequest} :
          /\ req' = [req EXCEPT ![w] = x]
          /\ x # NoRequest => x = [req[w] EXCEPT !.step = "read"]
    BY <1>1 DEF Reassign, Request
  <1>7. TypeOK'
    BY <1>4, <1>5, <1>6 DEF IInv, TypeOK
  <1>8. x # NoRequest => SeenWithin(x)'
    <2> SUFFICES ASSUME x # NoRequest PROVE SeenWithin(x)'
      OBVIOUS
    <2>1. SeenWithin(req[w])
      BY DEF Reassign, IInv, SeenWithinEstimate
    <2>2. SeenWithin(x)
      BY <1>1, <1>6, <2>1 DEF SeenWithin, Request
    <2> QED BY <1>5, <2>2, SeenKept
  <1>9. SeenWithinEstimate'
    BY <1>5, <1>6, <1>8, SeenOneChanged DEF IInv, TypeOK
  <1> QED BY <1>5, <1>7, <1>9 DEF IInv

LEMMA ReadInv ==
    ASSUME IInv, NEW w \in Workers, Read(w)
    PROVE  IInv'
  <1>1. req[w] \in Request
    BY DEF Read, IInv, TypeOK
  <1>2. PICK x \in Request : x = Loaded(req[w])
    BY <1>1, LoadedType DEF IInv
  <1>3. req' = [req EXCEPT ![w] = x] /\ UNCHANGED <<budget, item, event, leftover, year>>
    BY <1>2 DEF Read
  <1>4. SeenWithin(x)
    <2>1. x.source = req[w].source
      BY <1>1, <1>2 DEF Loaded, Request
    <2> QED BY <1>1, <1>2, <2>1, LoadedWithin DEF SeenWithin, Exists
  <1>5. SameEstimates
    BY <1>3 DEF SameEstimates, Present, Exists
  <1>6. SeenWithin(x)'
    BY <1>4, <1>5, SeenKept
  <1>7. SeenWithinEstimate'
    BY <1>3, <1>5, <1>6, SeenOneChanged DEF IInv, TypeOK
  <1> QED BY <1>3, <1>7 DEF IInv, TypeOK, ItemWithinEstimate

LEMMA CommitInv ==
    ASSUME IInv, NEW w \in Workers, Commit(w)
    PROVE  IInv'
  <1>1. PICK r \in Request : r = req[w]
    BY DEF Commit, IInv, TypeOK
  <1>2. SeenWithin(r)
    BY <1>1 DEF Commit, IInv, SeenWithinEstimate
  <1>3. item' \in [Items -> ItemRow] /\ ItemWithinEstimate' /\ SameEstimates
    BY <1>1, <1>2, SaveKeeps DEF Commit
  <1>4. LeftoverAfter(r) \in Int /\ EventAfter(r) \in EventRow
    BY <1>2, AfterType DEF SeenWithin, IInv
  <1>5. TypeOK'
    BY <1>1, <1>3, <1>4 DEF Commit, IInv, TypeOK, Request
  <1>6. SeenWithinEstimate'
    BY <1>3, SeenOneChanged DEF Commit, IInv, TypeOK
  <1> QED BY <1>3, <1>5, <1>6 DEF IInv

LEMMA RefuseInv ==
    ASSUME IInv, NEW w \in Workers, Refuse(w)
    PROVE  IInv'
  <1>1. SameEstimates
    BY DEF Refuse, SameEstimates, Present, Exists
  <1>2. SeenWithinEstimate'
    BY <1>1, SeenOneChanged DEF Refuse, IInv, TypeOK
  <1> QED BY <1>2 DEF Refuse, IInv, TypeOK, ItemWithinEstimate

\* The requests that touch neither the items nor what the workers hold.
LEMMA OtherRequestInv ==
    ASSUME IInv,
           \/ \E e \in Events : FinishExpenses(e) \/ DestroyEvent(e)
           \/ OpenYear \/ RecomputeLeftover \/ UNCHANGED vars
    PROVE  IInv'
  <1>1. UNCHANGED <<budget, item, req>>
    BY DEF FinishExpenses, DestroyEvent, OpenYear, RecomputeLeftover, vars
  <1>2. leftover' \in Int /\ year' \in Nat
    BY AmountAssumption
    DEF FinishExpenses, DestroyEvent, OpenYear, RecomputeLeftover, vars, IInv, TypeOK
  <1>3. event' \in [Events -> EventRow]
    <2>1. ASSUME NEW e \in Events, FinishExpenses(e)
          PROVE  event' \in [Events -> EventRow]
      <3>1. PICK finished \in BOOLEAN : event' = [event EXCEPT ![e].finished = finished]
        <4>1. (\/ event[e].funding = 0 \/ Present(event[e].source)
               \/ event[e].source = Leftover) \in BOOLEAN
          OBVIOUS
        <4> QED BY <2>1, <4>1 DEF FinishExpenses
      <3>2. event \in [Events -> EventRow] /\ event[e] \in EventRow
        BY DEF IInv, TypeOK
      <3>3. [event[e] EXCEPT !.finished = finished] \in EventRow
        BY <3>2 DEF EventRow
      <3> QED BY <3>1, <3>2, <3>3
    <2>2. ASSUME NEW e \in Events, DestroyEvent(e)
          PROVE  event' \in [Events -> EventRow]
      BY <2>2 DEF DestroyEvent, BlankEvent, IInv, TypeOK, EventRow, Sources
    <2> QED BY <2>1, <2>2 DEF OpenYear, RecomputeLeftover, vars, IInv, TypeOK
  <1>4. SameEstimates
    BY <1>1 DEF SameEstimates, Present, Exists
  <1>5. SeenWithinEstimate'
    BY <1>1, <1>4, SeenAllKept DEF IInv
  <1> QED BY <1>1, <1>2, <1>3, <1>5 DEF IInv, TypeOK, ItemWithinEstimate

LEMMA NextIInv == IInv /\ [Next]_vars => IInv'
  BY CreateBudgetInv, ApproveBudgetInv, DeclineBudgetInv, DestroyBudgetInv,
     LoadInv, ReassignInv, ReadInv, CommitInv, RefuseInv, OtherRequestInv
  DEF Next

\* The rows of every table keep their types, in every behaviour.
THEOREM TypeCorrect == Spec => []TypeOK
  BY InitIInv, NextIInv, PTL DEF Spec, IInv

\* Whatever saves overlap and whatever amounts are typed, an item never has
\* less than nothing left nor more than was requested.
THEOREM ItemsWithinEstimate == Spec => []ItemWithinEstimate
  BY InitIInv, NextIInv, PTL DEF Spec, IInv

-----------------------------------------------------------------------------
\* Used up stays used up.

\* A save that reads a used-up item leaves it so.
LEMMA ItemsAfterUsedUp ==
    ASSUME TypeOK, NEW r \in Request, NEW i \in Items, item[i].done = TRUE
    PROVE  ItemsAfter(r)[i].done = TRUE
  <1>1. CASE Present(r.source) /\ r.present /\ i = r.source
    <2>1. ItemsAfter(r)[i] = SavedItem(item[i], r.seen, r.seenDone, r.ask)
      BY <1>1 DEF ItemsAfter, TypeOK
    <2>2. item[i] \in ItemRow
      BY DEF TypeOK
    <2> QED BY <2>1, <2>2 DEF SavedItem, ItemRow
  <1>2. CASE ~(Present(r.source) /\ r.present /\ i = r.source)
    BY <1>2 DEF ItemsAfter, TypeOK
  <1> QED BY <1>1, <1>2

\* An item keeps its row until its request is made, and from then on it stays
\* used up for as long as the request exists.
UsedUpKept(i) ==
    /\ budget'[BudgetOf[i]].status = "absent" =>
          budget[BudgetOf[i]].status = "absent" /\ item'[i] = item[i]
    /\ /\ budget[BudgetOf[i]].status # "absent"
       /\ Exists(BudgetOf[i])'
       /\ item[i].done = TRUE
       => item'[i].done = TRUE

LEMMA SaveUsedUpKept ==
    ASSUME TypeOK, UNCHANGED budget, NEW r \in Request, item' = ItemsAfter(r),
           NEW i \in Items
    PROVE  UsedUpKept(i)
  <1>1. item[i].done = TRUE => item'[i].done = TRUE
    BY ItemsAfterUsedUp
  <1>2. budget[BudgetOf[i]].status = "absent" => item'[i] = item[i]
    BY DEF ItemsAfter, Present, Exists, TypeOK
  <1> QED BY <1>1, <1>2 DEF UsedUpKept

LEMMA UsedUpStep ==
    ASSUME IInv, [Next]_vars, NEW i \in Items
    PROVE  UsedUpKept(i)
  <1>1. CASE UNCHANGED <<budget, item>>
    BY <1>1 DEF UsedUpKept
  <1>2. ASSUME NEW b \in Budgets, CreateBudget(b)
        PROVE  UsedUpKept(i)
    <2>1. CASE BudgetOf[i] = b
      BY <1>2, <2>1 DEF CreateBudget, UsedUpKept, IInv, TypeOK
    <2>2. CASE BudgetOf[i] # b
      <3>1. item'[i] = item[i] /\ budget'[BudgetOf[i]] = budget[BudgetOf[i]]
        BY <1>2, <2>2, BudgetOfAssumption DEF CreateBudget, ItemsOf, IInv, TypeOK
      <3> QED BY <3>1 DEF UsedUpKept
    <2> QED BY <2>1, <2>2
  <1>3. ASSUME NEW b \in Budgets, ApproveBudget(b)
        PROVE  UsedUpKept(i)
    <2>1. CASE BudgetOf[i] = b
      <3>1. item'[i] = Approved(item[i]) /\ item[i] \in ItemRow
        BY <1>3, <2>1 DEF ApproveBudget, ItemsOf, IInv, TypeOK
      <3>2. item[i].done = TRUE => item'[i].done = TRUE
        BY <3>1 DEF Approved, ItemRow
      <3>3. budget'[b].status = "approved"
        BY <1>3, ApprovedRequest DEF IInv, TypeOK
      <3> QED BY <2>1, <3>2, <3>3 DEF UsedUpKept
    <2>2. CASE BudgetOf[i] # b
      <3>1. item'[i] = item[i] /\ budget'[BudgetOf[i]] = budget[BudgetOf[i]]
        BY <1>3, <2>2, ApprovedRequest, BudgetOfAssumption
        DEF ApproveBudget, ItemsOf, IInv, TypeOK
      <3> QED BY <3>1 DEF UsedUpKept
    <2> QED BY <2>1, <2>2
  <1>4. ASSUME NEW b \in Budgets, DeclineBudget(b)
        PROVE  UsedUpKept(i)
    <2>1. /\ item' = item
          /\ budget'[BudgetOf[i]].status = "absent" => budget[BudgetOf[i]].status = "absent"
      BY <1>4, BudgetOfAssumption DEF DeclineBudget, IInv, TypeOK, BudgetRow
    <2> QED BY <2>1 DEF UsedUpKept
  <1>5. ASSUME NEW b \in Budgets, DestroyBudget(b)
        PROVE  UsedUpKept(i)
    <2>1. CASE BudgetOf[i] = b
      <3>1. budget'[BudgetOf[i]].status = "deleted"
        BY <1>5, <2>1 DEF DestroyBudget, IInv, TypeOK
      <3> QED BY <3>1 DEF UsedUpKept, Exists
    <2>2. CASE BudgetOf[i] # b
      <3>1. item'[i] = item[i] /\ budget'[BudgetOf[i]] = budget[BudgetOf[i]]
        BY <1>5, <2>2, BudgetOfAssumption DEF DestroyBudget, ItemsOf, IInv, TypeOK
      <3> QED BY <3>1 DEF UsedUpKept
    <2> QED BY <2>1, <2>2
  <1>6. ASSUME NEW w \in Workers, Reassign(w)
        PROVE  UsedUpKept(i)
    <2>1. req[w] \in Request /\ req[w].event \in Events
      BY <1>6 DEF Reassign, IInv, TypeOK, Request
    <2>2. PICK r \in Request : r = Loaded(SameForm(req[w].event))
      BY <2>1, SameFormType, LoadedType DEF IInv
    <2>3. UNCHANGED budget /\ (item' = item \/ item' = ItemsAfter(r))
      BY <1>6, <2>2 DEF Reassign
    <2> QED BY <1>1, <2>3, SaveUsedUpKept DEF IInv
  <1>7. ASSUME NEW w \in Workers, Commit(w)
        PROVE  UsedUpKept(i)
    <2>1. PICK r \in Request : r = req[w]
      BY <1>7 DEF Commit, IInv, TypeOK
    <2> QED BY <1>7, <2>1, SaveUsedUpKept DEF Commit, IInv
  <1>8. \/ UNCHANGED <<budget, item>>
        \/ \E b \in Budgets : \/ CreateBudget(b) \/ ApproveBudget(b)
                              \/ DeclineBudget(b) \/ DestroyBudget(b)
        \/ \E w \in Workers : Reassign(w) \/ Commit(w)
    BY DEF Next, vars, LoadCreate, LoadUpdate, LoadResave, Read, Refuse,
           FinishExpenses, DestroyEvent, OpenYear, RecomputeLeftover
  <1> QED BY <1>1, <1>2, <1>3, <1>4, <1>5, <1>6, <1>7, <1>8

\* Nothing is used up before its request is made.
NotUsedUpYet ==
    \A i \in Items : budget[BudgetOf[i]].status = "absent" => item[i].done = FALSE

LEMMA NotUsedUpYetStep == IInv /\ NotUsedUpYet /\ [Next]_vars => NotUsedUpYet'
  BY UsedUpStep DEF NotUsedUpYet, UsedUpKept

LEMMA UsedUpAction ==
    ASSUME IInv, IInv', NotUsedUpYet, [Next]_vars
    PROVE  \A i \in Items : item[i].done /\ Exists(BudgetOf[i])'
               => item'[i].done /\ Spendable(i)' = 0
  <1> SUFFICES ASSUME NEW i \in Items, item[i].done, Exists(BudgetOf[i])'
      PROVE  item'[i].done /\ Spendable(i)' = 0
    OBVIOUS
  <1>1. item[i].done = TRUE
    BY DEF IInv, TypeOK, ItemRow
  <1>2. item'[i].done = TRUE
    BY <1>1, UsedUpStep DEF UsedUpKept, NotUsedUpYet
  <1> QED BY <1>2 DEF Spendable

\* An item marked as used up stays used up while its request exists, whatever
\* a save that read it earlier writes and however often it is approved.
THEOREM UsedUpForGood == Spec => UsedUpStaysUsedUp
  <1>1. Init => NotUsedUpYet
    BY DEF Init, NotUsedUpYet, BlankItem
  <1>2. IInv /\ IInv' /\ NotUsedUpYet /\ [Next]_vars =>
          [\A i \in Items : item[i].done /\ Exists(BudgetOf[i])'
               => item'[i].done /\ Spendable(i)' = 0]_vars
    BY UsedUpAction
  <1> QED
    BY <1>1, <1>2, InitIInv, NextIInv, NotUsedUpYetStep, PTL
    DEF Spec, UsedUpStaysUsedUp

-----------------------------------------------------------------------------
(* Requests served one after the other.                                    *)

OneWorker == \A v, w \in Workers : v = w

\* While a request is served nobody else changes what it has read: its event
\* keeps its source and its flag, and its item is as it was when it was read.
Fresh(r) ==
    /\ r.create => event[r.event].finished = FALSE
    /\ ~r.create => /\ r.old.source = event[r.event].source
                    /\ r.old.finished = event[r.event].finished
    /\ r.step = "write" => /\ r.present <=> Present(r.source)
                           /\ r.present => /\ r.seen = item[r.source].available
                                           /\ r.seenDone = item[r.source].done

Unfinished == \A e \in Events : event[e].state = "new" => event[e].finished = FALSE
SerialInv == Unfinished /\ \A w \in Workers : req[w] # NoRequest => Fresh(req[w])

LEMMA InitSerial == Init => SerialInv
  BY DEF Init, SerialInv, Unfinished, BlankEvent

\* A save changes neither the source of its event nor its flag, unless another
\* source is asked for, and an event that is not new any more stays so.
LEMMA EventAfterKeeps ==
    ASSUME IInv, NEW r \in Request,
           ~r.create => r.old.source = event[r.event].source
    PROVE  /\ r.create => EventAfter(r).state = "live"
           /\ ~r.create => /\ EventAfter(r).finished = event[r.event].finished
                           /\ EventAfter(r).state = event[r.event].state
           /\ ~r.create /\ event[r.event].state = "live" => EventAfter(r).source = r.source
  <1>1. event[r.event] \in EventRow /\ r.old \in EventRow /\ r.source \in Sources
    BY DEF IInv, TypeOK, Request
  <1>2. ASSUME NEW row \in EventRow, NEW source, NEW funding
        PROVE  LET new == [row EXCEPT !.source = source, !.funding = funding]
               IN  /\ new.finished = row.finished /\ new.state = row.state
                   /\ new.source = source
    BY DEF EventRow
  <1>3. CASE r.create
    BY <1>1, <1>3 DEF EventAfter, EventRow
  <1>4. CASE ~r.create
    <2>1. CASE event[r.event].state # "live"
      BY <1>4, <2>1 DEF EventAfter
    <2>2. CASE event[r.event].state = "live"
      <3> DEFINE source == IF r.source # r.old.source THEN r.source ELSE event[r.event].source
                 funding == IF NewFunding(r) # r.old.funding THEN NewFunding(r)
                            ELSE event[r.event].funding
      <3>1. EventAfter(r) = [event[r.event] EXCEPT !.source = source, !.funding = funding]
        BY <1>1, <1>4, <2>2 DEF EventAfter, EventRow
      <3>2. source = r.source
        BY <1>4
      <3> HIDE DEF source, funding
      <3> QED BY <1>1, <1>2, <1>4, <3>1, <3>2
    <2> QED BY <2>1, <2>2
  <1> QED BY <1>3, <1>4

LEMMA FormFresh ==
    ASSUME NEW step \in {"reassign", "read"}, NEW e, NEW create \in BOOLEAN, NEW old, NEW s,
           NEW ask,
           create => event[e].finished = FALSE,
           ~create => old.source = event[e].source /\ old.finished = event[e].finished
    PROVE  Fresh(Form(step, e, create, old, s, ask))
  BY DEF Form, Fresh

\* The form that re_assign_annual_budget saves is the event itself.
LEMMA SameFormSaves ==
    ASSUME IInv, NEW e \in Events
    PROVE  LET r == Loaded(SameForm(e))
           IN  /\ r \in Request /\ r.event = e /\ r.create = FALSE /\ r.old = event[e]
               /\ r.source = event[e].source /\ r.ask = event[e].funding
               /\ r.present <=> Present(r.source)
               /\ r.present => r.seen = item[r.source].available
               /\ ~r.present => r.seen = leftover
  <1>1. SameForm(e) \in Request
    BY SameFormType DEF IInv
  <1>2. Loaded(SameForm(e)) \in Request
    BY <1>1, LoadedType DEF IInv
  <1>3. /\ SameForm(e).event = e /\ SameForm(e).create = FALSE /\ SameForm(e).old = event[e]
        /\ SameForm(e).source = event[e].source /\ SameForm(e).ask = event[e].funding
    BY DEF SameForm, Form
  <1> QED BY <1>1, <1>2, <1>3 DEF Loaded, Request

LEMMA SerialReassign ==
    ASSUME IInv, SerialInv, OneWorker, NEW w \in Workers, Reassign(w)
    PROVE  SerialInv'
  <1> DEFINE e == req[w].event
  <1>1. req[w] \in Request /\ e \in Events /\ Fresh(req[w]) /\ event[e] \in EventRow
    BY DEF Reassign, IInv, TypeOK, Request, SerialInv
  <1>2. PICK r \in Request : r = Loaded(SameForm(e))
    BY <1>1, SameFormSaves
  <1>3. /\ r.event = e /\ r.create = FALSE /\ r.old = event[e] /\ r.source = event[e].source
    BY <1>1, <1>2, SameFormSaves
  <1>4. \/ event' = event
        \/ /\ event[e].state = "live"
           /\ event' = [event EXCEPT ![e] = [EventAfter(r) EXCEPT
                          !.year = budget[BudgetOf[req[w].source]].year]]
    BY <1>2 DEF Reassign
  <1>5. /\ event'[e].finished = event[e].finished /\ event'[e].source = event[e].source
        /\ event'[e].state = event[e].state
        /\ \A d \in Events : d # e => event'[d] = event[d]
    <2>1. CASE event' = event
      BY <2>1
    <2>2. CASE event' # event
      <3>1. EventAfter(r) \in EventRow
        <4>1. r.present => r.source \in Items
          BY <1>1, <1>2, SameFormSaves DEF Present
        <4> QED BY <4>1, AfterType DEF IInv
      <3>2. /\ EventAfter(r).finished = event[e].finished /\ EventAfter(r).state = event[e].state
            /\ EventAfter(r).source = event[e].source
        BY <1>3, <1>4, <2>2, EventAfterKeeps
      <3>3. event \in [Events -> EventRow]
        BY DEF IInv, TypeOK
      <3>4. \A d \in Events : d # e => event'[d] = event[d]
        BY <1>4, <2>2, <3>3
      <3>5. event'[e] = [EventAfter(r) EXCEPT !.year = budget[BudgetOf[req[w].source]].year]
        BY <1>1, <1>4, <2>2, <3>3
      <3> QED BY <3>1, <3>2, <3>4, <3>5 DEF EventRow
    <2> QED BY <2>1, <2>2
  <1>6. Unfinished'
    BY <1>1, <1>5 DEF SerialInv, Unfinished
  <1>7. req'[w] = NoRequest \/ req'[w] = [req[w] EXCEPT !.step = "read"]
    BY DEF Reassign, IInv, TypeOK
  <1>8. ASSUME req'[w] # NoRequest PROVE Fresh(req[w])'
    <2>1. PICK x : x = req'[w] /\ x = [req[w] EXCEPT !.step = "read"]
      BY <1>7, <1>8
    <2>2. /\ x.event = e /\ x.create = req[w].create /\ x.old = req[w].old /\ x.step = "read"
      BY <1>1, <2>1 DEF Request
    <2>3. Fresh(x)'
      BY <1>1, <1>5, <2>2 DEF Fresh
    <2> QED BY <2>1, <2>3
  <1> QED BY <1>6, <1>8 DEF SerialInv, OneWorker

LEMMA SerialStep ==
    ASSUME IInv, SerialInv, OneWorker, [Next]_vars
    PROVE  SerialInv'
  <1> USE DEF SerialInv
  <1>1. CASE Free /\ UNCHANGED req /\ Unfinished'
    <2>1. \A w \in Workers : req'[w] = NoRequest
      BY <1>1 DEF Free, OneWorker
    <2> QED BY <1>1, <2>1
  <1>2. ASSUME NEW b \in Budgets,
               CreateBudget(b) \/ ApproveBudget(b) \/ DeclineBudget(b) \/ DestroyBudget(b)
        PROVE  SerialInv'
    BY <1>1, <1>2 DEF CreateBudget, ApproveBudget, DeclineBudget, DestroyBudget, Unfinished
  <1>3. ASSUME NEW e \in Events, FinishExpenses(e)
        PROVE  SerialInv'
    <2>1. Unfinished'
      BY <1>3 DEF FinishExpenses, Unfinished, IInv, TypeOK, EventRow
    <2> QED BY <1>1, <1>3, <2>1 DEF FinishExpenses
  <1>4. ASSUME NEW e \in Events, DestroyEvent(e)
        PROVE  SerialInv'
    <2>1. Unfinished'
      BY <1>4 DEF DestroyEvent, Unfinished, IInv, TypeOK, BlankEvent
    <2> QED BY <1>1, <1>4, <2>1 DEF DestroyEvent
  <1>5. CASE OpenYear \/ RecomputeLeftover
    BY <1>1, <1>5 DEF OpenYear, RecomputeLeftover, Unfinished
  <1>6. ASSUME NEW w \in Workers, NEW e \in Events,
               LoadCreate(w, e) \/ LoadUpdate(w, e) \/ LoadResave(w, e)
        PROVE  SerialInv'
    <2>1. PICK x : req' = [req EXCEPT ![w] = x] /\ Fresh(x)
      <3>1. CASE LoadCreate(w, e)
        <4>1. event[e].finished = FALSE
          BY <3>1 DEF LoadCreate, Unfinished
        <4> QED BY <3>1, <4>1, FormFresh DEF LoadCreate
      <3>2. CASE LoadUpdate(w, e)
        <4>1. PICK s \in Offered \cup {NoItem, Leftover},
                   ask \in Asked \cup {event[e].funding},
                   step \in {"reassign", "read"} :
                 req' = [req EXCEPT ![w] = Form(step, e, FALSE, event[e], s, ask)]
          BY <3>2 DEF LoadUpdate
        <4>2. Fresh(Form(step, e, FALSE, event[e], s, ask))
          BY FormFresh
        <4> QED BY <4>1, <4>2
      <3>3. CASE LoadResave(w, e)
        BY <3>3, FormFresh DEF LoadResave, SameForm
      <3> QED BY <1>6, <3>1, <3>2, <3>3
    <2>2. UNCHANGED <<budget, item, event>>
      BY <1>6 DEF LoadCreate, LoadUpdate, LoadResave
    <2>3. req'[w] = x
      BY <2>1 DEF IInv, TypeOK
    <2>4. Fresh(x)' /\ Unfinished'
      BY <2>1, <2>2 DEF Fresh, Unfinished, Present, Exists
    <2> QED BY <2>3, <2>4 DEF OneWorker
  <1>7. ASSUME NEW w \in Workers, Reassign(w)
        PROVE  SerialInv'
    BY <1>7, SerialReassign
  <1>8. ASSUME NEW w \in Workers, Read(w)
        PROVE  SerialInv'
    <2>1. req[w] \in Request /\ Fresh(req[w])
      BY <1>8 DEF Read, IInv, TypeOK
    <2>2. PICK x : x = Loaded(req[w]) /\ req'[w] = x
      BY <1>8 DEF Read, IInv, TypeOK
    <2>3. Fresh(x)
      <3>1. /\ x.event = req[w].event /\ x.create = req[w].create /\ x.old = req[w].old
            /\ x.source = req[w].source
        BY <2>1, <2>2 DEF Loaded, Request
      <3>2. x.present <=> Present(x.source)
        BY <2>1, <2>2, <3>1 DEF Loaded, Request
      <3>3. Present(x.source) => x.seen = item[x.source].available
        BY <2>1, <2>2, <3>1 DEF Loaded, Request
      <3>4. Present(x.source) => x.seenDone = item[x.source].done
        <4>1. Present(x.source) => item[x.source].done \in BOOLEAN
          BY DEF Present, IInv, TypeOK, ItemRow
        <4> QED BY <2>1, <2>2, <3>1, <4>1 DEF Loaded, Request
      <3> QED BY <2>1, <3>1, <3>2, <3>3, <3>4 DEF Fresh
    <2>4. Fresh(x)' /\ Unfinished'
      BY <1>8, <2>3 DEF Read, Fresh, Unfinished, Present, Exists
    <2> QED BY <2>2, <2>4 DEF OneWorker
  <1>9. ASSUME NEW w \in Workers, Commit(w)
        PROVE  SerialInv'
    <2>1. PICK r \in Request : r = req[w] /\ Fresh(r)
      BY <1>9 DEF Commit, IInv, TypeOK
    <2>2. /\ r.create => EventAfter(r).state = "live"
          /\ ~r.create => /\ EventAfter(r).finished = event[r.event].finished
                          /\ EventAfter(r).state = event[r.event].state
      BY <2>1, EventAfterKeeps DEF Fresh
    <2>3. Unfinished'
      BY <1>9, <2>1, <2>2 DEF Commit, Unfinished, Request, IInv, TypeOK
    <2>4. \A v \in Workers : req'[v] = NoRequest
      BY <1>9 DEF Commit, OneWorker, IInv, TypeOK
    <2> QED BY <2>3, <2>4
  <1>10. ASSUME NEW w \in Workers, Refuse(w)
        PROVE  SerialInv'
    <2>1. \A v \in Workers : req'[v] = NoRequest
      BY <1>10 DEF Refuse, OneWorker, IInv, TypeOK
    <2> QED BY <1>10, <2>1 DEF Refuse, Unfinished
  <1>11. CASE UNCHANGED vars
    BY <1>11 DEF vars, Unfinished, Fresh, Present, Exists
  <1> QED BY <1>2, <1>3, <1>4, <1>5, <1>6, <1>7, <1>8, <1>9, <1>10, <1>11 DEF Next


-----------------------------------------------------------------------------
(* A finished event keeps its item and its money.                          *)

\* A save of an event whose expenses are finished finds no item to take from.
LEMMA FinishedSaves ==
    ASSUME IInv, NEW r \in Request, Saves(r), ~r.create,
           r.old.finished = TRUE, r.old.source = event[r.event].source,
           r.present <=> Present(r.source),
           event[r.event].state = "live"
    PROVE  EventAfter(r).source = r.source /\ ~Present(r.source)
  BY EventAfterKeeps DEF Saves

KeepsItem(e) ==
    event[e].finished /\ event'[e].state = "live" /\ event'[e].source \in Items
    /\ Exists(BudgetOf[event'[e].source])
      => /\ event'[e].source = event[e].source
         /\ event'[e].funding = event[e].funding

LEMMA KeepsItemStep ==
    ASSUME IInv, SerialInv, [Next]_vars, NEW e \in Events
    PROVE  KeepsItem(e)
  <1>1. CASE event'[e] = event[e]
    BY <1>1 DEF KeepsItem
  <1>2. ASSUME NEW w \in Workers, Commit(w), req[w].event = e
        PROVE  KeepsItem(e)
    <2>1. PICK r \in Request : r = req[w] /\ Fresh(r)
      BY <1>2 DEF Commit, IInv, TypeOK, SerialInv
    <2>2. event'[e] = EventAfter(r) /\ r.event = e /\ r.step = "write" /\ Saves(r)
      BY <1>2, <2>1 DEF Commit, IInv, TypeOK
    <2>3. event[e] \in EventRow /\ r.old \in EventRow
      BY DEF IInv, TypeOK, Request
    <2>4. CASE event[e].finished = FALSE \/ event'[e].state # "live"
      BY <2>4 DEF KeepsItem
    <2>5. CASE event[e].finished = TRUE /\ event'[e].state = "live"
      <3>1. ~r.create /\ r.old.finished = TRUE /\ r.old.source = event[e].source
        BY <2>1, <2>2, <2>5 DEF Fresh
      <3>2. event[e].state = "live"
        BY <2>1, <2>2, <2>5, <3>1, EventAfterKeeps DEF Fresh
      <3>3. r.present <=> Present(r.source)
        BY <2>1, <2>2 DEF Fresh
      <3>4. event'[e].source = r.source /\ ~Present(r.source)
        BY <2>2, <3>1, <3>2, <3>3, FinishedSaves
      <3>5. UNCHANGED budget
        BY <1>2 DEF Commit
      <3> QED BY <3>4 DEF KeepsItem, Present
    <2> QED BY <2>3, <2>4, <2>5 DEF EventRow
  <1>3. ASSUME NEW w \in Workers, Reassign(w), req[w].event = e
        PROVE  KeepsItem(e)
    <2>1. PICK r \in Request : r = Loaded(SameForm(e))
      BY SameFormSaves
    <2>2. /\ r.event = e /\ r.create = FALSE /\ r.old = event[e] /\ r.source = event[e].source
          /\ r.present <=> Present(r.source)
      BY <2>1, SameFormSaves
    <2>3. CASE event' = event
      BY <2>3 DEF KeepsItem
    <2>4. CASE event' # event
      <3>1. /\ event[e].state = "live" /\ Saves(r)
            /\ event' = [event EXCEPT ![e] = [EventAfter(r) EXCEPT
                           !.year = budget[BudgetOf[req[w].source]].year]]
        BY <1>3, <2>1, <2>4 DEF Reassign
      <3>2. EventAfter(r) \in EventRow
        BY <2>2, AfterType DEF IInv, Present
      <3>3. event'[e].source = EventAfter(r).source
        BY <3>1, <3>2 DEF IInv, TypeOK, EventRow
      <3>4. CASE event[e].finished = TRUE
        <4>1. event'[e].source = r.source /\ ~Present(r.source)
          BY <2>2, <3>1, <3>3, <3>4, FinishedSaves
        <4> QED BY <1>3, <4>1 DEF KeepsItem, Present, Reassign
      <3>5. CASE event[e].finished = FALSE
        BY <3>5 DEF KeepsItem
      <3> QED BY <3>4, <3>5 DEF IInv, TypeOK, EventRow
    <2> QED BY <2>3, <2>4
  <1>4. ASSUME FinishExpenses(e) PROVE KeepsItem(e)
    BY <1>4 DEF FinishExpenses, KeepsItem
  <1>5. ASSUME DestroyEvent(e) PROVE KeepsItem(e)
    <2>1. event'[e].state = "deleted"
      BY <1>5 DEF DestroyEvent, BlankEvent, IInv, TypeOK
    <2> QED BY <2>1 DEF KeepsItem
  <1>6. \/ event'[e] = event[e]
        \/ \E w \in Workers : (Commit(w) \/ Reassign(w)) /\ req[w].event = e
        \/ FinishExpenses(e) \/ DestroyEvent(e)
    <2>1. ASSUME NEW w \in Workers, Commit(w) \/ Reassign(w), req[w].event # e
          PROVE  event'[e] = event[e]
      BY <2>1 DEF Commit, Reassign, IInv, TypeOK
    <2>2. ASSUME NEW d \in Events, FinishExpenses(d) \/ DestroyEvent(d), d # e
          PROVE  event'[e] = event[e]
      BY <2>2 DEF FinishExpenses, DestroyEvent, IInv, TypeOK
    <2>3. \/ UNCHANGED event
          \/ \E w \in Workers : Commit(w) \/ Reassign(w)
          \/ \E d \in Events : FinishExpenses(d) \/ DestroyEvent(d)
      BY DEF Next, vars, CreateBudget, ApproveBudget, DeclineBudget, DestroyBudget,
             LoadCreate, LoadUpdate, LoadResave, Read, Refuse, OpenYear, RecomputeLeftover
    <2> QED BY <2>1, <2>2, <2>3
  <1> QED BY <1>1, <1>2, <1>3, <1>4, <1>5, <1>6

\* When requests are served one after the other, whatever they are, an event
\* whose expenses are finished ends up neither with another item that is there
\* nor with another amount: allocate_budget_funds halts its save.
THEOREM FinishedEventsKeep == OneWorker /\ Spec => FinishedEventKeepsItem
  <1> SUFFICES ASSUME OneWorker PROVE Spec => FinishedEventKeepsItem
    OBVIOUS
  <1>1. SerialInv /\ IInv /\ [Next]_vars => SerialInv'
    BY SerialStep
  <1>2. IInv /\ SerialInv /\ [Next]_vars =>
          [\A e \in Events :
             event[e].finished /\ event'[e].state = "live" /\ event'[e].source \in Items
             /\ Exists(BudgetOf[event'[e].source])
                => /\ event'[e].source = event[e].source
                   /\ event'[e].funding = event[e].funding]_vars
    BY KeepsItemStep DEF KeepsItem
  <1> QED
    BY <1>1, <1>2, InitIInv, NextIInv, InitSerial, PTL DEF Spec, FinishedEventKeepsItem

-----------------------------------------------------------------------------
(* Sums over finite sets.                                                  *)

Pick(S) == CHOOSE x \in S : TRUE

\* partial is the recursion of SumFunctionOnSet on the sets of a domain.
Sums(g, partial, domain) ==
    partial = [s \in domain |-> IF s = {} THEN 0 ELSE g[Pick(s)] + partial[s \ {Pick(s)}]]

LEMMA LeastNumber ==
    ASSUME NEW T \in SUBSET Nat, T # {}
    PROVE  \E x \in T : \A y \in T : x <= y
  <1>1. PICK x \in T : \A y \in T : ~(<<y, x>> \in OpToRel(<, Nat))
    BY NatLessThanWellFounded, WFMin
  <1>2. ASSUME NEW y \in T PROVE x <= y
    <2>1. x \in Nat /\ y \in Nat /\ ~(y < x)
      BY <1>1, Zenon DEF OpToRel
    <2> QED BY <2>1
  <1> QED BY <1>2

LEMMA WithoutPick ==
    ASSUME NEW S, IsFiniteSet(S), S # {}
    PROVE  /\ Pick(S) \in S /\ IsFiniteSet(S \ {Pick(S)})
           /\ Cardinality(S) \in Nat /\ Cardinality(S) > 0
           /\ Cardinality(S \ {Pick(S)}) = Cardinality(S) - 1
  <1>1. Pick(S) \in S
    BY DEF Pick
  <1>2. Cardinality(S) \in Nat /\ Cardinality(S) # 0
    BY FS_CardinalityType, FS_EmptySet
  <1> QED BY <1>1, <1>2, FS_RemoveElement

\* The recursion has a solution: one on the sets with up to n elements extends
\* to those with n + 1.
LEMMA SumUnfolds ==
    ASSUME NEW g, NEW S, IsFiniteSet(S)
    PROVE  \E partial : Sums(g, partial, SUBSET S) /\ SumFunctionOnSet(g, S) = partial[S]
  <1> DEFINE Small(n) == {s \in SUBSET S : Cardinality(s) <= n}
             T == {n \in Nat : ~\E f : Sums(g, f, Small(n))}
  <1>1. \A s \in SUBSET S : IsFiniteSet(s) /\ Cardinality(s) \in Nat
                            /\ Cardinality(s) <= Cardinality(S)
    BY FS_Subset, FS_CardinalityType
  <1>2. ASSUME T # {} PROVE FALSE
    <2>1. PICK n \in T : \A k \in T : n <= k
      <3>1. T \in SUBSET Nat
        OBVIOUS
      <3> HIDE DEF T
      <3> QED BY <3>1, <1>2, LeastNumber
    <2>2. CASE n = 0
      <3>1. \A s \in Small(0) : s = {}
        BY <1>1, FS_EmptySet
      <3>2. Sums(g, [s \in Small(0) |-> 0], Small(0))
        BY <3>1 DEF Sums
      <3> QED BY <2>1, <2>2, <3>2
    <2>3. CASE n # 0
      <3>1. n - 1 \in Nat /\ n - 1 \notin T
        <4>1. T \subseteq Nat
          OBVIOUS
        <4> HIDE DEF T
        <4> QED BY <4>1, <2>1, <2>3
      <3>2. PICK f : Sums(g, f, Small(n - 1))
        BY <3>1
      <3> DEFINE h == [s \in Small(n) |-> IF s = {} THEN 0 ELSE g[Pick(s)] + f[s \ {Pick(s)}]]
      <3>3. \A s \in Small(n - 1) : s \in Small(n) /\ h[s] = f[s]
        <4>1. \A s \in Small(n - 1) : s \in Small(n)
          BY <1>1, <3>1, <2>1
        <4>2. ASSUME NEW s \in Small(n - 1) PROVE h[s] = f[s]
          <5>1. f[s] = IF s = {} THEN 0 ELSE g[Pick(s)] + f[s \ {Pick(s)}]
            BY <3>2 DEF Sums
          <5>2. h[s] = IF s = {} THEN 0 ELSE g[Pick(s)] + f[s \ {Pick(s)}]
            BY <4>1
          <5> QED BY <5>1, <5>2
        <4> QED BY <4>1, <4>2
      <3>4. \A s \in Small(n) : s # {} => s \ {Pick(s)} \in Small(n - 1)
        BY <1>1, <2>1, WithoutPick
      <3> HIDE DEF Small
      <3>5. h = [s \in Small(n) |-> IF s = {} THEN 0 ELSE g[Pick(s)] + h[s \ {Pick(s)}]]
        BY <3>3, <3>4
      <3> HIDE DEF h
      <3>6. Sums(g, h, Small(n))
        BY <3>5 DEF Sums
      <3> QED BY <2>1, <3>6
    <2> QED BY <2>2, <2>3
  <1>3. Small(Cardinality(S)) = SUBSET S
    BY <1>1
  <1>4. \E f : Sums(g, f, SUBSET S)
    <2>1. Cardinality(S) \in Nat /\ Cardinality(S) \notin T
      BY <1>1, <1>2
    <2> QED BY <1>3, <2>1
  <1>5. PICK partial : /\ partial = CHOOSE f : Sums(g, f, SUBSET S)
                       /\ Sums(g, partial, SUBSET S)
    BY <1>4
  <1>6. SumFunctionOnSet(g, S) = (CHOOSE f : Sums(g, f, SUBSET S))[S]
    BY DEF SumFunctionOnSet, FoldFunctionOnSet, MapThenFoldSet, Sums, Pick
  <1> QED BY <1>5, <1>6

\* No set of finite sets is without a least one.
LEMMA LeastSubset ==
    ASSUME NEW S, IsFiniteSet(S), NEW T \in SUBSET (SUBSET S), T # {}
    PROVE  \E m \in T : /\ IsFiniteSet(m) /\ \A x \in m : m \ {x} \notin T
  <1> DEFINE Sizes == {Cardinality(s) : s \in T}
  <1>1. \A s \in T : IsFiniteSet(s) /\ Cardinality(s) \in Nat
    BY FS_Subset, FS_CardinalityType
  <1>2. Sizes \in SUBSET Nat /\ Sizes # {}
    BY <1>1
  <1> HIDE DEF Sizes
  <1>3. PICK n \in Sizes : \A k \in Sizes : n <= k
    BY <1>2, LeastNumber
  <1>4. PICK m \in T : n = Cardinality(m)
    BY <1>3 DEF Sizes
  <1>5. ASSUME NEW x \in m PROVE m \ {x} \notin T
    <2>1. Cardinality(m \ {x}) = Cardinality(m) - 1
      BY <1>1, <1>4, FS_RemoveElement
    <2>2. m \ {x} \in T => n <= n - 1 /\ n \in Nat
      BY <1>1, <1>3, <1>4, <2>1 DEF Sizes
    <2> QED BY <2>2
  <1> QED BY <1>1, <1>5

\* The recursion has one solution only.
LEMMA SumsAgree ==
    ASSUME NEW g, NEW S, IsFiniteSet(S), NEW R \in SUBSET S, NEW p, NEW q,
           Sums(g, p, SUBSET S), Sums(g, q, SUBSET R)
    PROVE  p[R] = q[R]
  <1> DEFINE T == {s \in SUBSET R : p[s] # q[s]}
  <1>1. ASSUME NEW s \in SUBSET R
        PROVE  /\ p[s] = IF s = {} THEN 0 ELSE g[Pick(s)] + p[s \ {Pick(s)}]
               /\ q[s] = IF s = {} THEN 0 ELSE g[Pick(s)] + q[s \ {Pick(s)}]
    BY DEF Sums
  <1>2. T = {}
    <2> SUFFICES ASSUME T # {} PROVE FALSE
      OBVIOUS
    <2>1. T \in SUBSET (SUBSET R) /\ IsFiniteSet(R)
      BY FS_Subset
    <2>2. PICK m \in T : \A x \in m : m \ {x} \notin T
      <3> HIDE DEF T
      <3> QED BY <2>1, LeastSubset
    <2>3. m # {}
      BY <1>1, <2>2
    <2>4. Pick(m) \in m
      BY <2>3 DEF Pick
    <2>5. p[m \ {Pick(m)}] = q[m \ {Pick(m)}]
      BY <2>2, <2>4
    <2> QED BY <1>1, <2>2, <2>3, <2>5
  <1> QED BY <1>2

LEMMA SumNone == ASSUME NEW g PROVE SumFunctionOnSet(g, {}) = 0
  <1>1. PICK partial : Sums(g, partial, SUBSET {}) /\ SumFunctionOnSet(g, {}) = partial[{}]
    BY SumUnfolds, FS_EmptySet
  <1> QED BY <1>1 DEF Sums

LEMMA SumPicks ==
    ASSUME NEW g, NEW S, IsFiniteSet(S), S # {}
    PROVE  SumFunctionOnSet(g, S) = g[Pick(S)] + SumFunctionOnSet(g, S \ {Pick(S)})
  <1> DEFINE R == S \ {Pick(S)}
  <1>1. R \in SUBSET S /\ IsFiniteSet(R)
    BY WithoutPick
  <1>2. PICK p : Sums(g, p, SUBSET S) /\ SumFunctionOnSet(g, S) = p[S]
    BY SumUnfolds
  <1>3. PICK q : Sums(g, q, SUBSET R) /\ SumFunctionOnSet(g, R) = q[R]
    BY <1>1, SumUnfolds
  <1>4. p[S] = g[Pick(S)] + p[R]
    BY <1>2 DEF Sums
  <1>5. p[R] = q[R]
    <2>1. Sums(g, p, SUBSET S) /\ Sums(g, q, SUBSET R)
      BY <1>2, <1>3
    <2> HIDE DEF R
    <2> QED BY <1>1, <2>1, SumsAgree
  <1>6. SumFunctionOnSet(g, S) = g[Pick(S)] + SumFunctionOnSet(g, R)
    <2> HIDE DEF R
    <2> QED BY <1>2, <1>3, <1>4, <1>5
  <1> QED BY <1>6

LEMMA SumType ==
    ASSUME NEW g, NEW S, IsFiniteSet(S), \A x \in S : g[x] \in Int
    PROVE  SumFunctionOnSet(g, S) \in Int
  <1> DEFINE T == {s \in SUBSET S : SumFunctionOnSet(g, s) \notin Int}
  <1>1. T = {}
    <2> SUFFICES ASSUME T # {} PROVE FALSE
      OBVIOUS
    <2>1. T \in SUBSET (SUBSET S)
      OBVIOUS
    <2>2. PICK m \in T : IsFiniteSet(m) /\ \A x \in m : m \ {x} \notin T
      <3> HIDE DEF T
      <3> QED BY <2>1, LeastSubset
    <2>3. m # {}
      BY <2>2, SumNone
    <2>4. Pick(m) \in m /\ Pick(m) \in S
      BY <2>2, <2>3, WithoutPick
    <2>5. SumFunctionOnSet(g, m \ {Pick(m)}) \in Int
      BY <2>2, <2>4
    <2>6. SumFunctionOnSet(g, m) = g[Pick(m)] + SumFunctionOnSet(g, m \ {Pick(m)})
      BY <2>2, <2>3, SumPicks
    <2> QED BY <2>2, <2>4, <2>5, <2>6
  <1> QED BY <1>1

\* A sum does not depend on the order: any element may be taken first.
LEMMA SumTakes ==
    ASSUME NEW g, NEW S, IsFiniteSet(S), \A x \in S : g[x] \in Int, NEW e \in S
    PROVE  SumFunctionOnSet(g, S) = g[e] + SumFunctionOnSet(g, S \ {e})
  <1> DEFINE Takes(s, x) == SumFunctionOnSet(g, s) = g[x] + SumFunctionOnSet(g, s \ {x})
             T == {s \in SUBSET S : \E x \in s : ~Takes(s, x)}
  <1>1. T = {}
    <2> SUFFICES ASSUME T # {} PROVE FALSE
      OBVIOUS
    <2>1. T \in SUBSET (SUBSET S)
      OBVIOUS
    <2>2. PICK m \in T : IsFiniteSet(m) /\ \A x \in m : m \ {x} \notin T
      <3> HIDE DEF T
      <3> QED BY <2>1, LeastSubset
    <2>3. PICK x \in m : ~Takes(m, x)
      BY <2>2
    <2> DEFINE y == Pick(m)
    <2>4. y \in m /\ Takes(m, y)
      BY <2>2, <2>3, WithoutPick, SumPicks
    <2> HIDE DEF y
    <2>5. x # y
      BY <2>3, <2>4
    <2>6. \A z \in m : \A w \in m \ {z} : Takes(m \ {z}, w)
      BY <2>2
    <2>7. Takes(m \ {y}, x) /\ Takes(m \ {x}, y)
      BY <2>3, <2>4, <2>5, <2>6
    <2>8. (m \ {y}) \ {x} = (m \ {x}) \ {y}
      OBVIOUS
    <2>9. SumFunctionOnSet(g, (m \ {x}) \ {y}) \in Int
      <3>1. IsFiniteSet((m \ {x}) \ {y}) /\ \A z \in (m \ {x}) \ {y} : g[z] \in Int
        BY <2>2, FS_RemoveElement
      <3> QED BY <3>1, SumType
    <2>10. g[x] \in Int /\ g[y] \in Int
      BY <2>2, <2>3, <2>4
    <2> QED BY <2>3, <2>4, <2>7, <2>8, <2>9, <2>10
  <1>2. S \notin T
    BY <1>1
  <1> QED BY <1>2

LEMMA SumSame ==
    ASSUME NEW g, NEW h, NEW S, IsFiniteSet(S), \A x \in S : g[x] = h[x]
    PROVE  SumFunctionOnSet(g, S) = SumFunctionOnSet(h, S)
  <1> DEFINE T == {s \in SUBSET S : SumFunctionOnSet(g, s) # SumFunctionOnSet(h, s)}
  <1>1. T = {}
    <2> SUFFICES ASSUME T # {} PROVE FALSE
      OBVIOUS
    <2>1. T \in SUBSET (SUBSET S)
      OBVIOUS
    <2>2. PICK m \in T : IsFiniteSet(m) /\ \A x \in m : m \ {x} \notin T
      <3> HIDE DEF T
      <3> QED BY <2>1, LeastSubset
    <2>3. m # {}
      BY <2>2, SumNone
    <2>4. Pick(m) \in m /\ Pick(m) \in S
      BY <2>2, <2>3, WithoutPick
    <2>5. SumFunctionOnSet(g, m \ {Pick(m)}) = SumFunctionOnSet(h, m \ {Pick(m)})
      BY <2>2, <2>4
    <2>6. /\ SumFunctionOnSet(g, m) = g[Pick(m)] + SumFunctionOnSet(g, m \ {Pick(m)})
          /\ SumFunctionOnSet(h, m) = h[Pick(m)] + SumFunctionOnSet(h, m \ {Pick(m)})
      BY <2>2, <2>3, SumPicks
    <2> QED BY <2>2, <2>4, <2>5, <2>6
  <1> QED BY <1>1

-----------------------------------------------------------------------------
(* What the events of an item hold, and requests that type no negative     *)
(* amount.                                                                  *)

\* Two sums whose functions and sets differ in one event only.
LEMMA SumChanges ==
    ASSUME NEW S, IsFiniteSet(S), NEW A \in SUBSET S, NEW B \in SUBSET S,
           NEW e \in S, A \ {e} = B \ {e},
           NEW g \in [S -> Int], NEW h \in [S -> Int],
           \A x \in S \ {e} : g[x] = h[x]
    PROVE  /\ SumFunctionOnSet(g, A) \in Int /\ SumFunctionOnSet(h, B) \in Int
           /\ SumFunctionOnSet(h, B) = SumFunctionOnSet(g, A)
                 + (IF e \in B THEN h[e] ELSE 0) - (IF e \in A THEN g[e] ELSE 0)
  <1> DEFINE R == A \ {e}
  <1>1. IsFiniteSet(A) /\ IsFiniteSet(B) /\ IsFiniteSet(R) /\ R \in SUBSET S
    BY FS_Subset
  <1>2. SumFunctionOnSet(g, R) \in Int /\ SumFunctionOnSet(h, R) \in Int
    BY <1>1, SumType
  <1>3. SumFunctionOnSet(g, R) = SumFunctionOnSet(h, R)
    BY <1>1, SumSame
  <1>4. SumFunctionOnSet(g, A) = (IF e \in A THEN g[e] ELSE 0) + SumFunctionOnSet(g, R)
    <2>1. CASE e \in A
      BY <1>1, <2>1, SumTakes
    <2>2. CASE e \notin A
      <3>1. SumFunctionOnSet(g, A) = SumFunctionOnSet(g, R)
        <4>1. A = R
          BY <2>2
        <4> QED BY <4>1
      <3> HIDE DEF R
      <3> QED BY <1>2, <2>2, <3>1
    <2> QED BY <2>1, <2>2
  <1>5. SumFunctionOnSet(h, B) = (IF e \in B THEN h[e] ELSE 0) + SumFunctionOnSet(h, R)
    <2>1. CASE e \in B
      <3>1. SumFunctionOnSet(h, B) = h[e] + SumFunctionOnSet(h, B \ {e})
        BY <1>1, <2>1, SumTakes
      <3> QED BY <2>1, <3>1
    <2>2. CASE e \notin B
      <3>1. SumFunctionOnSet(h, B) = SumFunctionOnSet(h, R)
        <4>1. B = R
          BY <2>2
        <4> QED BY <4>1
      <3> HIDE DEF R
      <3> QED BY <1>2, <2>2, <3>1
    <2> QED BY <2>1, <2>2
  <1> HIDE DEF R
  <1> QED BY <1>2, <1>3, <1>4, <1>5

\* What event x holds of item i.
Holds(x, i) == IF event[x].state = "live" /\ event[x].source = i
               THEN event[x].funding ELSE 0

LEMMA CommittedType ==
    ASSUME TypeOK, NEW i
    PROVE  Committed(i) \in Int
  <1>1. IsFiniteSet(LiveEventsOf(i))
    BY FiniteAssumption, FS_Subset DEF LiveEventsOf
  <1>2. \A x \in LiveEventsOf(i) : [e \in Events |-> event[e].funding][x] \in Int
    BY DEF LiveEventsOf, TypeOK, EventRow
  <1> QED BY <1>1, <1>2, SumType DEF Committed

\* When one event changes, what the events of an item hold changes by as much.
LEMMA OneEventChanges ==
    ASSUME TypeOK, TypeOK', NEW e \in Events, NEW i,
           \A x \in Events \ {e} : event'[x] = event[x]
    PROVE  Committed(i)' = Committed(i) + Holds(e, i)' - Holds(e, i)
  <1> DEFINE g == [x \in Events |-> event[x].funding]
             h == [x \in Events |-> event'[x].funding]
             A == LiveEventsOf(i)
             B == LiveEventsOf(i)'
  <1>1. A \in SUBSET Events /\ B \in SUBSET Events /\ A \ {e} = B \ {e}
    BY DEF LiveEventsOf
  <1>2. g \in [Events -> Int] /\ h \in [Events -> Int] /\ \A x \in Events \ {e} : g[x] = h[x]
    BY DEF TypeOK, EventRow
  <1>3. Holds(e, i) = IF e \in A THEN g[e] ELSE 0
    BY DEF Holds, LiveEventsOf
  <1>4. Holds(e, i)' = IF e \in B THEN h[e] ELSE 0
    BY DEF Holds, LiveEventsOf
  <1>5. Committed(i) = SumFunctionOnSet(g, A) /\ Committed(i)' = SumFunctionOnSet(h, B)
    BY DEF Committed
  <1> HIDE DEF g, h, A, B
  <1>6. /\ SumFunctionOnSet(g, A) \in Int /\ SumFunctionOnSet(h, B) \in Int
        /\ SumFunctionOnSet(h, B) = SumFunctionOnSet(g, A)
              + (IF e \in B THEN h[e] ELSE 0) - (IF e \in A THEN g[e] ELSE 0)
    BY <1>1, <1>2, FiniteAssumption, SumChanges
  <1> QED BY <1>3, <1>4, <1>5, <1>6

LEMMA NoEventChanges ==
    ASSUME TypeOK, TypeOK', NEW i,
           \A x \in Events : /\ event'[x].state = event[x].state
                             /\ event'[x].source = event[x].source
                             /\ event'[x].funding = event[x].funding
    PROVE  Committed(i)' = Committed(i)
  <1>1. LiveEventsOf(i)' = LiveEventsOf(i)
    BY DEF LiveEventsOf
  <1>2. [x \in Events |-> event'[x].funding] = [x \in Events |-> event[x].funding]
    OBVIOUS
  <1> QED BY <1>1, <1>2 DEF Committed

LEMMA NobodyHolds ==
    ASSUME NEW i, \A x \in Events : event[x].source # i
    PROVE  Committed(i) = 0
  <1>1. LiveEventsOf(i) = {}
    BY DEF LiveEventsOf
  <1> QED BY <1>1, SumNone DEF Committed

\* Serialised requests that type no negative amount: nothing is negative, an
\* event's item has been requested, and an approved item that is not used up
\* has money unless nothing was requested.
AmountsOK ==
    /\ leftover >= 0
    /\ \A e \in Events : /\ event[e].funding >= 0
                         /\ event[e].source \in Items =>
                               budget[BudgetOf[event[e].source]].status # "absent"

MoneyLeft ==
    \A i \in Items : budget[BudgetOf[i]].status = "approved" /\ item[i].done = FALSE =>
        item[i].available > 0 \/ item[i].estimated = 0

\* What a request holds: its event has not gained funding since the form was
\* read, unless the form shows none, and another item has money to give.
Honest(r) ==
    /\ r.ask >= 0 /\ r.seen >= 0
    /\ r.source \in Items => budget[BudgetOf[r.source]].status # "absent"
    /\ r.create => event[r.event].state = "new"
    /\ ~r.create => r.old.funding = 0 \/ event[r.event].funding <= r.old.funding
    /\ r.step = "reassign" => ~r.create /\ r.old.funding = event[r.event].funding
    /\ r.source \in Items /\ r.source # r.old.source =>
          \/ item[r.source].done = FALSE /\ item[r.source].available > 0
          \/ item[r.source].estimated = 0

MoneyInv ==
    /\ AmountsOK
    /\ MoneyLeft
    /\ \A w \in Workers : req[w] # NoRequest => Honest(req[w])

\* An event takes from an item what the item loses, all of it or some, and
\* something whenever there is something.
LEMMA SavedItemTakes ==
    ASSUME NEW row \in ItemRow, 0 <= row.available, row.available <= row.estimated,
           NEW ask \in Nat
    PROVE  LET spendable == IF row.done THEN 0 ELSE row.available
               got == Granted(ask, spendable)
               new == SavedItem(row, row.available, row.done, ask)
           IN  /\ got \in Nat /\ (got = 0 => spendable = 0)
               /\ new.estimated = row.estimated
               /\ (IF new.done THEN 0 ELSE new.available) = spendable - got
               /\ new.done = FALSE => new.available > 0
  <1> DEFINE spendable == IF row.done THEN 0 ELSE row.available
             got == Granted(ask, spendable)
             left == spendable - got
             new == SavedItem(row, row.available, row.done, ask)
  <1>1. new = [row EXCEPT !.available = IF left # row.available THEN left ELSE @,
                          !.done = IF TakesAll(ask, spendable) THEN TRUE ELSE @]
    BY DEF SavedItem, Left
  <1>2. /\ row.available \in Nat /\ row.estimated \in Nat /\ row.done \in BOOLEAN
    BY DEF ItemRow
  <1>3. /\ spendable \in Nat /\ got \in Nat /\ left \in Nat /\ left <= row.available
        /\ got = 0 => spendable = 0
        /\ TakesAll(ask, spendable) => left = 0
        /\ ~TakesAll(ask, spendable) => row.done = FALSE /\ left > 0
        /\ spendable = left + got
    BY <1>2 DEF Granted, TakesAll
  <1> HIDE DEF new, left, got, spendable
  <1>4. CASE TakesAll(ask, spendable)
    <2>1. new = [row EXCEPT !.available = IF left # row.available THEN left ELSE @, !.done = TRUE]
      BY <1>1, <1>2, <1>3, <1>4
    <2>2. new.done = TRUE /\ new.estimated = row.estimated
      BY <2>1 DEF ItemRow
    <2>3. (IF new.done THEN 0 ELSE new.available) = spendable - got
      BY <1>3, <1>4, <2>2
    <2> QED BY <1>3, <2>2, <2>3 DEF got, spendable, new
  <1>5. CASE ~TakesAll(ask, spendable)
    <2>1. new = [row EXCEPT !.available = IF left # row.available THEN left ELSE @, !.done = @]
      BY <1>1, <1>2, <1>3, <1>5
    <2>2. new.done = row.done /\ new.estimated = row.estimated /\ new.available = left
      BY <1>2, <2>1 DEF ItemRow
    <2>3. (IF new.done THEN 0 ELSE new.available) = spendable - got
      BY <1>3, <1>5, <2>2
    <2> QED BY <1>3, <1>5, <2>2, <2>3 DEF got, spendable, new
  <1> QED BY <1>4, <1>5

\* A save grants no negative amount, and no more than a request that names one
\* asks for; nor is the leftover overdrawn.
LEMMA NewFundingWithin ==
    ASSUME IInv, NEW r \in Request, r.ask >= 0, r.seen >= 0, leftover >= 0
    PROVE  /\ NewFunding(r) \in Nat
           /\ r.ask > 0 => NewFunding(r) <= r.ask
           /\ LeftoverAfter(r) >= 0
  <1>1. r.ask \in Nat /\ r.seen \in Nat /\ leftover \in Nat
    BY DEF Request, IInv, TypeOK
  <1>2. LeftoverAfter(r) >= 0
    BY <1>1 DEF LeftoverAfter
  <1>3. ASSUME NEW spendable \in Nat
        PROVE  Granted(r.ask, spendable) \in Nat
               /\ (r.ask > 0 => Granted(r.ask, spendable) <= r.ask)
    BY <1>1 DEF Granted, TakesAll
  <1>4. PICK spendable \in Nat : spendable = IF r.seenDone THEN 0 ELSE r.seen
    BY <1>1
  <1>5. CASE r.present
    <2>1. NewFunding(r) = Granted(r.ask, spendable)
      BY <1>4, <1>5 DEF NewFunding
    <2> QED BY <1>2, <1>3, <2>1
  <1>6. CASE ~r.present
    <2>1. NewFunding(r) = IF r.source = Leftover
                          THEN (IF r.ask >= r.seen THEN r.seen ELSE r.ask) ELSE 0
      BY <1>6 DEF NewFunding
    <2> QED BY <1>1, <1>2, <2>1
  <1> QED BY <1>2, <1>5, <1>6

\* What a save writes to its event.
LEMMA EventAfterMoney ==
    ASSUME IInv, NEW r \in Request,
           ~r.create => r.old.source = event[r.event].source
    PROVE  /\ r.create => /\ EventAfter(r).source = r.source
                          /\ EventAfter(r).funding = NewFunding(r)
           /\ ~r.create /\ event[r.event].state # "live" =>
                 EventAfter(r) = event[r.event]
           /\ ~r.create /\ event[r.event].state = "live" =>
                 /\ EventAfter(r).source = r.source
                 /\ EventAfter(r).funding = IF NewFunding(r) # r.old.funding
                                            THEN NewFunding(r) ELSE event[r.event].funding
  <1>1. event[r.event] \in EventRow /\ r.old \in EventRow
    BY DEF IInv, TypeOK, Request
  <1>2. CASE r.create
    BY <1>1, <1>2 DEF EventAfter, EventRow
  <1>3. CASE ~r.create /\ event[r.event].state # "live"
    BY <1>3 DEF EventAfter
  <1>4. CASE ~r.create /\ event[r.event].state = "live"
    <2> DEFINE source == IF r.source # r.old.source THEN r.source ELSE event[r.event].source
               funding == IF NewFunding(r) # r.old.funding THEN NewFunding(r)
                          ELSE event[r.event].funding
    <2>1. EventAfter(r) = [event[r.event] EXCEPT !.source = source, !.funding = funding]
      BY <1>1, <1>4 DEF EventAfter, EventRow
    <2>2. source = r.source
      BY <1>4
    <2> HIDE DEF source
    <2>3. EventAfter(r).source = r.source /\ EventAfter(r).funding = funding
      BY <1>1, <2>1, <2>2 DEF EventRow
    <2> QED BY <1>4, <2>3
  <1> QED BY <1>2, <1>3, <1>4

\* The form that re_assign_annual_budget saves is as good as any.
LEMMA SameFormHonest ==
    ASSUME IInv, AmountsOK, NEW e \in Events
    PROVE  /\ Fresh(Loaded(SameForm(e))) /\ Honest(Loaded(SameForm(e)))
           /\ Loaded(SameForm(e)).step = "write"
  <1>1. PICK r \in Request : r = Loaded(SameForm(e))
    BY SameFormSaves
  <1>2. /\ r.event = e /\ r.create = FALSE /\ r.old = event[e]
        /\ r.source = event[e].source /\ r.ask = event[e].funding
        /\ r.present <=> Present(r.source)
        /\ r.present => r.seen = item[r.source].available
        /\ ~r.present => r.seen = leftover
    BY <1>1, SameFormSaves
  <1>3. r.step = "write"
    BY <1>1, SameFormType DEF Loaded, Request, IInv
  <1>4. r.present => r.seenDone = item[r.source].done
    <2>1. PICK q \in Request : q = SameForm(e) /\ q.source = event[e].source
      BY SameFormType DEF IInv, SameForm, Form
    <2>2. Present(r.source) => item[r.source].done \in BOOLEAN
      BY DEF Present, IInv, TypeOK, ItemRow
    <2> QED BY <1>1, <1>2, <2>1, <2>2 DEF Loaded, Request
  <1>5. Fresh(r)
    BY <1>2, <1>4 DEF Fresh
  <1>6. r.seen >= 0 /\ event[e].funding \in Int
    <2>1. r.present => item[r.source].available >= 0
      BY <1>2 DEF Present, IInv, ItemWithinEstimate, TypeOK, ItemRow
    <2> QED BY <1>2, <2>1 DEF AmountsOK, IInv, TypeOK, EventRow
  <1>7. Honest(r)
    BY <1>2, <1>3, <1>6 DEF Honest, AmountsOK
  <1> QED BY <1>1, <1>3, <1>5, <1>7

\* A save that nothing overlaps: its event gets what EventAfter says, but for
\* the year, and its item what ItemsAfter says.
SavedBy(r) ==
    /\ UNCHANGED budget
    /\ item' = ItemsAfter(r) /\ leftover' = LeftoverAfter(r)
    /\ \A x \in Events \ {r.event} : event'[x] = event[x]
    /\ event'[r.event].state = EventAfter(r).state
    /\ event'[r.event].source = EventAfter(r).source
    /\ event'[r.event].funding = EventAfter(r).funding

Clean(r) == Fresh(r) /\ Honest(r) /\ r.step = "write"

\* What it does to the items: only the source can change, and it loses exactly
\* the funding that is granted.
LEMMA SaveItem ==
    ASSUME IInv, NEW r \in Request, Clean(r), SavedBy(r), NEW i \in Items
    PROVE  /\ item'[i].estimated = item[i].estimated
           /\ i # r.source => item'[i] = item[i]
           /\ i = r.source /\ Present(i) =>
                /\ Spendable(i)' = Spendable(i) - NewFunding(r)
                /\ NewFunding(r) = 0 => Spendable(i) = 0
                /\ item'[i].done = FALSE => item'[i].available > 0
  <1>1. item[i] \in ItemRow /\ 0 <= item[i].available /\ item[i].available <= item[i].estimated
    BY DEF IInv, TypeOK, ItemWithinEstimate
  <1>2. CASE i = r.source /\ Present(i)
    <2>1. r.present /\ r.seen = item[i].available /\ r.seenDone = item[i].done
      BY <1>2 DEF Clean, Fresh
    <2>2. r.ask \in Nat
      BY DEF Clean, Honest, Request
    <2>3. item'[i] = SavedItem(item[i], item[i].available, item[i].done, r.ask)
      BY <1>2, <2>1 DEF SavedBy, ItemsAfter, IInv, TypeOK
    <2>4. NewFunding(r) = Granted(r.ask, IF item[i].done THEN 0 ELSE item[i].available)
      BY <2>1 DEF NewFunding
    <2>5. LET spendable == IF item[i].done THEN 0 ELSE item[i].available
              got == Granted(r.ask, spendable)
              new == SavedItem(item[i], item[i].available, item[i].done, r.ask)
          IN  /\ got \in Nat /\ (got = 0 => spendable = 0)
              /\ new.estimated = item[i].estimated
              /\ (IF new.done THEN 0 ELSE new.available) = spendable - got
              /\ new.done = FALSE => new.available > 0
      BY <1>1, <2>2, SavedItemTakes
    <2>6. /\ item'[i].estimated = item[i].estimated
          /\ item'[i].done = FALSE => item'[i].available > 0
      BY <2>3, <2>5
    <2>7. Spendable(i)' = Spendable(i) - NewFunding(r)
      BY <2>3, <2>4, <2>5 DEF Spendable
    <2>8. NewFunding(r) = 0 => Spendable(i) = 0
      BY <2>4, <2>5 DEF Spendable
    <2> QED BY <1>2, <2>6, <2>7, <2>8
  <1>3. CASE ~(i = r.source /\ Present(i))
    <2>1. item'[i] = item[i]
      BY <1>3 DEF SavedBy, ItemsAfter, IInv, TypeOK
    <2> QED BY <1>3, <2>1
  <1> QED BY <1>2, <1>3

\* What it does to an item and the events that hold money of it, together: no
\* more is promised than before, unless the event keeps funding that its form
\* did not show and comes from elsewhere, to an item requested for nothing.
LEMMA SavePromises ==
    ASSUME IInv, TypeOK', AmountsOK, NEW r \in Request, Clean(r), SavedBy(r),
           NEW i \in Items, Present(i),
           ~(/\ i = r.source /\ item[i].estimated = 0 /\ ~r.create /\ r.old.funding = 0
             /\ event[r.event].source # i)
    PROVE  Committed(i)' + Spendable(i)' <= Committed(i) + Spendable(i)
  <1> DEFINE e == r.event
  <1>1. /\ e \in Events /\ Committed(i) \in Int /\ Spendable(i) \in Int
        /\ event[e].funding \in Int /\ event[e].funding >= 0
        /\ event'[e].funding \in Int
        /\ item[i].done \in BOOLEAN /\ item[i].available \in Int
    BY CommittedType DEF Request, Spendable, IInv, TypeOK, ItemRow, EventRow, AmountsOK
  <1>2. Committed(i)' = Committed(i) + Holds(e, i)' - Holds(e, i)
    BY <1>1, OneEventChanges DEF SavedBy, IInv
  <1>3. /\ Holds(e, i) = IF event[e].state = "live" /\ event[e].source = i
                         THEN event[e].funding ELSE 0
        /\ Holds(e, i)' = IF event'[e].state = "live" /\ event'[e].source = i
                          THEN event'[e].funding ELSE 0
    BY DEF Holds
  <1>4. NewFunding(r) \in Nat
    BY NewFundingWithin DEF Clean, Honest, AmountsOK
  <1>5. ~r.create => r.old.source = event[e].source
    BY DEF Clean, Fresh
  <1>6. CASE ~r.create /\ event[e].state # "live"
    <2>1. Holds(e, i)' = 0 /\ Holds(e, i) = 0
      BY <1>3, <1>5, <1>6, EventAfterMoney DEF SavedBy
    <2>2. CASE i = r.source
      <3>1. Spendable(i)' = Spendable(i) - NewFunding(r)
        BY <2>2, SaveItem
      <3> QED BY <1>1, <1>2, <1>4, <2>1, <3>1
    <2>3. CASE i # r.source
      <3>1. Spendable(i)' = Spendable(i)
        BY <2>3, SaveItem DEF Spendable
      <3> QED BY <1>1, <1>2, <2>1, <3>1
    <2> QED BY <2>2, <2>3
  <1>7. CASE (r.create \/ event[e].state = "live") /\ i # r.source
    <2>1. event'[e].source # i
      BY <1>5, <1>7, EventAfterMoney DEF SavedBy
    <2>2. Holds(e, i)' = 0 /\ Holds(e, i) >= 0 /\ Holds(e, i) \in Int
      BY <1>1, <1>3, <2>1
    <2>3. Spendable(i)' = Spendable(i)
      BY <1>7, SaveItem DEF Spendable
    <2> QED BY <1>1, <1>2, <2>2, <2>3
  <1>8. CASE r.create /\ i = r.source
    <2>1. Holds(e, i) = 0
      BY <1>3, <1>8 DEF Clean, Honest
    <2>2. Holds(e, i)' \in Int /\ Holds(e, i)' <= NewFunding(r)
      BY <1>1, <1>3, <1>4, <1>8, EventAfterMoney DEF SavedBy
    <2>3. Spendable(i)' = Spendable(i) - NewFunding(r)
      BY <1>8, SaveItem
    <2> QED BY <1>1, <1>2, <1>4, <2>1, <2>2, <2>3
  <1>9. CASE ~r.create /\ event[e].state = "live" /\ i = r.source
    <2>1. Spendable(i)' = Spendable(i) - NewFunding(r) /\ (NewFunding(r) = 0 => Spendable(i) = 0)
      BY <1>9, SaveItem
    <2>2. event'[e].funding = IF NewFunding(r) # r.old.funding
                              THEN NewFunding(r) ELSE event[e].funding
      BY <1>5, <1>9, EventAfterMoney DEF SavedBy
    <2>3. CASE event[e].source = i
      <3>1. Holds(e, i) = event[e].funding
        BY <1>3, <1>9, <2>3
      <3>2. Holds(e, i)' <= NewFunding(r) + event[e].funding /\ Holds(e, i)' \in Int
        BY <1>1, <1>3, <1>4, <2>2
      <3> QED BY <1>1, <1>2, <1>4, <2>1, <3>1, <3>2
    <2>4. CASE event[e].source # i
      <3>1. Holds(e, i) = 0
        BY <1>3, <2>4
      <3>2. event'[e].funding <= NewFunding(r)
        <4>1. CASE NewFunding(r) # r.old.funding
          BY <1>4, <2>2, <4>1
        <4>2. CASE NewFunding(r) = r.old.funding /\ r.old.funding # 0
          BY <1>1, <1>4, <1>9, <2>2, <4>2 DEF Clean, Honest
        <4>3. CASE NewFunding(r) = r.old.funding /\ r.old.funding = 0
          <5>1. Spendable(i) = 0
            BY <2>1, <4>3
          <5>2. item[i].estimated = 0 \/ (item[i].done = FALSE /\ item[i].available > 0)
            BY <1>5, <1>9, <2>4 DEF Clean, Honest
          <5>3. item[i].estimated = 0
            BY <1>1, <5>1, <5>2 DEF Spendable
          <5> QED BY <1>9, <2>4, <4>3, <5>3
        <4> QED BY <4>1, <4>2, <4>3
      <3>3. Holds(e, i)' <= NewFunding(r) /\ Holds(e, i)' \in Int
        BY <1>1, <1>3, <1>4, <3>2
      <3> QED BY <1>1, <1>2, <1>4, <2>1, <3>1, <3>3
    <2> QED BY <2>3, <2>4
  <1> QED BY <1>6, <1>7, <1>8, <1>9

\* What it does to the amounts.
LEMMA SaveMoney ==
    ASSUME IInv, MoneyInv, NEW r \in Request, Clean(r), SavedBy(r)
    PROVE  AmountsOK' /\ MoneyLeft'
  <1> DEFINE e == r.event
  <1>1. e \in Events /\ (~r.create => r.old.source = event[e].source)
    BY DEF Request, Clean, Fresh
  <1>2. NewFunding(r) \in Nat /\ LeftoverAfter(r) >= 0
    BY NewFundingWithin DEF Clean, Honest, MoneyInv, AmountsOK
  <1>3. MoneyLeft'
    <2> SUFFICES ASSUME NEW i \in Items, budget[BudgetOf[i]].status = "approved",
                        item'[i].done = FALSE
        PROVE  item'[i].available > 0 \/ item'[i].estimated = 0
      BY DEF MoneyLeft, SavedBy
    <2>1. CASE i = r.source
      BY <2>1, SaveItem DEF Present, Exists
    <2>2. CASE i # r.source
      BY <2>2, SaveItem DEF MoneyInv, MoneyLeft
    <2> QED BY <2>1, <2>2
  <1>4. event'[e].source = r.source \/ event'[e].source = event[e].source
    BY <1>1, EventAfterMoney DEF SavedBy
  <1>5. event'[e].funding = NewFunding(r) \/ event'[e].funding = event[e].funding
    BY <1>1, EventAfterMoney DEF SavedBy
  <1>6. ASSUME NEW x \in Events
        PROVE  /\ event'[x].funding >= 0
               /\ event'[x].source \in Items =>
                     budget[BudgetOf[event'[x].source]].status # "absent"
    <2>1. CASE x = e
      BY <1>1, <1>2, <1>4, <1>5, <2>1 DEF MoneyInv, AmountsOK, Clean, Honest
    <2>2. CASE x # e
      BY <2>2 DEF SavedBy, MoneyInv, AmountsOK
    <2> QED BY <2>1, <2>2
  <1>7. AmountsOK'
    BY <1>2, <1>6 DEF SavedBy, AmountsOK
  <1> QED BY <1>3, <1>7

NoNegativeAmounts == Asked \subseteq Nat /\ Leftovers \subseteq Nat

LEMMA InitMoney == ASSUME NoNegativeAmounts, Init PROVE MoneyInv
  <1>1. /\ leftover >= 0 /\ budget = [b \in Budgets |-> [status |-> "absent", year |-> 0]]
        /\ event = [e \in Events |-> BlankEvent("new")] /\ req = [w \in Workers |-> NoRequest]
    BY DEF Init, NoNegativeAmounts
  <1>2. AmountsOK
    BY <1>1, SourceAssumption DEF AmountsOK, BlankEvent
  <1>3. MoneyLeft
    BY <1>1, BudgetOfAssumption DEF MoneyLeft
  <1> QED BY <1>1, <1>2, <1>3 DEF MoneyInv

LEMMA FormHonest ==
    ASSUME NEW step \in {"reassign", "read"}, NEW e, NEW create \in BOOLEAN, NEW old,
           NEW s, NEW ask, ask >= 0,
           create => event[e].state = "new" /\ step = "read",
           ~create => old = event[e] /\ event[e].funding \in Int,
           s \in Items => /\ budget[BudgetOf[s]].status # "absent"
                         /\ \/ s = old.source
                            \/ item[s].done = FALSE /\ item[s].available > 0
                            \/ item[s].estimated = 0
    PROVE  Honest(Form(step, e, create, old, s, ask))
  <1>1. PICK r : r = Form(step, e, create, old, s, ask)
    OBVIOUS
  <1>2. /\ r.step = step /\ r.event = e /\ r.create = create /\ r.old = old
        /\ r.source = s /\ r.ask = ask /\ r.seen = 0
    BY <1>1 DEF Form
  <1>3. ~create => old.funding = 0 \/ event[e].funding <= old.funding
    OBVIOUS
  <1>4. Honest(r)
    BY <1>2, <1>3 DEF Honest
  <1> QED BY <1>1, <1>4

\* Loading a form.
LEMMA LoadMoney ==
    ASSUME IInv, MoneyInv, NoNegativeAmounts, NEW w \in Workers, NEW e \in Events,
           LoadCreate(w, e) \/ LoadUpdate(w, e) \/ LoadResave(w, e)
    PROVE  Honest(req[w])'
  <1>1. event[e] \in EventRow /\ event[e].funding >= 0
    BY DEF IInv, TypeOK, MoneyInv, AmountsOK
  <1>2. ASSUME NEW s \in Offered \cup {NoItem, Leftover}, s \in Items
        PROVE  /\ budget[BudgetOf[s]].status # "absent"
               /\ \/ item[s].done = FALSE /\ item[s].available > 0
                  \/ item[s].estimated = 0
    <2>1. s \in Items /\ budget[BudgetOf[s]].status = "approved" /\ ~item[s].done
      BY <1>2, SourceAssumption DEF Offered
    <2>2. item[s].done = FALSE
      BY <2>1 DEF IInv, TypeOK, ItemRow
    <2> QED BY <2>1, <2>2 DEF MoneyInv, MoneyLeft
  <1>3. PICK x : req' = [req EXCEPT ![w] = x] /\ Honest(x)
    <2>1. CASE LoadCreate(w, e)
      <3>1. PICK s \in Offered \cup {NoItem, Leftover}, ask \in Asked :
              req' = [req EXCEPT ![w] =
                   Form("read", e, TRUE, [event[e] EXCEPT !.year = year], s, ask)]
        BY <2>1 DEF LoadCreate
      <3>2. Honest(Form("read", e, TRUE, [event[e] EXCEPT !.year = year], s, ask))
        <4>1. ask >= 0 /\ event[e].state = "new"
          BY <2>1 DEF LoadCreate, NoNegativeAmounts
        <4>2. PICK old : old = [event[e] EXCEPT !.year = year]
          OBVIOUS
        <4>3. Honest(Form("read", e, TRUE, old, s, ask))
          BY <1>2, <4>1, FormHonest
        <4> QED BY <4>2, <4>3
      <3> QED BY <3>1, <3>2
    <2>2. CASE LoadUpdate(w, e)
      <3>1. PICK s \in Offered \cup {NoItem, Leftover},
                 ask \in Asked \cup {event[e].funding},
                 step \in {"reassign", "read"} :
              req' = [req EXCEPT ![w] = Form(step, e, FALSE, event[e], s, ask)]
        BY <2>2 DEF LoadUpdate
      <3>2. ask >= 0 /\ event[e].funding \in Int
        BY <1>1 DEF NoNegativeAmounts, EventRow
      <3>3. Honest(Form(step, e, FALSE, event[e], s, ask))
        BY <1>2, <3>2, FormHonest
      <3> QED BY <3>1, <3>3
    <2>3. CASE LoadResave(w, e)
      <3>1. event[e].funding \in Int
        BY <1>1 DEF EventRow
      <3>2. event[e].source \in Items => budget[BudgetOf[event[e].source]].status # "absent"
        BY DEF MoneyInv, AmountsOK
      <3>3. Honest(SameForm(e))
        BY <1>1, <3>1, <3>2, FormHonest DEF SameForm
      <3> QED BY <2>3, <3>3 DEF LoadResave
    <2> QED BY <2>1, <2>2, <2>3
  <1>4. UNCHANGED <<budget, item, event>>
    BY DEF LoadCreate, LoadUpdate, LoadResave
  <1>5. Honest(x)'
    BY <1>3, <1>4 DEF Honest
  <1>6. req'[w] = x
    BY <1>3 DEF IInv, TypeOK
  <1> QED BY <1>5, <1>6

\* A commit with one worker is a save that nothing overlaps, and so is what
\* re_assign_annual_budget saves.
LEMMA CommitSaves ==
    ASSUME IInv, SerialInv, MoneyInv, NEW w \in Workers, Commit(w)
    PROVE  req[w] \in Request /\ Clean(req[w]) /\ SavedBy(req[w])
  <1>1. PICK r \in Request : r = req[w]
    BY DEF Commit, IInv, TypeOK
  <1>2. Clean(r)
    BY <1>1 DEF Commit, Clean, SerialInv, MoneyInv
  <1>3. SavedBy(r)
    BY <1>1 DEF Commit, SavedBy, Request, IInv, TypeOK
  <1> QED BY <1>1, <1>2, <1>3

LEMMA ReassignSaves ==
    ASSUME IInv, MoneyInv, NEW w \in Workers, Reassign(w)
    PROVE  \/ UNCHANGED <<budget, item, event, leftover>>
           \/ \E r \in Request : /\ Clean(r) /\ SavedBy(r) /\ ~r.create
                                 /\ r.event = req[w].event
                                 /\ event[r.event].state = "live"
                                 /\ r.source = event[r.event].source
                                 /\ r.old = event[r.event]
                                 /\ r.ask = event[r.event].funding
  <1> DEFINE e == req[w].event
  <1>1. e \in Events
    BY DEF Reassign, IInv, TypeOK, Request
  <1>2. PICK r \in Request : r = Loaded(SameForm(e))
    BY <1>1, SameFormSaves
  <1>3. /\ r.event = e /\ r.create = FALSE /\ r.old = event[e]
        /\ r.source = event[e].source /\ r.ask = event[e].funding
        /\ r.present <=> Present(r.source)
    BY <1>1, <1>2, SameFormSaves
  <1>4. Clean(r)
    BY <1>1, <1>2, SameFormHonest DEF Clean, MoneyInv
  <1>5. CASE /\ UNCHANGED budget /\ event[e].state = "live"
             /\ item' = ItemsAfter(r) /\ leftover' = LeftoverAfter(r)
             /\ event' = [event EXCEPT ![e] = [EventAfter(r) EXCEPT
                            !.year = budget[BudgetOf[req[w].source]].year]]
    <2>1. EventAfter(r) \in EventRow
      BY <1>3, AfterType DEF IInv, Present
    <2>2. event \in [Events -> EventRow]
      BY DEF IInv, TypeOK
    <2>3. SavedBy(r)
      BY <1>1, <1>3, <1>5, <2>1, <2>2 DEF SavedBy, EventRow
    <2> QED BY <1>3, <1>4, <1>5, <2>3
  <1>6. CASE UNCHANGED <<budget, item, event, leftover>>
    BY <1>6
  <1> QED BY <1>2, <1>5, <1>6 DEF Reassign

LEMMA ReassignMoney ==
    ASSUME IInv, SerialInv, MoneyInv, NEW w \in Workers, Reassign(w)
    PROVE  /\ AmountsOK' /\ MoneyLeft'
           /\ req'[w] # NoRequest => Honest(req[w])'
  <1>1. PICK q \in Request : q = req[w] /\ q.step = "reassign" /\ Fresh(q) /\ Honest(q)
    BY DEF Reassign, IInv, TypeOK, SerialInv, MoneyInv
  <1>2. req'[w] = NoRequest \/ req'[w] = [q EXCEPT !.step = "read"]
    BY <1>1 DEF Reassign, IInv, TypeOK
  <1>3. PICK x : x = [q EXCEPT !.step = "read"]
    OBVIOUS
  <1>4. /\ x.event = q.event /\ x.create = q.create /\ x.old = q.old /\ x.source = q.source
        /\ x.ask = q.ask /\ x.seen = q.seen /\ x.step = "read"
    BY <1>3 DEF Request
  <1>5. CASE UNCHANGED <<budget, item, event, leftover>>
    <2>1. AmountsOK' /\ MoneyLeft'
      BY <1>5 DEF MoneyInv, AmountsOK, MoneyLeft
    <2>2. Honest(x)'
      BY <1>1, <1>4, <1>5 DEF Honest
    <2> QED BY <1>2, <1>3, <2>1, <2>2
  <1>6. ASSUME NEW r \in Request, Clean(r), SavedBy(r), ~r.create, r.event = q.event,
               event[r.event].state = "live", r.source = event[r.event].source,
               r.old = event[r.event], r.ask = event[r.event].funding
        PROVE  AmountsOK' /\ MoneyLeft' /\ Honest(x)'
    <2> DEFINE e == r.event
    <2>1. AmountsOK' /\ MoneyLeft'
      BY <1>6, SaveMoney
    <2>2. NewFunding(r) \in Nat /\ (r.ask > 0 => NewFunding(r) <= r.ask)
      BY <1>6, NewFundingWithin DEF Clean, Honest, MoneyInv, AmountsOK
    <2>3. /\ e \in Events /\ ~q.create /\ q.old.funding = event[e].funding
          /\ q.old.source = event[e].source
          /\ event[e].funding \in Int /\ event[e].funding >= 0
      BY <1>1, <1>6 DEF Honest, Fresh, Request, IInv, TypeOK, EventRow, MoneyInv, AmountsOK
    <2>4. event'[e].funding = NewFunding(r) \/ event'[e].funding = event[e].funding
      BY <1>6, EventAfterMoney DEF SavedBy
    <2>5. q.old.funding = 0 \/ event'[e].funding <= q.old.funding
      BY <1>6, <2>2, <2>3, <2>4
    <2>6. q.source \in Items /\ q.source # q.old.source => item'[q.source] = item[q.source]
      BY <1>6, <2>3, SaveItem
    <2>7. UNCHANGED budget
      BY <1>6 DEF SavedBy
    <2>8. Honest(x)'
      BY <1>1, <1>4, <1>6, <2>3, <2>5, <2>6, <2>7 DEF Honest
    <2> QED BY <2>1, <2>8
  <1> QED BY <1>1, <1>2, <1>3, <1>5, <1>6, ReassignSaves

LEMMA MoneyStep ==
    ASSUME IInv, SerialInv, MoneyInv, OneWorker, NoNegativeAmounts, [Next]_vars
    PROVE  MoneyInv'
  <1>1. CASE Free /\ UNCHANGED req /\ AmountsOK' /\ MoneyLeft'
    <2>1. \A w \in Workers : req'[w] = NoRequest
      BY <1>1 DEF Free, OneWorker
    <2> QED BY <1>1, <2>1 DEF MoneyInv
  <1>2. ASSUME NEW w \in Workers, AmountsOK', MoneyLeft',
               req'[w] # NoRequest => Honest(req[w])'
        PROVE  MoneyInv'
    BY <1>2 DEF MoneyInv, OneWorker
  <1>3. UNCHANGED <<budget, item, event, leftover>> => AmountsOK' /\ MoneyLeft'
    BY DEF MoneyInv, AmountsOK, MoneyLeft
  <1>4. ASSUME NEW b \in Budgets, CreateBudget(b)
        PROVE  MoneyInv'
    <2>1. /\ \A c \in Budgets : budget[c].status # "absent" => budget'[c].status # "absent"
          /\ budget'[b].status = "pending"
          /\ \A c \in Budgets : c # b => budget'[c] = budget[c]
      BY <1>4 DEF CreateBudget, IInv, TypeOK
    <2>2. \A i \in Items : BudgetOf[i] # b => item'[i] = item[i]
      BY <1>4 DEF CreateBudget, ItemsOf
    <2>3. AmountsOK'
      BY <1>4, <2>1, BudgetOfAssumption DEF CreateBudget, MoneyInv, AmountsOK
    <2>4. MoneyLeft'
      BY <2>1, <2>2, BudgetOfAssumption DEF MoneyInv, MoneyLeft
    <2> QED BY <1>1, <1>4, <2>3, <2>4 DEF CreateBudget
  <1>5. ASSUME NEW b \in Budgets, ApproveBudget(b)
        PROVE  MoneyInv'
    <2>1. /\ \A c \in Budgets : budget[c].status # "absent" => budget'[c].status # "absent"
          /\ \A c \in Budgets : c # b => budget'[c] = budget[c]
      BY <1>5, ApprovedRequest DEF IInv, TypeOK
    <2>2. \A i \in Items : BudgetOf[i] # b => item'[i] = item[i]
      BY <1>5 DEF ApproveBudget, ItemsOf
    <2>3. ASSUME NEW i \in Items, BudgetOf[i] = b
          PROVE  item'[i].available > 0 \/ item'[i].estimated = 0
      <3>1. item'[i] = Approved(item[i]) /\ item[i] \in ItemRow
        BY <1>5, <2>3 DEF ApproveBudget, ItemsOf, IInv, TypeOK
      <3> QED BY <3>1 DEF Approved, ItemRow
    <2>4. AmountsOK'
      BY <1>5, <2>1, BudgetOfAssumption DEF ApproveBudget, MoneyInv, AmountsOK
    <2>5. MoneyLeft'
      BY <2>1, <2>2, <2>3, BudgetOfAssumption DEF MoneyInv, MoneyLeft
    <2> QED BY <1>1, <1>5, <2>4, <2>5 DEF ApproveBudget
  <1>6. ASSUME NEW b \in Budgets, DeclineBudget(b)
        PROVE  MoneyInv'
    <2>1. /\ \A c \in Budgets : budget[c].status # "absent" => budget'[c].status # "absent"
          /\ \A c \in Budgets : budget'[c].status = "approved" => budget'[c] = budget[c]
      BY <1>6 DEF DeclineBudget, IInv, TypeOK, BudgetRow
    <2>2. AmountsOK' /\ MoneyLeft'
      BY <1>6, <2>1, BudgetOfAssumption DEF DeclineBudget, MoneyInv, AmountsOK, MoneyLeft
    <2> QED BY <1>1, <1>6, <2>2 DEF DeclineBudget
  <1>7. ASSUME NEW b \in Budgets, DestroyBudget(b)
        PROVE  MoneyInv'
    <2>1. /\ \A c \in Budgets : budget[c].status # "absent" => budget'[c].status # "absent"
          /\ budget'[b].status = "deleted"
          /\ \A c \in Budgets : c # b => budget'[c] = budget[c]
      BY <1>7 DEF DestroyBudget, IInv, TypeOK
    <2>2. \A i \in Items : BudgetOf[i] # b => item'[i] = item[i]
      BY <1>7 DEF DestroyBudget, ItemsOf
    <2>3. leftover' >= 0
      BY <1>7 DEF DestroyBudget, NoNegativeAmounts
    <2>4. AmountsOK'
      BY <1>7, <2>1, <2>3, BudgetOfAssumption DEF DestroyBudget, MoneyInv, AmountsOK
    <2>5. MoneyLeft'
      BY <2>1, <2>2, BudgetOfAssumption DEF MoneyInv, MoneyLeft
    <2> QED BY <1>1, <1>7, <2>4, <2>5 DEF DestroyBudget
  <1>8. ASSUME NEW e \in Events, FinishExpenses(e) \/ DestroyEvent(e)
         PROVE  MoneyInv'
    <2>1. \A x \in Events : \/ /\ event'[x].funding = event[x].funding
                               /\ event'[x].source = event[x].source
                            \/ event'[x] = BlankEvent("deleted")
      <3>1. CASE FinishExpenses(e)
        BY <3>1 DEF FinishExpenses, IInv, TypeOK, EventRow
      <3>2. CASE DestroyEvent(e)
        BY <3>2 DEF DestroyEvent, IInv, TypeOK
      <3> QED BY <1>8, <3>1, <3>2
    <2>2. /\ BlankEvent("deleted").funding = 0 /\ BlankEvent("deleted").source = NoItem
      BY DEF BlankEvent
    <2>3. leftover' >= 0 /\ UNCHANGED <<budget, item, req>> /\ Free
      BY <1>8 DEF FinishExpenses, DestroyEvent, NoNegativeAmounts
    <2>4. AmountsOK'
      BY <2>1, <2>2, <2>3, SourceAssumption DEF MoneyInv, AmountsOK
    <2>5. MoneyLeft'
      BY <2>3 DEF MoneyInv, MoneyLeft
    <2> QED BY <1>1, <2>3, <2>4, <2>5
  <1>9. CASE OpenYear \/ RecomputeLeftover
    <2>1. leftover' >= 0 /\ UNCHANGED <<budget, item, event, req>> /\ Free
      <3>1. CASE OpenYear
        BY <3>1 DEF OpenYear
      <3>2. CASE RecomputeLeftover
        BY <3>2 DEF RecomputeLeftover, NoNegativeAmounts
      <3> QED BY <1>9, <3>1, <3>2
    <2>2. AmountsOK' /\ MoneyLeft'
      BY <2>1 DEF MoneyInv, AmountsOK, MoneyLeft
    <2> QED BY <1>1, <2>1, <2>2
  <1>10. ASSUME NEW w \in Workers, NEW e \in Events,
                LoadCreate(w, e) \/ LoadUpdate(w, e) \/ LoadResave(w, e)
         PROVE  MoneyInv'
    <2>1. Honest(req[w])'
      BY <1>10, LoadMoney
    <2>2. UNCHANGED <<budget, item, event, leftover>>
      BY <1>10 DEF LoadCreate, LoadUpdate, LoadResave
    <2> QED BY <1>2, <1>3, <2>1, <2>2
  <1>11. ASSUME NEW w \in Workers, Reassign(w)
         PROVE  MoneyInv'
    BY <1>2, <1>11, ReassignMoney
  <1>12. ASSUME NEW w \in Workers, Read(w)
         PROVE  MoneyInv'
    <2>1. PICK r \in Request : r = req[w] /\ Honest(r)
      BY <1>12 DEF Read, IInv, TypeOK, MoneyInv
    <2>2. PICK x : x = Loaded(r) /\ req'[w] = x
      BY <1>12, <2>1 DEF Read, IInv, TypeOK
    <2>3. /\ x.event = r.event /\ x.create = r.create /\ x.old = r.old
          /\ x.source = r.source /\ x.ask = r.ask /\ x.step = "write"
      BY <2>1, <2>2 DEF Loaded, Request
    <2>4. x.seen = IF Present(r.source) THEN item[r.source].available ELSE leftover
      BY <2>1, <2>2 DEF Loaded, Request
    <2>5. x.seen >= 0
      BY <2>4 DEF Present, MoneyInv, AmountsOK, IInv, ItemWithinEstimate
    <2>6. UNCHANGED <<budget, item, event, leftover>>
      BY <1>12 DEF Read
    <2>7. Honest(x)'
      BY <2>1, <2>3, <2>5, <2>6 DEF Honest
    <2> QED BY <1>2, <1>3, <2>2, <2>6, <2>7
  <1>13. ASSUME NEW w \in Workers, Commit(w)
         PROVE  MoneyInv'
    <2>1. AmountsOK' /\ MoneyLeft'
      BY <1>13, CommitSaves, SaveMoney
    <2>2. req'[w] = NoRequest
      BY <1>13 DEF Commit, IInv, TypeOK
    <2> QED BY <1>2, <2>1, <2>2
  <1>14. ASSUME NEW w \in Workers, Refuse(w)
         PROVE  MoneyInv'
    <2>1. req'[w] = NoRequest /\ UNCHANGED <<budget, item, event, leftover>>
      BY <1>14 DEF Refuse, IInv, TypeOK
    <2> QED BY <1>2, <1>3, <2>1
  <1>15. CASE UNCHANGED vars
    BY <1>15 DEF vars, MoneyInv, AmountsOK, MoneyLeft, Honest
  <1> QED BY <1>4, <1>5, <1>6, <1>7, <1>8, <1>9, <1>10, <1>11, <1>12, <1>13, <1>14, <1>15
          DEF Next

-----------------------------------------------------------------------------
(* When an item can be overcommitted.                                      *)

PromisedOver(i) ==
    (~Overcommitted(i) /\ Overcommitted(i)') =>
        \/ Committed(i) > 0 /\ ApproveBudget(BudgetOf[i])
        \/ MovesFunding(i)

LEMMA PromisedOverStep ==
    ASSUME IInv, IInv', SerialInv, MoneyInv, [Next]_vars, NEW i \in Items
    PROVE  PromisedOver(i)
  <1> DEFINE b == BudgetOf[i]
  <1> SUFFICES ASSUME ~Overcommitted(i), Overcommitted(i)'
      PROVE  \/ Committed(i) > 0 /\ ApproveBudget(b)
             \/ MovesFunding(i)
    BY DEF PromisedOver
  <1>1. /\ b \in Budgets /\ item[i] \in ItemRow /\ item'[i] \in ItemRow
        /\ Committed(i) \in Int /\ Committed(i)' \in Int
        /\ Spendable(i) \in Int /\ Spendable(i)' \in Int
        /\ item[i].estimated \in Int /\ item'[i].estimated \in Int
    <2>1. b \in Budgets /\ item[i] \in ItemRow /\ item'[i] \in ItemRow
      BY BudgetOfAssumption DEF IInv, TypeOK
    <2>2. Committed(i) \in Int
      BY CommittedType DEF IInv
    <2>3. Committed(i)' \in Int
      <3>1. IsFiniteSet(LiveEventsOf(i)')
        BY FiniteAssumption, FS_Subset DEF LiveEventsOf
      <3>2. \A x \in LiveEventsOf(i)' : [e \in Events |-> event'[e].funding][x] \in Int
        BY DEF LiveEventsOf, IInv, TypeOK, EventRow
      <3> QED BY <3>1, <3>2, SumType DEF Committed
    <2> QED BY <2>1, <2>2, <2>3 DEF Spendable, ItemRow
  <1>2. /\ Exists(b)' /\ Committed(i)' + Spendable(i)' > item'[i].estimated
    BY DEF Overcommitted
  <1>3. Exists(b) => Committed(i) + Spendable(i) <= item[i].estimated
    BY <1>1 DEF Overcommitted
  <1>4. ASSUME Exists(b), Committed(i)' + Spendable(i)' <= Committed(i) + Spendable(i),
               item'[i].estimated = item[i].estimated
        PROVE  FALSE
    BY <1>1, <1>2, <1>3, <1>4
  <1>5. ASSUME UNCHANGED <<budget, item>>,
               \A x \in Events : /\ event'[x].state = event[x].state
                                 /\ event'[x].source = event[x].source
                                 /\ event'[x].funding = event[x].funding
        PROVE  FALSE
    <2>1. Committed(i)' = Committed(i) /\ Spendable(i)' = Spendable(i)
      BY <1>5, NoEventChanges DEF IInv, Spendable
    <2>2. Exists(b)
      BY <1>2, <1>5 DEF Exists
    <2> QED BY <1>1, <1>4, <1>5, <2>1, <2>2
  <1>6. ASSUME NEW c \in Budgets, c # b,
               CreateBudget(c) \/ ApproveBudget(c) \/ DeclineBudget(c) \/ DestroyBudget(c)
        PROVE  FALSE
    <2>1. item'[i] = item[i] /\ budget'[b] = budget[b] /\ UNCHANGED event
      BY <1>1, <1>6 DEF CreateBudget, ApproveBudget, DeclineBudget, DestroyBudget, ItemsOf,
                        IInv, TypeOK
    <2>2. Committed(i)' = Committed(i) /\ Spendable(i)' = Spendable(i)
      BY <2>1, NoEventChanges DEF IInv, Spendable
    <2>3. Exists(b)
      BY <1>2, <2>1 DEF Exists
    <2> QED BY <1>1, <1>4, <2>1, <2>2, <2>3
  <1>7. ASSUME CreateBudget(b) PROVE FALSE
    <2>1. \A x \in Events : event[x].source # i
      BY <1>7 DEF CreateBudget, MoneyInv, AmountsOK
    <2>2. Committed(i) = 0
      BY <2>1, NobodyHolds
    <2>3. Committed(i)' = Committed(i)
      BY <1>7, NoEventChanges DEF CreateBudget, IInv
    <2>4. Spendable(i)' <= item'[i].estimated
      BY <1>1 DEF IInv, ItemWithinEstimate, Spendable, ItemRow
    <2> QED BY <1>1, <1>2, <2>2, <2>3, <2>4
  <1>8. ASSUME ApproveBudget(b) PROVE Committed(i) > 0
    <2>1. Committed(i)' = Committed(i)
      BY <1>8, NoEventChanges DEF ApproveBudget, IInv
    <2>2. Spendable(i)' <= item'[i].estimated
      BY <1>1 DEF IInv, ItemWithinEstimate, Spendable, ItemRow
    <2> QED BY <1>1, <1>2, <2>1, <2>2
  <1>9. ASSUME DeclineBudget(b) PROVE FALSE
    <2>1. Committed(i)' = Committed(i) /\ Spendable(i)' = Spendable(i) /\ Exists(b)
      BY <1>9, NoEventChanges DEF DeclineBudget, IInv, Spendable
    <2> QED BY <1>1, <1>4, <1>9, <2>1 DEF DeclineBudget
  <1>10. ASSUME DestroyBudget(b) PROVE FALSE
    BY <1>1, <1>2, <1>10 DEF DestroyBudget, Exists, IInv, TypeOK
  <1>11. ASSUME NEW e \in Events, FinishExpenses(e) PROVE FALSE
    BY <1>5, <1>11 DEF FinishExpenses, IInv, TypeOK, EventRow
  <1>12. ASSUME NEW e \in Events, DestroyEvent(e) PROVE FALSE
    <2>1. Committed(i)' = Committed(i) + Holds(e, i)' - Holds(e, i)
      BY <1>12, OneEventChanges DEF DestroyEvent, IInv, TypeOK
    <2>2. Holds(e, i)' = 0
      BY <1>12 DEF Holds, DestroyEvent, BlankEvent, IInv, TypeOK
    <2>3. Holds(e, i) >= 0 /\ Holds(e, i) \in Int
      BY DEF Holds, MoneyInv, AmountsOK, IInv, TypeOK, EventRow
    <2>4. Exists(b) /\ Spendable(i)' = Spendable(i)
      BY <1>2, <1>12 DEF DestroyEvent, Exists, Spendable
    <2> QED BY <1>1, <1>4, <1>12, <2>1, <2>2, <2>3, <2>4 DEF DestroyEvent
  <1>13. ASSUME NEW r \in Request, Clean(r), SavedBy(r),
                ~(/\ i = r.source /\ item[i].estimated = 0 /\ ~r.create
                  /\ r.old.funding = 0 /\ event[r.event].source # i)
         PROVE  FALSE
    <2>1. Exists(b)
      BY <1>2, <1>13 DEF SavedBy, Exists
    <2>2. Committed(i)' + Spendable(i)' <= Committed(i) + Spendable(i)
      BY <1>13, <2>1, SavePromises DEF MoneyInv, IInv, Present
    <2>3. item'[i].estimated = item[i].estimated
      BY <1>13, SaveItem
    <2> QED BY <1>4, <2>1, <2>2, <2>3
  <1>14. ASSUME NEW w \in Workers, Commit(w) PROVE MovesFunding(i)
    <2>1. PICK r \in Request : r = req[w] /\ Clean(r) /\ SavedBy(r)
      BY <1>14, CommitSaves
    <2>2. i = r.source /\ item[i].estimated = 0 /\ r.old.funding = 0
      BY <1>13, <2>1
    <2> QED BY <1>14, <2>1, <2>2 DEF MovesFunding
  <1>15. ASSUME NEW w \in Workers, Reassign(w) PROVE FALSE
    <2>1. CASE UNCHANGED <<budget, item, event, leftover>>
      BY <1>5, <2>1
    <2>2. ASSUME NEW r \in Request, Clean(r), SavedBy(r), r.source = event[r.event].source
          PROVE  FALSE
      BY <1>13, <2>2
    <2> QED BY <1>15, <2>1, <2>2, ReassignSaves
  <1>16. ASSUME UNCHANGED <<budget, item, event>> PROVE FALSE
    BY <1>5, <1>16
  <1>17. \/ UNCHANGED <<budget, item, event>>
         \/ \E c \in Budgets : \/ CreateBudget(c) \/ ApproveBudget(c)
                               \/ DeclineBudget(c) \/ DestroyBudget(c)
         \/ \E e \in Events : FinishExpenses(e) \/ DestroyEvent(e)
         \/ \E w \in Workers : Reassign(w) \/ Commit(w)
    BY DEF Next, vars, LoadCreate, LoadUpdate, LoadResave, Read, Refuse, OpenYear,
           RecomputeLeftover
  <1>18. ASSUME NEW c \in Budgets,
                CreateBudget(c) \/ ApproveBudget(c) \/ DeclineBudget(c) \/ DestroyBudget(c)
         PROVE  Committed(i) > 0 /\ ApproveBudget(b)
    <2>1. CASE c = b
      BY <1>7, <1>8, <1>9, <1>10, <1>18, <2>1
    <2>2. CASE c # b
      BY <1>6, <1>18, <2>2
    <2> QED BY <2>1, <2>2
  <1> QED BY <1>11, <1>12, <1>14, <1>15, <1>16, <1>17, <1>18

\* When requests are served one after the other and none types a negative
\* amount, the events of an item and what it has left are never promised more
\* than was requested, but for a second approval and for an event that brings
\* its funding to an item requested for nothing.
THEOREM PromisesKept ==
    OneWorker /\ NoNegativeAmounts /\ Spec => ReapprovalOrMoveOvercommits
  <1> SUFFICES ASSUME OneWorker, NoNegativeAmounts
      PROVE Spec => ReapprovalOrMoveOvercommits
    OBVIOUS
  <1>1. SerialInv /\ IInv /\ [Next]_vars => SerialInv'
    BY SerialStep
  <1>2. MoneyInv /\ SerialInv /\ IInv /\ [Next]_vars => MoneyInv'
    BY MoneyStep
  <1>3. Init => MoneyInv
    BY InitMoney
  <1>4. IInv /\ IInv' /\ SerialInv /\ MoneyInv /\ [Next]_vars =>
          [\A i \in Items :
             (~Overcommitted(i) /\ Overcommitted(i)') =>
                 \/ Committed(i) > 0 /\ ApproveBudget(BudgetOf[i])
                 \/ MovesFunding(i)]_vars
    BY PromisedOverStep DEF PromisedOver
  <1> QED
    BY <1>1, <1>2, <1>3, <1>4, InitIInv, NextIInv, InitSerial, PTL
    DEF Spec, ReapprovalOrMoveOvercommits
=============================================================================
