------------------------- MODULE CampaignVotesProofs -------------------------
(***************************************************************************)
(* For any users, sessions and rows: types, what points are added for, and *)
(* how many upvotes a user has.                                            *)
(***************************************************************************)
EXTENDS CampaignVotes, FiniteSetTheorems, TLAPS

\* Points are about to be added for a row.
Placed == \A s \in Sessions : At(s, "pay") => req[s].row \in Rows

\* A user with two requests in flight is remembered.
OneAtATime ==
    \A s, t \in Sessions :
       (/\ s # t /\ SessionUser[s] = SessionUser[t]
        /\ req[s] # NoRequest /\ req[t] # NoRequest) => crossed[SessionUser[s]]

\* The vote of a request that is about to add points stands.
PaysForVotes ==
    \A s \in Sessions :
       At(s, "pay") => \/ req[s].row \in upvotes[SessionUser[s]]
                       \/ crossed[SessionUser[s]]

PInv == TypeOK /\ Placed /\ OneAtATime /\ PaysForVotes /\ StandingVotesArePaid

LEMMA InitPInv ==
    ASSUME Init PROVE PInv
  <1>1. stops \in 0..MaxStops
    BY RowsAssumption DEF Init
  <1>2. TypeOK
    BY <1>1, Zenon DEF Init, TypeOK
  <1> QED BY <1>2 DEF Init, PInv, Placed, OneAtATime, PaysForVotes, At, StandingVotesArePaid

\* What a step of session s makes of its request, and of nobody else's.
Becomes(s, new) ==
    /\ new \in Request \cup {NoRequest}
    /\ req' = [req EXCEPT ![s] = new]

LEMMA Others ==
    ASSUME TypeOK, NEW s \in Sessions, NEW new, Becomes(s, new)
    PROVE  /\ req' \in [Sessions -> Request \cup {NoRequest}]
           /\ req'[s] = new
           /\ \A t \in Sessions : t # s => req'[t] = req[t]
  BY DEF TypeOK, Becomes

\* Beginning a request.
LEMMA BeginPInv ==
    ASSUME PInv, NEW s \in Sessions, NEW op \in {"like", "unlike", "vote", "unvote"},
           NEW step \in {"find", "create"}, Begin(s, op, step)
    PROVE  PInv'
  <1> DEFINE u == SessionUser[s]
             new == [op |-> op, step |-> step, row |-> 0,
                     like |-> IF op = "unlike" THEN likes[u] ELSE 0]
  <1> u \in Users BY SessionAssumption
  <1>1. Becomes(s, new)
    BY DEF Begin, Becomes, Request, PInv, TypeOK
  <1>2. /\ req' \in [Sessions -> Request \cup {NoRequest}]
        /\ req'[s] = new
        /\ \A t \in Sessions : t # s => req'[t] = req[t]
    BY <1>1, Others DEF PInv
  <1>3. /\ crossed' \in [Users -> BOOLEAN]
        /\ crossed'[u] = (crossed[u] \/ Of(u) # {})
        /\ \A v \in Users : crossed[v] => crossed'[v]
    BY DEF Begin, PInv, TypeOK
  <1>4. TypeOK'
    BY <1>2, <1>3 DEF Begin, votes, PInv, TypeOK
  <1>5. Placed'
    BY <1>2 DEF Placed, At, PInv
  <1>6. OneAtATime'
    <2> SUFFICES ASSUME NEW t \in Sessions, NEW w \in Sessions,
                        t # w, SessionUser[t] = SessionUser[w],
                        req'[t] # NoRequest, req'[w] # NoRequest
                 PROVE  crossed'[SessionUser[t]]
      BY DEF OneAtATime
    <2>1. CASE t # s /\ w # s
      BY <2>1, <1>2, <1>3, SessionAssumption DEF OneAtATime, PInv
    <2>2. CASE t = s
      BY <2>2, <1>2, <1>3 DEF Of
    <2>3. CASE w = s
      BY <2>3, <1>2, <1>3 DEF Of
    <2> QED BY <2>1, <2>2, <2>3
  <1>7. PaysForVotes'
    BY <1>2, <1>3, SessionAssumption DEF Begin, votes, PaysForVotes, At, PInv
  <1>8. StandingVotesArePaid'
    <2> SUFFICES ASSUME NEW v \in Users, NEW row \in upvotes[v],
                        row \notin paid[v], ~cut[v]
                 PROVE  \E t \in Of(v)' : req'[t].step = "pay" /\ req'[t].row = row
      BY DEF StandingVotesArePaid, Begin, votes
    <2>1. PICK t \in Of(v) : req[t].step = "pay" /\ req[t].row = row
      BY DEF StandingVotesArePaid, PInv
    <2>2. t \in Sessions /\ t # s
      BY <2>1 DEF Of, Begin
    <2> QED BY <2>1, <2>2, <1>2 DEF Of
  <1> QED BY <1>4, <1>5, <1>6, <1>7, <1>8 DEF PInv

\* What a step of a request has to keep, if the request goes on as new.
LEMMA StepPInv ==
    ASSUME PInv, NEW s \in Sessions, req[s] # NoRequest, NEW new, Becomes(s, new),
           /\ upvotes' \in [Users -> SUBSET Rows]
           /\ likes' \in [Users -> Rows \cup {0}]
           /\ paid' \in [Users -> SUBSET Rows]
           /\ stops' \in 0..MaxStops
           /\ cut' \in [Users -> BOOLEAN],
           UNCHANGED <<solved, crossed>>,
           new # NoRequest /\ new.step = "pay" =>
              /\ new.row \in Rows
              /\ new.row \in upvotes'[SessionUser[s]] \/ crossed[SessionUser[s]],
           \A t \in Sessions \ {s} : At(t, "pay") /\ ~crossed[SessionUser[t]] =>
              req[t].row \in upvotes'[SessionUser[t]]
    PROVE  TypeOK' /\ Placed' /\ OneAtATime' /\ PaysForVotes'
  <1>1. /\ req' \in [Sessions -> Request \cup {NoRequest}]
        /\ req'[s] = new
        /\ \A t \in Sessions : t # s => req'[t] = req[t]
    BY Others DEF PInv
  <1>2. TypeOK'
    BY <1>1, Zenon DEF PInv, TypeOK
  <1>3. Placed'
    BY <1>1 DEF PInv, Placed, At
  <1>4. OneAtATime'
    BY <1>1 DEF PInv, OneAtATime
  <1>5. PaysForVotes'
    <2> SUFFICES ASSUME NEW t \in Sessions, At(t, "pay")'
                 PROVE  req'[t].row \in upvotes'[SessionUser[t]] \/ crossed'[SessionUser[t]]
      BY DEF PaysForVotes
    <2>1. CASE t = s
      BY <2>1, <1>1 DEF At
    <2>2. CASE t # s
      BY <2>2, <1>1 DEF At
    <2> QED BY <2>1, <2>2
  <1> QED BY <1>2, <1>3, <1>4, <1>5

\* Nobody else is about to add points for a vote of the user, if requests of
\* the user do not cross.
LEMMA Alone ==
    ASSUME PInv, NEW s \in Sessions, req[s] # NoRequest,
           NEW t \in Sessions \ {s}, req[t] # NoRequest, ~crossed[SessionUser[t]]
    PROVE  SessionUser[t] # SessionUser[s]
  BY DEF PInv, OneAtATime

\* Votes that were there stay paid for, or about to be.
LEMMA StillPaid ==
    ASSUME PInv, NEW s \in Sessions, ~At(s, "pay"), NEW new, Becomes(s, new),
           NEW v \in Users, NEW row \in upvotes[v], cut'[v] = cut[v], paid'[v] = paid[v]
    PROVE  \/ row \in paid'[v] \/ cut'[v]
           \/ \E t \in Of(v)' : req'[t].step = "pay" /\ req'[t].row = row
  <1>1. \A t \in Sessions : t # s => req'[t] = req[t]
    BY Others DEF PInv
  <1> SUFFICES ASSUME row \notin paid[v], ~cut[v]
               PROVE  \E t \in Of(v)' : req'[t].step = "pay" /\ req'[t].row = row
    OBVIOUS
  <1>2. PICK t \in Of(v) : req[t].step = "pay" /\ req[t].row = row
    BY DEF StandingVotesArePaid, PInv
  <1>3. t \in Sessions /\ t # s /\ req'[t] = req[t]
    BY <1>1, <1>2 DEF Of, At
  <1> QED BY <1>2, <1>3 DEF Of

LEMMA FindPInv ==
    ASSUME PInv, NEW s \in Sessions, Find(s)
    PROVE  PInv'
  <1> DEFINE u == SessionUser[s]
  <1> u \in Users BY SessionAssumption
  <1>1. At(s, "find") /\ req[s] \in Request /\ ~At(s, "pay")
    BY DEF Find, At, PInv, TypeOK
  <1>2. PICK row \in FirstOf(u) :
           IF req[s].op = "unvote" /\ row = 0 THEN Done(s)
           ELSE req' = [req EXCEPT ![s].step = Found(s, row), ![s].row = row]
    BY DEF Find
  <1>3. row \in Rows \cup {0} /\ (row # 0 => row \in upvotes[u])
    BY DEF FirstOf, PInv, TypeOK
  <1> DEFINE new == IF req[s].op = "unvote" /\ row = 0 THEN NoRequest
                    ELSE [req[s] EXCEPT !.step = Found(s, row), !.row = row]
  <1>4. Becomes(s, new)
    <2>1. new \in Request \cup {NoRequest}
      BY <1>1, <1>3 DEF Found, Request
    <2>2. req' = [req EXCEPT ![s] = new]
      BY <1>2 DEF Done, PInv, TypeOK
    <2> QED BY <2>1, <2>2 DEF Becomes
  <1>5. new # NoRequest /\ new.step = "pay" => row \in upvotes[u] /\ new.row = row
    BY <1>1, <1>3 DEF Found, Request
  <1> HIDE DEF new
  <1>6. TypeOK' /\ Placed' /\ OneAtATime' /\ PaysForVotes'
    <2>1. \A t \in Sessions \ {s} : At(t, "pay") /\ ~crossed[SessionUser[t]] =>
              req[t].row \in upvotes'[SessionUser[t]]
      BY DEF Find, votes, PInv, PaysForVotes
    <2>2. UNCHANGED <<upvotes, likes, solved, paid, stops, crossed, cut>>
      BY DEF Find, votes, history
    <2>3. new # NoRequest /\ new.step = "pay" =>
              /\ new.row \in Rows /\ new.row \in upvotes'[u]
      BY <1>3, <1>5, <2>2 DEF PInv, TypeOK
    <2>4. req[s] # NoRequest
      BY <1>1 DEF At
    <2> QED BY <1>4, <2>1, <2>2, <2>3, <2>4, StepPInv DEF PInv, TypeOK
  <1>7. StandingVotesArePaid'
    BY <1>1, <1>4, StillPaid DEF Find, votes, history, StandingVotesArePaid
  <1> QED BY <1>6, <1>7 DEF PInv

LEMMA CreatePInv ==
    ASSUME PInv, NEW s \in Sessions, Create(s)
    PROVE  PInv'
  <1> DEFINE u == SessionUser[s]
  <1> u \in Users BY SessionAssumption
  <1>1. At(s, "create") /\ req[s] \in Request /\ req[s] # NoRequest /\ ~At(s, "pay")
    BY DEF Create, At, PInv, TypeOK
  <1>2. PICK row \in Fresh(u) :
          /\ upvotes' = [upvotes EXCEPT ![u] = @ \cup {row}]
          /\ paid' = [paid EXCEPT ![u] = @ \ {row}]
          /\ req' = [req EXCEPT ![s].step = "pay", ![s].row = row]
    BY DEF Create
  <1>3. UNCHANGED <<likes, solved, stops, crossed, cut>> /\ row \in Rows
    BY <1>2 DEF Create, history, Fresh
  <1> DEFINE new == [req[s] EXCEPT !.step = "pay", !.row = row]
  <1>4. Becomes(s, new) /\ new # NoRequest /\ new.step = "pay" /\ new.row = row
    BY <1>1, <1>2, <1>3, IdleAssumption DEF PInv, TypeOK, Request, Becomes
  <1> HIDE DEF new
  <1>5. /\ upvotes' \in [Users -> SUBSET Rows] /\ paid' \in [Users -> SUBSET Rows]
        /\ upvotes'[u] = upvotes[u] \cup {row}
        /\ \A v \in Users : v # u => upvotes'[v] = upvotes[v] /\ paid'[v] = paid[v]
        /\ \A v \in Users : upvotes[v] \subseteq upvotes'[v]
        /\ \A v \in Users : upvotes'[v] \subseteq upvotes[v] \cup {row}
        /\ \A v \in Users : paid[v] \subseteq paid'[v] \cup {row}
    BY <1>2, <1>3 DEF PInv, TypeOK
  <1>6. TypeOK' /\ Placed' /\ OneAtATime' /\ PaysForVotes'
    <2>1. \A t \in Sessions \ {s} : At(t, "pay") /\ ~crossed[SessionUser[t]] =>
              req[t].row \in upvotes'[SessionUser[t]]
      BY <1>5, SessionAssumption DEF PInv, PaysForVotes
    <2> QED BY <1>1, <1>3, <1>4, <1>5, <2>1, StepPInv DEF PInv, TypeOK
  <1>7. StandingVotesArePaid'
    <2>1. req'[s] = new /\ \A t \in Sessions : t # s => req'[t] = req[t]
      BY <1>4, Others DEF PInv
    <2> SUFFICES ASSUME NEW v \in Users, NEW r \in upvotes'[v], r \notin paid'[v], ~cut[v]
                 PROVE  \E t \in Of(v)' : req'[t].step = "pay" /\ req'[t].row = r
      BY <1>3 DEF StandingVotesArePaid
    <2>2. CASE r = row /\ v = u
      BY <2>1, <2>2, <1>4 DEF Of
    <2>3. CASE ~(r = row /\ v = u)
      <3>1. r \in upvotes[v] /\ r \notin paid[v]
        BY <2>3, <1>2, <1>5 DEF PInv, TypeOK
      <3>2. PICK t \in Of(v) : req[t].step = "pay" /\ req[t].row = r
        BY <3>1, <1>3 DEF StandingVotesArePaid, PInv
      <3>3. t \in Sessions /\ t # s
        BY <3>2, <1>1 DEF Of, At
      <3> QED BY <3>2, <3>3, <2>1 DEF Of
    <2> QED BY <2>2, <2>3
  <1> QED BY <1>6, <1>7 DEF PInv

LEMMA PayPInv ==
    ASSUME PInv, NEW s \in Sessions, Pay(s)
    PROVE  PInv'
  <1> DEFINE u == SessionUser[s]
  <1> u \in Users BY SessionAssumption
  <1>1. /\ At(s, "pay") /\ req[s] \in Request /\ req[s] # NoRequest
        /\ req[s].row \in Rows
    BY DEF Pay, At, PInv, TypeOK, Placed
  <1>2. /\ paid' = [paid EXCEPT ![u] = @ \cup {req[s].row}]
        /\ UNCHANGED <<upvotes, likes, solved, stops, crossed, cut>>
    BY DEF Pay, votes, history
  <1> DEFINE new == IF req[s].op = "like" THEN [req[s] EXCEPT !.step = "like"] ELSE NoRequest
  <1>3. Becomes(s, new) /\ (new # NoRequest => new.step = "like")
    <2>1. new \in Request \cup {NoRequest} /\ (new # NoRequest => new.step = "like")
      BY <1>1 DEF Request
    <2>2. req' = [req EXCEPT ![s] = new]
      BY DEF Pay, Goto, Done, PInv, TypeOK
    <2> QED BY <2>1, <2>2 DEF Becomes
  <1> HIDE DEF new
  <1>4. /\ paid' \in [Users -> SUBSET Rows]
        /\ \A v \in Users : paid[v] \subseteq paid'[v]
        /\ req[s].row \in paid'[u]
    BY <1>1, <1>2 DEF PInv, TypeOK
  <1>5. TypeOK' /\ Placed' /\ OneAtATime' /\ PaysForVotes'
    <2>1. \A t \in Sessions \ {s} : At(t, "pay") /\ ~crossed[SessionUser[t]] =>
              req[t].row \in upvotes'[SessionUser[t]]
      BY <1>2 DEF PInv, PaysForVotes
    <2> QED BY <1>1, <1>2, <1>3, <1>4, <2>1, StepPInv DEF PInv, TypeOK
  <1>6. StandingVotesArePaid'
    <2>1. req'[s] = new /\ \A t \in Sessions : t # s => req'[t] = req[t]
      BY <1>3, Others DEF PInv
    <2> SUFFICES ASSUME NEW v \in Users, NEW r \in upvotes[v], r \notin paid'[v], ~cut[v]
                 PROVE  \E t \in Of(v)' : req'[t].step = "pay" /\ req'[t].row = r
      BY <1>2 DEF StandingVotesArePaid
    <2>2. PICK t \in Of(v) : req[t].step = "pay" /\ req[t].row = r
      BY <1>4 DEF StandingVotesArePaid, PInv
    <2>3. t \in Sessions /\ t # s
      BY <2>2, <1>4 DEF Of
    <2> QED BY <2>1, <2>2, <2>3 DEF Of
  <1> QED BY <1>5, <1>6 DEF PInv

\* Storing and dropping a like.
LEMMA LikePInv ==
    ASSUME PInv, NEW s \in Sessions, StoreLike(s) \/ DropLike(s)
    PROVE  PInv'
  <1>1. /\ req[s] \in Request /\ req[s] # NoRequest /\ ~At(s, "pay")
        /\ UNCHANGED <<upvotes, solved, paid, stops, crossed, cut>>
        /\ likes' \in [Users -> Rows \cup {0}]
    <2>1. /\ req[s] \in Request /\ req[s] # NoRequest /\ ~At(s, "pay")
          /\ UNCHANGED <<upvotes, solved, paid, stops, crossed, cut>>
      BY DEF StoreLike, DropLike, history, At, PInv, TypeOK
    <2>2. likes' \in [Users -> Rows \cup {0}]
      <3>1. CASE StoreLike(s)
        <4> DEFINE free == Rows \ {req[t].like : t \in Of(SessionUser[s])}
                   id == CHOOSE like \in free : TRUE
        <4>1. /\ free # {}
              /\ likes' = [likes EXCEPT ![SessionUser[s]] = IF @ = 0 THEN id ELSE @]
          BY <3>1 DEF StoreLike
        <4>2. id \in Rows
          BY <4>1
        <4> HIDE DEF id, free
        <4> QED BY <4>1, <4>2 DEF PInv, TypeOK
      <3>2. CASE DropLike(s)
        BY <3>2 DEF DropLike, PInv, TypeOK
      <3> QED BY <3>1, <3>2
    <2> QED BY <2>1, <2>2
  <1>2. PICK new : Becomes(s, new) /\ (new # NoRequest => new.step = "destroy")
    <2>1. CASE Done(s)
      BY <2>1 DEF Done, Becomes
    <2>2. CASE Goto(s, "destroy")
      <3>1. [req[s] EXCEPT !.step = "destroy"] \in Request
        BY <1>1 DEF Request
      <3>2. req' = [req EXCEPT ![s] = [req[s] EXCEPT !.step = "destroy"]]
        BY <2>2 DEF Goto, PInv, TypeOK
      <3>3. [req[s] EXCEPT !.step = "destroy"].step = "destroy"
        BY <1>1 DEF Request
      <3> QED BY <3>1, <3>2, <3>3 DEF Becomes
    <2> QED BY <2>1, <2>2 DEF StoreLike, DropLike
  <1>3. TypeOK' /\ Placed' /\ OneAtATime' /\ PaysForVotes'
    <2>1. \A t \in Sessions \ {s} : At(t, "pay") /\ ~crossed[SessionUser[t]] =>
              req[t].row \in upvotes'[SessionUser[t]]
      BY <1>1 DEF PInv, PaysForVotes
    <2> QED BY <1>1, <1>2, <2>1, StepPInv DEF PInv, TypeOK
  <1>4. StandingVotesArePaid'
    BY <1>1, <1>2, StillPaid DEF StandingVotesArePaid
  <1> QED BY <1>3, <1>4 DEF PInv

LEMMA DropVotePInv ==
    ASSUME PInv, NEW s \in Sessions, DropVote(s)
    PROVE  PInv'
  <1> DEFINE u == SessionUser[s]
  <1> u \in Users BY SessionAssumption
  <1>1. /\ req[s] \in Request /\ req[s] # NoRequest /\ ~At(s, "pay")
        /\ UNCHANGED <<likes, solved, paid, stops, crossed, cut>>
        /\ upvotes' = [upvotes EXCEPT ![u] = @ \ {req[s].row}]
    BY DEF DropVote, history, At, PInv, TypeOK
  <1>2. Becomes(s, NoRequest)
    BY DEF DropVote, Done, Becomes
  <1>3. /\ upvotes' \in [Users -> SUBSET Rows]
        /\ \A v \in Users : upvotes'[v] \subseteq upvotes[v]
        /\ \A v \in Users : v # u => upvotes'[v] = upvotes[v]
    BY <1>1 DEF PInv, TypeOK
  <1>4. TypeOK' /\ Placed' /\ OneAtATime' /\ PaysForVotes'
    <2>1. \A t \in Sessions \ {s} : At(t, "pay") /\ ~crossed[SessionUser[t]] =>
              req[t].row \in upvotes'[SessionUser[t]]
      <3> SUFFICES ASSUME NEW t \in Sessions \ {s}, At(t, "pay"), ~crossed[SessionUser[t]]
                   PROVE  req[t].row \in upvotes'[SessionUser[t]]
        OBVIOUS
      <3>1. SessionUser[t] # u
        BY <1>1, Alone DEF At
      <3> QED BY <3>1, <1>3, SessionAssumption DEF PInv, PaysForVotes
    <2> QED BY <1>1, <1>2, <1>3, <2>1, StepPInv DEF PInv, TypeOK
  <1>5. StandingVotesArePaid'
    BY <1>1, <1>2, <1>3, StillPaid DEF StandingVotesArePaid
  <1> QED BY <1>4, <1>5 DEF PInv

LEMMA StopPInv ==
    ASSUME PInv, NEW s \in Sessions, StopRequest(s)
    PROVE  PInv'
  <1> DEFINE u == SessionUser[s]
  <1> u \in Users BY SessionAssumption
  <1>1. /\ req[s] # NoRequest
        /\ UNCHANGED <<upvotes, likes, solved, paid, crossed>>
        /\ cut' = [cut EXCEPT ![u] = TRUE]
        /\ stops' \in 0..MaxStops
    BY RowsAssumption DEF StopRequest, votes, PInv, TypeOK
  <1>2. Becomes(s, NoRequest)
    BY DEF StopRequest, Done, Becomes
  <1>3. TypeOK' /\ Placed' /\ OneAtATime' /\ PaysForVotes'
    <2>1. \A t \in Sessions \ {s} : At(t, "pay") /\ ~crossed[SessionUser[t]] =>
              req[t].row \in upvotes'[SessionUser[t]]
      BY <1>1 DEF PInv, PaysForVotes
    <2>2. cut' \in [Users -> BOOLEAN]
      BY <1>1 DEF PInv, TypeOK
    <2> QED BY <1>1, <1>2, <2>1, <2>2, StepPInv DEF PInv, TypeOK
  <1>4. StandingVotesArePaid'
    <2>1. \A t \in Sessions : t # s => req'[t] = req[t]
      BY <1>2, Others DEF PInv
    <2> SUFFICES ASSUME NEW v \in Users, NEW r \in upvotes[v], r \notin paid[v], ~cut'[v]
                 PROVE  \E t \in Of(v)' : req'[t].step = "pay" /\ req'[t].row = r
      BY <1>1 DEF StandingVotesArePaid
    <2>2. v # u /\ ~cut[v]
      BY <1>1 DEF PInv, TypeOK
    <2>3. PICK t \in Of(v) : req[t].step = "pay" /\ req[t].row = r
      BY <2>2 DEF StandingVotesArePaid, PInv
    <2>4. t \in Sessions /\ t # s
      BY <2>2, <2>3 DEF Of
    <2> QED BY <2>1, <2>3, <2>4 DEF Of
  <1> QED BY <1>3, <1>4 DEF PInv

LEMMA SolvePInv ==
    ASSUME PInv, Solve \/ UNCHANGED vars
    PROVE  PInv'
  <1>1. /\ UNCHANGED <<upvotes, likes, paid, req, stops, crossed, cut>>
        /\ solved' \in BOOLEAN
    BY DEF Solve, vars, votes, history, PInv, TypeOK
  <1>2. TypeOK'
    BY <1>1 DEF PInv, TypeOK
  <1> QED BY <1>1, <1>2 DEF PInv, Placed, OneAtATime, PaysForVotes, StandingVotesArePaid, At, Of

LEMMA NextPInv ==
    ASSUME PInv, [Next]_vars PROVE PInv'
  <1>1. ASSUME NEW s \in Sessions, Like(s) \/ Unlike(s) \/ Vote(s) \/ Unvote(s) PROVE PInv'
    BY <1>1, BeginPInv DEF Like, Unlike, Vote, Unvote
  <1>2. ASSUME NEW s \in Sessions, Find(s) \/ Create(s) \/ Pay(s) PROVE PInv'
    BY <1>2, FindPInv, CreatePInv, PayPInv
  <1>3. ASSUME NEW s \in Sessions, StoreLike(s) \/ DropLike(s) \/ DropVote(s) PROVE PInv'
    BY <1>3, LikePInv, DropVotePInv
  <1> QED BY <1>1, <1>2, <1>3, StopPInv, SolvePInv DEF Next

\* Every column, row and request keeps its type.
THEOREM TypeCorrect == Spec => []TypeOK
  <1>1. PInv => TypeOK
    BY DEF PInv
  <1> QED BY InitPInv, NextPInv, <1>1, PTL DEF Spec

\* However many sessions a user has, a vote that stands was rewarded or is about
\* to be, unless the process stopped.
THEOREM VotesArePaid == Spec => []StandingVotesArePaid
  <1>1. PInv => StandingVotesArePaid
    BY DEF PInv
  <1> QED BY InitPInv, NextPInv, <1>1, PTL DEF Spec

\* Points are never added for a vote that was taken back, unless requests of
\* the user cross.
THEOREM PointsForVotes == Spec => PointsForStandingVotes
  <1> DEFINE P == \A u \in Users : paid'[u] \ paid[u] \subseteq upvotes'[u] \/ crossed[u]
  <1>1. ASSUME PInv, [Next]_vars PROVE P
    <2>1. ASSUME NEW s \in Sessions, Pay(s) PROVE P
      <3> SUFFICES ASSUME NEW u \in Users, ~crossed[u]
                   PROVE  paid'[u] \ paid[u] \subseteq upvotes'[u]
        OBVIOUS
      <3>1. CASE u = SessionUser[s]
        <4>1. req[s].row \in upvotes[u] /\ UNCHANGED upvotes
          BY <1>1, <3>1, <2>1 DEF Pay, votes, PInv, PaysForVotes
        <4>2. paid'[u] = paid[u] \cup {req[s].row}
          BY <1>1, <3>1, <2>1 DEF Pay, PInv, TypeOK
        <4> QED BY <4>1, <4>2
      <3>2. CASE u # SessionUser[s]
        BY <1>1, <3>2, <2>1 DEF Pay, PInv, TypeOK
      <3> QED BY <3>1, <3>2
    <2>2. ASSUME NEW s \in Sessions, Create(s) PROVE P
      <3>1. PICK row \in Fresh(SessionUser[s]) :
                paid' = [paid EXCEPT ![SessionUser[s]] = @ \ {row}]
        BY <2>2 DEF Create
      <3> QED BY <1>1, <3>1 DEF PInv, TypeOK
    <2>3. CASE UNCHANGED paid
      BY <2>3
    <2>4. ASSUME NEW s \in Sessions, Like(s) \/ Unlike(s) \/ Vote(s) \/ Unvote(s) \/ Find(s)
          PROVE UNCHANGED paid
      BY <2>4 DEF Like, Unlike, Vote, Unvote, Begin, Find
    <2>5. ASSUME NEW s \in Sessions,
                 StoreLike(s) \/ DropLike(s) \/ DropVote(s) \/ StopRequest(s)
          PROVE UNCHANGED paid
      BY <2>5 DEF StoreLike, DropLike, DropVote, StopRequest
    <2>6. CASE Solve \/ UNCHANGED vars
      BY <2>6, <2>3 DEF Solve, vars
    <2> QED BY <1>1, <2>1, <2>2, <2>3, <2>4, <2>5, <2>6 DEF Next
  <1>2. PInv /\ [Next]_vars => [P]_vars
    BY <1>1
  <1> QED BY InitPInv, NextPInv, <1>2, PTL DEF Spec, PointsForStandingVotes

-----------------------------------------------------------------------------
(* How many upvotes a user has.                                            *)

\* What a request of a user has found, as long as no other crosses it.
Kept(s) ==
    LET u == SessionUser[s] IN
    CASE req[s].op = "like" -> req[s].step \in {"create", "pay", "like"} /\ likes[u] = 0
      [] req[s].op = "vote" ->
            /\ req[s].step \in {"find", "create", "pay"}
            /\ req[s].step = "create" => upvotes[u] = {}
      [] req[s].op = "unlike" ->
            \/ /\ req[s].step \in {"find", "unlike"}
               /\ likes[u] # 0 /\ req[s].like = likes[u]
               /\ req[s].step = "unlike" => req[s].row \in FirstOf(u)
            \/ req[s].step = "destroy" /\ likes[u] = 0 /\ req[s].row \in upvotes[u]
      [] req[s].op = "unvote" ->
            \/ req[s].step = "find"
            \/ req[s].step = "destroy" /\ req[s].row \in upvotes[u]

Tidy(u) == ~(crossed[u] \/ cut[u])

CountInv ==
    /\ \A s \in Sessions : (req[s] # NoRequest /\ Tidy(SessionUser[s])) => Kept(s)
    /\ \A u \in Users : IsFiniteSet(upvotes[u])
    /\ UpvotesWithinLikes

\* The like that the upvotes of a request count for.
LikeWay(r) ==
    /\ r # NoRequest
    /\ \/ r.op = "like" /\ r.step \in {"pay", "like"}
       \/ r.op = "unlike" /\ r.step = "destroy"

Allowed(liked) == 1 + (IF liked THEN 1 ELSE 0)

\* A step of session s is about its user, who has no other request in flight.
LEMMA StepCount ==
    ASSUME PInv, CountInv, NEW s \in Sessions, NEW new, Becomes(s, new),
           \A v \in Users \ {SessionUser[s]} :
              upvotes'[v] = upvotes[v] /\ likes'[v] = likes[v],
           \A v \in Users : Tidy(v)' => Tidy(v),
           IsFiniteSet(upvotes'[SessionUser[s]]),
           Tidy(SessionUser[s])' =>
              /\ \A t \in Sessions \ {s} :
                    SessionUser[t] = SessionUser[s] => req[t] = NoRequest
              /\ new # NoRequest => Kept(s)'
              /\ Cardinality(upvotes'[SessionUser[s]]) <=
                    Allowed(likes'[SessionUser[s]] # 0 \/ LikeWay(new))
    PROVE  CountInv'
  <1> DEFINE u == SessionUser[s]
  <1> u \in Users BY SessionAssumption
  <1>1. req'[s] = new /\ \A t \in Sessions : t # s => req'[t] = req[t]
    BY Others DEF PInv
  <1>2. ASSUME NEW t \in Sessions, req'[t] # NoRequest, Tidy(SessionUser[t])'
        PROVE  Kept(t)'
    <2>1. CASE t = s
      BY <1>1, <1>2, <2>1
    <2>2. CASE t # s
      <3>1. SessionUser[t] # u /\ req'[t] = req[t] /\ SessionUser[t] \in Users
        BY <1>1, <1>2, <2>2, SessionAssumption
      <3>2. Kept(t)
        BY <1>2, <3>1 DEF CountInv
      <3> QED BY <3>1, <3>2 DEF Kept, FirstOf
    <2> QED BY <2>1, <2>2
  <1>3. ASSUME NEW v \in Users PROVE IsFiniteSet(upvotes'[v])
    BY DEF CountInv
  <1>4. ASSUME NEW v \in Users, Tidy(v)'
        PROVE  Cardinality(upvotes'[v]) <= Allowed(likes'[v] # 0 \/ LikeUnderWay(v)')
    <2>1. CASE v # u
      <3>1. LikeUnderWay(v)' <=> LikeUnderWay(v)
        BY <2>1, <1>1 DEF LikeUnderWay, Of
      <3>2. Cardinality(upvotes[v]) <= Allowed(likes[v] # 0 \/ LikeUnderWay(v))
        BY <1>4 DEF CountInv, UpvotesWithinLikes, Tidy, Allowed
      <3> QED BY <2>1, <3>1, <3>2
    <2>2. CASE v = u
      <3>1. LikeUnderWay(v)' <=> LikeWay(new)
        BY <2>2, <1>1, <1>4 DEF LikeUnderWay, Of, LikeWay
      <3> QED BY <2>2, <3>1, <1>4
    <2> QED BY <2>1, <2>2
  <1>5. UpvotesWithinLikes'
    BY <1>4 DEF UpvotesWithinLikes, Tidy, Allowed
  <1> QED BY <1>2, <1>3, <1>5 DEF CountInv

\* What is known of a user before a request of its only session goes on.
LEMMA Before ==
    ASSUME PInv, CountInv, NEW s \in Sessions, Tidy(SessionUser[s]), req[s] # NoRequest
    PROVE  /\ \A t \in Sessions \ {s} : SessionUser[t] = SessionUser[s] => req[t] = NoRequest
           /\ Kept(s)
           /\ Cardinality(upvotes[SessionUser[s]]) <=
                 Allowed(likes[SessionUser[s]] # 0 \/ LikeWay(req[s]))
  <1> DEFINE u == SessionUser[s]
  <1> u \in Users BY SessionAssumption
  <1>1. \A t \in Sessions \ {s} : SessionUser[t] = u => req[t] = NoRequest
    BY Alone DEF Tidy
  <1>2. LikeUnderWay(u) <=> LikeWay(req[s])
    BY <1>1 DEF LikeUnderWay, Of, LikeWay
  <1>3. Cardinality(upvotes[u]) <= Allowed(likes[u] # 0 \/ LikeUnderWay(u))
    BY DEF CountInv, UpvotesWithinLikes, Tidy, Allowed
  <1> QED BY <1>1, <1>2, <1>3 DEF CountInv

LEMMA BeginCount ==
    ASSUME PInv, CountInv, NEW s \in Sessions,
           Like(s) \/ Unlike(s) \/ Vote(s) \/ Unvote(s)
    PROVE  CountInv'
  <1> DEFINE u == SessionUser[s]
  <1> u \in Users BY SessionAssumption
  <1>1. PICK op \in {"like", "unlike", "vote", "unvote"}, step \in {"find", "create"} :
           /\ Begin(s, op, step)
           /\ step = "create" <=> op = "like"
           /\ op = "like" => likes[u] = 0
           /\ op = "unlike" => likes[u] # 0
    BY DEF Like, Unlike, Vote, Unvote
  <1> DEFINE new == [op |-> op, step |-> step, row |-> 0,
                     like |-> IF op = "unlike" THEN likes[u] ELSE 0]
  <1>2. Becomes(s, new) /\ new \in Request
    BY <1>1 DEF Begin, Becomes, Request, PInv, TypeOK
  <1>3. UNCHANGED <<upvotes, likes, cut>>
    BY <1>1 DEF Begin, votes
  <1>4. /\ \A v \in Users : crossed[v] => crossed'[v]
        /\ crossed'[u] = (crossed[u] \/ Of(u) # {})
    BY <1>1 DEF Begin, PInv, TypeOK
  <1>5. \A v \in Users : Tidy(v)' => Tidy(v)
    BY <1>3, <1>4 DEF Tidy
  <1>6. ASSUME Tidy(u)'
        PROVE  \A t \in Sessions \ {s} : SessionUser[t] = u => req[t] = NoRequest
    BY <1>4, <1>6 DEF Tidy, Of
  <1>7. Kept(s)'
    <2>1. req'[s] = new
      BY <1>2, Others DEF PInv
    <2>2. /\ req'[s].op = op /\ req'[s].step = step
          /\ op = "unlike" => req'[s].like = likes[u]
      BY <2>1
    <2> HIDE DEF new
    <2>3. likes' = likes
      BY <1>3
    <2> QED BY <1>1, <2>2, <2>3 DEF Kept
  <1>8. ASSUME Tidy(u)' PROVE Cardinality(upvotes'[u]) <= Allowed(likes'[u] # 0 \/ LikeWay(new))
    <2>1. req[s] = NoRequest
      BY <1>1 DEF Begin
    <2>2. ~LikeUnderWay(u)
      BY <1>6, <1>8, <2>1 DEF LikeUnderWay, Of
    <2>3. Cardinality(upvotes[u]) <= Allowed(likes[u] # 0)
      BY <1>5, <1>8, <2>2 DEF CountInv, UpvotesWithinLikes, Tidy, Allowed
    <2>4. ~LikeWay(new)
      BY <1>1 DEF LikeWay
    <2>5. Cardinality(upvotes'[u]) <= Allowed(likes'[u] # 0)
      BY <1>3, <2>3
    <2> HIDE DEF new
    <2> QED BY <2>4, <2>5 DEF Allowed
  <1>9. IsFiniteSet(upvotes'[u])
    BY <1>3 DEF CountInv
  <1> HIDE DEF new
  <1> QED BY <1>2, <1>3, <1>5, <1>6, <1>7, <1>8, <1>9, StepCount

\* The steps of a request that leave the upvotes and the likes alone.
LEMMA GoOnCount ==
    ASSUME PInv, CountInv, NEW s \in Sessions, req[s] # NoRequest, NEW new, Becomes(s, new),
           UNCHANGED <<upvotes, likes, crossed, cut>>,
           Kept(s) => /\ LikeWay(new) <=> LikeWay(req[s])
                      /\ new # NoRequest => Kept(s)'
    PROVE  CountInv'
  <1> DEFINE u == SessionUser[s]
  <1> u \in Users BY SessionAssumption
  <1>1. \A v \in Users : Tidy(v)' <=> Tidy(v)
    BY DEF Tidy
  <1>2. ASSUME Tidy(u)
        PROVE  /\ \A t \in Sessions \ {s} : SessionUser[t] = u => req[t] = NoRequest
               /\ new # NoRequest => Kept(s)'
               /\ Cardinality(upvotes'[u]) <= Allowed(likes'[u] # 0 \/ LikeWay(new))
    BY <1>2, Before
  <1>3. IsFiniteSet(upvotes'[u])
    BY DEF CountInv
  <1> QED BY <1>1, <1>2, <1>3, StepCount

LEMMA FindCount ==
    ASSUME PInv, CountInv, NEW s \in Sessions, Find(s)
    PROVE  CountInv'
  <1> DEFINE u == SessionUser[s]
  <1> u \in Users BY SessionAssumption
  <1>1. /\ At(s, "find") /\ req[s] \in Request /\ req[s] # NoRequest
        /\ UNCHANGED <<upvotes, likes, crossed, cut>>
    BY DEF Find, At, votes, history, PInv, TypeOK
  <1>2. PICK row \in FirstOf(u) :
           IF req[s].op = "unvote" /\ row = 0 THEN Done(s)
           ELSE req' = [req EXCEPT ![s].step = Found(s, row), ![s].row = row]
    BY DEF Find
  <1>3. /\ row \in Rows \cup {0} /\ (row # 0 => row \in upvotes[u])
        /\ row = 0 => upvotes[u] = {}
    BY RowsAssumption DEF FirstOf, PInv, TypeOK
  <1> DEFINE new == IF req[s].op = "unvote" /\ row = 0 THEN NoRequest
                    ELSE [req[s] EXCEPT !.step = Found(s, row), !.row = row]
  <1>4. Becomes(s, new)
    <2>1. new \in Request \cup {NoRequest}
      BY <1>1, <1>3 DEF Found, Request
    <2>2. req' = [req EXCEPT ![s] = new]
      BY <1>2 DEF Done, PInv, TypeOK
    <2> QED BY <2>1, <2>2 DEF Becomes
  <1>5. new # NoRequest => /\ new.op = req[s].op /\ new.step = Found(s, row) /\ new.row = row
                           /\ new.like = req[s].like
    BY <1>1 DEF Request
  <1>6. new # NoRequest => ~(req[s].op = "unvote" /\ row = 0)
    OBVIOUS
  <1> HIDE DEF new
  <1>7. req'[s] = new
    BY <1>4, Others DEF PInv
  <1>8. ASSUME Kept(s)
        PROVE  /\ LikeWay(new) <=> LikeWay(req[s])
               /\ new # NoRequest => Kept(s)'
    <2>1. CASE req[s].op = "like"
      BY <1>1, <1>8, <2>1 DEF Kept, At
    <2>2. CASE req[s].op = "vote"
      BY <1>1, <1>3, <1>5, <1>7, <2>2 DEF Kept, At, LikeWay, Found
    <2>3. CASE req[s].op = "unlike"
      <3>1. likes[u] # 0 /\ req[s].like = likes[u] /\ row \in FirstOf(u)'
        BY <1>1, <1>2, <1>8, <2>3 DEF Kept, At, FirstOf
      <3> QED BY <1>1, <1>5, <1>7, <2>3, <3>1 DEF Kept, At, LikeWay, Found
    <2>4. CASE req[s].op = "unvote"
      BY <1>1, <1>3, <1>5, <1>6, <1>7, <2>4 DEF Kept, At, LikeWay, Found
    <2> QED BY <1>1, <2>1, <2>2, <2>3, <2>4 DEF Request
  <1> QED BY <1>1, <1>4, <1>8, GoOnCount

LEMMA PayCount ==
    ASSUME PInv, CountInv, NEW s \in Sessions, Pay(s)
    PROVE  CountInv'
  <1>1. /\ At(s, "pay") /\ req[s] \in Request /\ req[s] # NoRequest
        /\ UNCHANGED <<upvotes, likes, crossed, cut>>
    BY DEF Pay, At, votes, history, PInv, TypeOK
  <1> DEFINE new == IF req[s].op = "like" THEN [req[s] EXCEPT !.step = "like"] ELSE NoRequest
  <1>2. Becomes(s, new)
    <2>1. new \in Request \cup {NoRequest}
      BY <1>1 DEF Request
    <2>2. req' = [req EXCEPT ![s] = new]
      BY DEF Pay, Goto, Done, PInv, TypeOK
    <2> QED BY <2>1, <2>2 DEF Becomes
  <1>3. new # NoRequest => new.op = "like" /\ new.step = "like" /\ req[s].op = "like"
    BY <1>1 DEF Request
  <1>4. req[s].op = "like" => new # NoRequest
    BY <1>1, IdleAssumption DEF Request
  <1> HIDE DEF new
  <1>5. req'[s] = new
    BY <1>2, Others DEF PInv
  <1>6. ASSUME Kept(s)
        PROVE  /\ LikeWay(new) <=> LikeWay(req[s])
               /\ new # NoRequest => Kept(s)'
    BY <1>1, <1>3, <1>4, <1>5, <1>6 DEF Kept, At, LikeWay, Request
  <1> QED BY <1>1, <1>2, <1>6, GoOnCount

LEMMA StopCount ==
    ASSUME PInv, CountInv, NEW s \in Sessions, StopRequest(s)
    PROVE  CountInv'
  <1> DEFINE u == SessionUser[s]
  <1> u \in Users BY SessionAssumption
  <1>1. UNCHANGED <<upvotes, likes, crossed>> /\ cut' = [cut EXCEPT ![u] = TRUE]
    BY DEF StopRequest, votes
  <1>2. Becomes(s, NoRequest)
    BY DEF StopRequest, Done, Becomes
  <1>3. \A v \in Users : Tidy(v)' => Tidy(v) /\ v # u
    BY <1>1 DEF Tidy, PInv, TypeOK
  <1>4. IsFiniteSet(upvotes'[u])
    BY <1>1 DEF CountInv
  <1> QED BY <1>1, <1>2, <1>3, <1>4, StepCount

LEMMA CreateCount ==
    ASSUME PInv, CountInv, NEW s \in Sessions, Create(s)
    PROVE  CountInv'
  <1> DEFINE u == SessionUser[s]
  <1> u \in Users BY SessionAssumption
  <1>1. /\ At(s, "create") /\ req[s] \in Request /\ req[s] # NoRequest
        /\ UNCHANGED <<likes, crossed, cut>>
    BY DEF Create, At, history, PInv, TypeOK
  <1>2. PICK row \in Fresh(u) :
          /\ upvotes' = [upvotes EXCEPT ![u] = @ \cup {row}]
          /\ req' = [req EXCEPT ![s].step = "pay", ![s].row = row]
    BY DEF Create
  <1> DEFINE new == [req[s] EXCEPT !.step = "pay", !.row = row]
  <1>3. Becomes(s, new) /\ new # NoRequest /\ new.op = req[s].op /\ new.step = "pay"
    BY <1>1, <1>2, IdleAssumption DEF PInv, TypeOK, Request, Becomes, Fresh
  <1> HIDE DEF new
  <1>4. /\ upvotes'[u] = upvotes[u] \cup {row}
        /\ \A v \in Users \ {u} : upvotes'[v] = upvotes[v]
        /\ row \notin upvotes[u]
    BY <1>2 DEF PInv, TypeOK, Fresh
  <1>5. IsFiniteSet(upvotes'[u]) /\ Cardinality(upvotes'[u]) = Cardinality(upvotes[u]) + 1
    <2>1. IsFiniteSet(upvotes[u])
      BY DEF CountInv
    <2>2. /\ IsFiniteSet(upvotes[u] \cup {row})
          /\ Cardinality(upvotes[u] \cup {row}) = Cardinality(upvotes[u]) + 1
      BY <1>4, <2>1, FS_AddElement
    <2> QED BY <1>4, <2>2
  <1>6. Cardinality(upvotes[u]) \in Nat
    BY FS_CardinalityType DEF CountInv
  <1>7. req'[s] = new
    BY <1>3, Others DEF PInv
  <1>8. ASSUME Tidy(u)
        PROVE  /\ \A t \in Sessions \ {s} : SessionUser[t] = u => req[t] = NoRequest
               /\ Kept(s)'
               /\ Cardinality(upvotes'[u]) <= Allowed(likes'[u] # 0 \/ LikeWay(new))
    <2>1. /\ \A t \in Sessions \ {s} : SessionUser[t] = u => req[t] = NoRequest
          /\ Kept(s)
          /\ Cardinality(upvotes[u]) <= Allowed(likes[u] # 0 \/ LikeWay(req[s]))
      BY <1>1, <1>8, Before
    <2>2. CASE req[s].op = "like"
      <3>1. likes[u] = 0 /\ ~LikeWay(req[s])
        BY <1>1, <2>1, <2>2 DEF Kept, LikeWay, At
      <3>2. LikeWay(new) /\ Kept(s)'
        BY <1>1, <1>3, <1>7, <2>2, <3>1 DEF LikeWay, Kept
      <3> QED BY <1>5, <1>6, <2>1, <3>1, <3>2 DEF Allowed
    <2>3. CASE req[s].op = "vote"
      <3>1. upvotes[u] = {} /\ Kept(s)'
        BY <1>1, <1>3, <1>7, <2>1, <2>3 DEF Kept, At
      <3>2. Cardinality(upvotes'[u]) = 1
        BY <3>1, <1>5, FS_EmptySet
      <3> QED BY <2>1, <3>1, <3>2 DEF Allowed
    <2>4. req[s].op \in {"like", "vote"}
      BY <1>1, <2>1 DEF Kept, At, Request
    <2> QED BY <2>2, <2>3, <2>4
  <1>9. \A v \in Users : Tidy(v)' <=> Tidy(v)
    BY <1>1 DEF Tidy
  <1> QED BY <1>1, <1>3, <1>4, <1>5, <1>8, <1>9, StepCount

LEMMA StoreLikeCount ==
    ASSUME PInv, CountInv, NEW s \in Sessions, StoreLike(s)
    PROVE  CountInv'
  <1> DEFINE u == SessionUser[s]
  <1> u \in Users BY SessionAssumption
  <1>1. /\ At(s, "like") /\ req[s] \in Request /\ req[s] # NoRequest
        /\ UNCHANGED <<upvotes, crossed, cut>>
    BY DEF StoreLike, At, history, PInv, TypeOK
  <1>2. Becomes(s, NoRequest)
    BY DEF StoreLike, Done, Becomes
  <1>3. likes'[u] # 0 /\ \A v \in Users \ {u} : likes'[v] = likes[v]
    <2> DEFINE free == Rows \ {req[t].like : t \in Of(u)}
               id == CHOOSE like \in free : TRUE
    <2>1. /\ free # {}
          /\ likes' = [likes EXCEPT ![u] = IF @ = 0 THEN id ELSE @]
      BY DEF StoreLike
    <2>2. id # 0
      BY <2>1, RowsAssumption
    <2> HIDE DEF id, free
    <2> QED BY <2>1, <2>2 DEF PInv, TypeOK
  <1>4. \A v \in Users : Tidy(v)' <=> Tidy(v)
    BY <1>1 DEF Tidy
  <1>5. IsFiniteSet(upvotes'[u]) /\ Cardinality(upvotes[u]) \in Nat
    BY <1>1, FS_CardinalityType DEF CountInv
  <1>6. ASSUME Tidy(u)
        PROVE  /\ \A t \in Sessions \ {s} : SessionUser[t] = u => req[t] = NoRequest
               /\ Cardinality(upvotes'[u]) <= Allowed(likes'[u] # 0 \/ LikeWay(NoRequest))
    BY <1>1, <1>3, <1>5, <1>6, Before DEF Allowed
  <1> QED BY <1>1, <1>2, <1>3, <1>4, <1>5, <1>6, StepCount

LEMMA DropLikeCount ==
    ASSUME PInv, CountInv, NEW s \in Sessions, DropLike(s)
    PROVE  CountInv'
  <1> DEFINE u == SessionUser[s]
  <1> u \in Users BY SessionAssumption
  <1>1. /\ At(s, "unlike") /\ req[s] \in Request /\ req[s] # NoRequest
        /\ UNCHANGED <<upvotes, crossed, cut>>
        /\ likes' = [likes EXCEPT ![u] = IF @ = req[s].like THEN 0 ELSE @]
    BY DEF DropLike, At, history, PInv, TypeOK
  <1> DEFINE new == IF req[s].row = 0 THEN NoRequest ELSE [req[s] EXCEPT !.step = "destroy"]
  <1>2. Becomes(s, new)
    <2>1. new \in Request \cup {NoRequest}
      BY <1>1 DEF Request
    <2>2. req' = [req EXCEPT ![s] = new]
      BY DEF DropLike, Goto, Done, PInv, TypeOK
    <2> QED BY <2>1, <2>2 DEF Becomes
  <1>3. new # NoRequest => /\ new.op = req[s].op /\ new.step = "destroy"
                           /\ new.row = req[s].row
    BY <1>1 DEF Request
  <1>4. new = NoRequest <=> req[s].row = 0
    BY <1>1, IdleAssumption DEF Request
  <1> HIDE DEF new
  <1>5. req'[s] = new
    BY <1>2, Others DEF PInv
  <1>6. /\ req[s].like = likes[u] => likes'[u] = 0
        /\ \A v \in Users \ {u} : likes'[v] = likes[v]
    BY <1>1 DEF PInv, TypeOK
  <1>7. \A v \in Users : Tidy(v)' <=> Tidy(v)
    BY <1>1 DEF Tidy
  <1>8. IsFiniteSet(upvotes'[u]) /\ Cardinality(upvotes[u]) \in Nat
    BY <1>1, FS_CardinalityType DEF CountInv
  <1>9. ASSUME Tidy(u)
        PROVE  /\ \A t \in Sessions \ {s} : SessionUser[t] = u => req[t] = NoRequest
               /\ new # NoRequest => Kept(s)'
               /\ Cardinality(upvotes'[u]) <= Allowed(likes'[u] # 0 \/ LikeWay(new))
    <2>1. /\ \A t \in Sessions \ {s} : SessionUser[t] = u => req[t] = NoRequest
          /\ Kept(s)
          /\ Cardinality(upvotes[u]) <= Allowed(likes[u] # 0 \/ LikeWay(req[s]))
      BY <1>1, <1>9, Before
    <2>2. /\ req[s].op = "unlike" /\ req[s].row \in FirstOf(u)
          /\ likes[u] # 0 /\ likes'[u] = 0
      BY <1>1, <1>6, <2>1 DEF Kept, At, Request
    <2>3. CASE upvotes[u] = {}
      <3>1. new = NoRequest /\ Cardinality(upvotes'[u]) = 0
        BY <1>1, <1>4, <2>2, <2>3, FS_EmptySet DEF FirstOf
      <3> QED BY <2>1, <3>1 DEF Allowed
    <2>4. CASE upvotes[u] # {}
      <3>1. req[s].row \in upvotes[u] /\ req[s].row # 0
        BY <2>2, <2>4, RowsAssumption DEF FirstOf, PInv, TypeOK
      <3>2. new # NoRequest /\ LikeWay(new) /\ Kept(s)'
        BY <1>1, <1>3, <1>4, <1>5, <2>2, <3>1 DEF Kept, LikeWay
      <3>3. Cardinality(upvotes[u]) <= 2
        BY <1>8, <2>1 DEF Allowed
      <3> QED BY <1>1, <2>1, <3>2, <3>3 DEF Allowed
    <2> QED BY <2>3, <2>4
  <1> QED BY <1>1, <1>2, <1>6, <1>7, <1>8, <1>9, StepCount

LEMMA DropVoteCount ==
    ASSUME PInv, CountInv, NEW s \in Sessions, DropVote(s)
    PROVE  CountInv'
  <1> DEFINE u == SessionUser[s]
             row == req[s].row
  <1> u \in Users BY SessionAssumption
  <1>1. /\ At(s, "destroy") /\ req[s] \in Request /\ req[s] # NoRequest
        /\ UNCHANGED <<likes, crossed, cut>>
        /\ upvotes' = [upvotes EXCEPT ![u] = @ \ {row}]
    BY DEF DropVote, At, history, PInv, TypeOK
  <1>2. Becomes(s, NoRequest)
    BY DEF DropVote, Done, Becomes
  <1>3. /\ upvotes'[u] = upvotes[u] \ {row}
        /\ \A v \in Users \ {u} : upvotes'[v] = upvotes[v]
    BY <1>1 DEF PInv, TypeOK
  <1>4. \A v \in Users : Tidy(v)' <=> Tidy(v)
    BY <1>1 DEF Tidy
  <1>5. IsFiniteSet(upvotes[u]) /\ Cardinality(upvotes[u]) \in Nat
    BY FS_CardinalityType DEF CountInv
  <1>6. /\ IsFiniteSet(upvotes[u] \ {row})
        /\ row \in upvotes[u] =>
              Cardinality(upvotes[u] \ {row}) = Cardinality(upvotes[u]) - 1
    BY <1>5, FS_RemoveElement
  <1>7. ASSUME Tidy(u)
        PROVE  /\ \A t \in Sessions \ {s} : SessionUser[t] = u => req[t] = NoRequest
               /\ Cardinality(upvotes'[u]) <= Allowed(likes'[u] # 0 \/ LikeWay(NoRequest))
    <2>1. /\ \A t \in Sessions \ {s} : SessionUser[t] = u => req[t] = NoRequest
          /\ Kept(s)
          /\ Cardinality(upvotes[u]) <= Allowed(likes[u] # 0 \/ LikeWay(req[s]))
      BY <1>1, <1>7, Before
    <2>2. row \in upvotes[u]
      BY <1>1, <2>1 DEF Kept, At, Request
    <2>3. Cardinality(upvotes'[u]) = Cardinality(upvotes[u]) - 1
      BY <1>3, <1>6, <2>2
    <2>4. Cardinality(upvotes[u]) <= 2
      BY <1>5, <2>1 DEF Allowed
    <2>5. Cardinality(upvotes'[u]) <= 1
      BY <1>5, <2>3, <2>4
    <2>6. Cardinality(upvotes'[u]) \in Int
      BY <1>5, <2>3
    <2> QED BY <2>1, <2>5, <2>6 DEF Allowed, LikeWay
  <1>8. IsFiniteSet(upvotes'[u])
    BY <1>3, <1>6
  <1> QED BY <1>1, <1>2, <1>3, <1>4, <1>7, <1>8, StepCount

LEMMA SolveCount ==
    ASSUME PInv, CountInv, Solve \/ UNCHANGED vars
    PROVE  CountInv'
  <1>1. UNCHANGED <<upvotes, likes, req, crossed, cut>>
    BY DEF Solve, vars, votes, history
  <1>2. UpvotesWithinLikes'
    BY <1>1 DEF CountInv, UpvotesWithinLikes, LikeUnderWay, Of
  <1>3. ASSUME NEW s \in Sessions, req'[s] # NoRequest, Tidy(SessionUser[s])'
        PROVE  Kept(s)'
    <2>1. Kept(s)
      BY <1>1, <1>3 DEF CountInv, Tidy
    <2> QED BY <1>1, <2>1 DEF Kept, FirstOf
  <1> QED BY <1>1, <1>2, <1>3 DEF CountInv

\* A user whose requests come one after another has one upvote, and one more
\* for the like of the answer.
THEOREM UpvotesFollowLikes == Spec => []UpvotesWithinLikes
  <1> DEFINE I == PInv /\ CountInv
  <1>1. ASSUME Init PROVE I
    <2>1. \A u \in Users : IsFiniteSet(upvotes[u]) /\ Cardinality(upvotes[u]) = 0
      BY <1>1, FS_EmptySet DEF Init
    <2>2. UpvotesWithinLikes
      <3> SUFFICES ASSUME NEW u \in Users
                   PROVE  Cardinality(upvotes[u]) <=
                             1 + (IF likes[u] # 0 \/ LikeUnderWay(u) THEN 1 ELSE 0)
        BY DEF UpvotesWithinLikes
      <3> QED BY <2>1
    <2>3. \A s \in Sessions : req[s] = NoRequest
      BY <1>1 DEF Init
    <2> QED BY <1>1, <2>1, <2>2, <2>3, InitPInv DEF CountInv
  <1>2. ASSUME I, [Next]_vars PROVE I'
    <2>1. PInv'
      BY <1>2, NextPInv
    <2>2. ASSUME NEW s \in Sessions, Like(s) \/ Unlike(s) \/ Vote(s) \/ Unvote(s)
          PROVE  CountInv'
      BY <1>2, <2>2, BeginCount
    <2>3. ASSUME NEW s \in Sessions, Find(s) \/ Create(s) \/ Pay(s) \/ StopRequest(s)
          PROVE  CountInv'
      BY <1>2, <2>3, FindCount, CreateCount, PayCount, StopCount
    <2>4. ASSUME NEW s \in Sessions, StoreLike(s) \/ DropLike(s) \/ DropVote(s)
          PROVE  CountInv'
      BY <1>2, <2>4, StoreLikeCount, DropLikeCount, DropVoteCount
    <2>5. CASE Solve \/ UNCHANGED vars
      BY <1>2, <2>1, <2>5, SolveCount
    <2> QED BY <1>2, <2>1, <2>2, <2>3, <2>4, <2>5 DEF Next
  <1>3. I => UpvotesWithinLikes
    BY DEF CountInv
  <1> QED BY <1>1, <1>2, <1>3, PTL DEF Spec
=============================================================================
