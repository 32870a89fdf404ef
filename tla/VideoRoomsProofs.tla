--------------------------- MODULE VideoRoomsProofs ---------------------------
(***************************************************************************)
(* For any tabs, managers and rooms: types, that the last one who leaves a *)
(* room reports it, and that nobody is billed twice.  The argument is what *)
(* a tab is going to see: the messages on the way to it, taken together    *)
(* with what it sees, tell it who is in the room.                          *)
(***************************************************************************)
EXTENDS VideoRooms, SequenceTheorems, FiniteSetTheorems, WellFoundedInduction, TLAPS

Conn(u) == [who |-> u, state |-> "connected"]
Disc(u) == [who |-> u, state |-> "disconnected"]
Holds(s, m) == \E i \in 1..Len(s) : s[i] = m

\* Nobody is told that a tab is connected after that it has left.
Ordered(s) == \A u \in Tabs, i, j \in 1..Len(s) : s[i] = Conn(u) /\ s[j] = Disc(u) => i < j

Sends == Updates \cup {End}

-----------------------------------------------------------------------------
(* Messages.                                                               *)

LEMMA Kinds ==
    /\ \A u \in Tabs : /\ Conn(u) \in Updates /\ Disc(u) \in Updates
                       /\ Conn(u) # End /\ Disc(u) # End
    /\ \A u, v \in Tabs : /\ Conn(u) # Disc(v)
                          /\ Conn(u) = Conn(v) => u = v
                          /\ Disc(u) = Disc(v) => u = v
    /\ \A m \in Updates : /\ m.who \in Tabs /\ m # End
                          /\ m.state = "connected" => m = Conn(m.who)
                          /\ m.state # "connected" => m = Disc(m.who)
    /\ Updates \subseteq Sends /\ End \in Sends
  <1>1. \A m \in Updates : m = [who |-> m.who, state |-> m.state] /\ m.who \in Tabs
                           /\ m.state \in {"connected", "disconnected"}
    BY DEF Updates
  <1>2. \A u \in Tabs : u # None
    BY NoneAssumption
  <1>3. \A m \in Updates : m.who # None
    BY <1>1, <1>2
  <1>4. End.who = None
    BY DEF End
  <1>5. \A m \in Updates : m # End
    BY <1>3, <1>4
  <1>6. \A u \in Tabs : Conn(u) \in Updates /\ Disc(u) \in Updates
    BY DEF Conn, Disc, Updates
  <1>7. \A u, v \in Tabs : /\ Conn(u) # Disc(v)
                           /\ Conn(u) = Conn(v) => u = v
                           /\ Disc(u) = Disc(v) => u = v
    <2>1. \A u \in Tabs : /\ Conn(u).who = u /\ Disc(u).who = u
                          /\ Conn(u).state = "connected" /\ Disc(u).state = "disconnected"
      BY DEF Conn, Disc
    <2>2. ASSUME NEW u \in Tabs, NEW v \in Tabs PROVE Conn(u) # Disc(v)
      <3>1. Conn(u).state # Disc(v).state
        BY <2>1
      <3> QED BY <3>1, Zenon
    <2>3. ASSUME NEW u \in Tabs, NEW v \in Tabs, Conn(u) = Conn(v) PROVE u = v
      BY <2>1, <2>3
    <2>4. ASSUME NEW u \in Tabs, NEW v \in Tabs, Disc(u) = Disc(v) PROVE u = v
      BY <2>1, <2>4
    <2> HIDE DEF Conn, Disc
    <2> QED BY <2>2, <2>3, <2>4
  <1> QED BY <1>1, <1>5, <1>6, <1>7 DEF Conn, Disc, Sends

LEMMA HoldsNothing == \A m : ~Holds(<<>>, m)
  BY DEF Holds

LEMMA HoldsAppend ==
    ASSUME NEW s \in Seq(Sends), NEW m \in Sends
    PROVE  /\ Append(s, m) \in Seq(Sends) /\ Append(s, m) # <<>>
           /\ \A x : Holds(Append(s, m), x) <=> Holds(s, x) \/ x = m
  <1>1. /\ Append(s, m) \in Seq(Sends) /\ Append(s, m) # <<>>
        /\ Len(Append(s, m)) = Len(s) + 1
        /\ \A i \in 1..Len(s) : Append(s, m)[i] = s[i]
        /\ Append(s, m)[Len(s) + 1] = m
    BY AppendProperties
  <1>2. Len(s) \in Nat
    OBVIOUS
  <1> HIDE DEF Sends
  <1>3. ASSUME NEW x PROVE Holds(Append(s, m), x) <=> Holds(s, x) \/ x = m
    <2>1. CASE Holds(s, x)
      BY <2>1, <1>1, <1>2 DEF Holds
    <2>2. CASE x = m
      BY <2>2, <1>1, <1>2 DEF Holds
    <2>3. CASE ~Holds(s, x) /\ x # m
      BY <2>3, <1>1, <1>2 DEF Holds
    <2> QED BY <2>1, <2>2, <2>3
  <1> QED BY <1>1, <1>3

LEMMA HoldsTail ==
    ASSUME NEW s \in Seq(Sends), s # <<>>
    PROVE  /\ Head(s) \in Sends /\ Tail(s) \in Seq(Sends)
           /\ \A x : Holds(s, x) <=> Head(s) = x \/ Holds(Tail(s), x)
  <1>1. /\ Head(s) \in Sends /\ Tail(s) \in Seq(Sends)
        /\ Len(Tail(s)) = Len(s) - 1
        /\ \A i \in 1..Len(Tail(s)) : Tail(s)[i] = s[i + 1]
    BY HeadTailProperties
  <1>2. Len(s) \in Nat /\ Len(s) > 0 /\ Head(s) = s[1]
    OBVIOUS
  <1>3. ASSUME NEW x PROVE Holds(s, x) <=> Head(s) = x \/ Holds(Tail(s), x)
    <2>1. ASSUME Holds(s, x) PROVE Head(s) = x \/ Holds(Tail(s), x)
      <3>1. PICK i \in 1..Len(s) : s[i] = x
        BY <2>1 DEF Holds
      <3>2. CASE i = 1
        BY <3>1, <3>2, <1>2
      <3>3. CASE i # 1
        <4>1. i - 1 \in 1..Len(Tail(s)) /\ i = (i - 1) + 1
          BY <3>3, <1>1, <1>2
        <4>2. Tail(s)[i - 1] = x
          BY <4>1, <1>1, <3>1
        <4> QED BY <4>1, <4>2 DEF Holds
      <3> QED BY <3>2, <3>3
    <2>2. ASSUME Holds(Tail(s), x) PROVE Holds(s, x)
      <3>1. PICK i \in 1..Len(Tail(s)) : Tail(s)[i] = x
        BY <2>2 DEF Holds
      <3>2. i + 1 \in 1..Len(s) /\ s[i + 1] = x
        BY <3>1, <1>1, <1>2
      <3> QED BY <3>2 DEF Holds
    <2>3. Head(s) = x => Holds(s, x)
      BY <1>2 DEF Holds
    <2> QED BY <2>1, <2>2, <2>3
  <1> QED BY <1>1, <1>3

LEMMA OrderedAppend ==
    ASSUME NEW s \in Seq(Sends), NEW m \in Sends, Ordered(s),
           \A u \in Tabs : m = Conn(u) => ~Holds(s, Disc(u))
    PROVE  Ordered(Append(s, m))
  <1>1. /\ Len(Append(s, m)) = Len(s) + 1
        /\ \A i \in 1..Len(s) : Append(s, m)[i] = s[i]
        /\ Append(s, m)[Len(s) + 1] = m
    BY AppendProperties
  <1>2. Len(s) \in Nat
    OBVIOUS
  <1> DEFINE n == Append(s, m)
  <1> SUFFICES ASSUME NEW u \in Tabs, NEW i \in 1..Len(n), NEW j \in 1..Len(n),
                      n[i] = Conn(u), n[j] = Disc(u)
               PROVE  i < j
    BY DEF Ordered
  <1>3. CASE i = Len(s) + 1
    <2>1. m = Conn(u)
      BY <1>1, <1>3
    <2>2. j # Len(s) + 1
      BY <2>1, <1>1, Kinds
    <2>3. j \in 1..Len(s) /\ s[j] = Disc(u)
      BY <2>2, <1>1, <1>2
    <2> QED BY <2>1, <2>3 DEF Holds
  <1>4. CASE i # Len(s) + 1
    <2>1. i \in 1..Len(s) /\ s[i] = Conn(u)
      BY <1>4, <1>1, <1>2
    <2>2. CASE j = Len(s) + 1
      BY <2>1, <2>2, <1>2
    <2>3. CASE j # Len(s) + 1
      <3>1. j \in 1..Len(s) /\ s[j] = Disc(u)
        BY <2>3, <1>1, <1>2
      <3> QED BY <2>1, <3>1 DEF Ordered
    <2> QED BY <2>2, <2>3
  <1> QED BY <1>3, <1>4

LEMMA OrderedTail ==
    ASSUME NEW s \in Seq(Sends), s # <<>>, Ordered(s)
    PROVE  /\ Ordered(Tail(s))
           /\ \A u \in Tabs : Head(s) = Disc(u) => ~Holds(Tail(s), Conn(u))
  <1>1. /\ Len(Tail(s)) = Len(s) - 1
        /\ \A i \in 1..Len(Tail(s)) : Tail(s)[i] = s[i + 1]
    BY HeadTailProperties
  <1>2. Len(s) \in Nat /\ Len(s) > 0 /\ Head(s) = s[1]
    OBVIOUS
  <1>3. \A i \in 1..Len(Tail(s)) : i + 1 \in 1..Len(s) /\ i \in Int
    BY <1>1, <1>2
  <1>4. Ordered(Tail(s))
    <2> SUFFICES ASSUME NEW u \in Tabs, NEW i \in 1..Len(Tail(s)), NEW j \in 1..Len(Tail(s)),
                        Tail(s)[i] = Conn(u), Tail(s)[j] = Disc(u)
                 PROVE  i < j
      BY DEF Ordered
    <2>1. i + 1 < j + 1
      BY <1>1, <1>3 DEF Ordered
    <2> QED BY <2>1, <1>3
  <1>5. ASSUME NEW u \in Tabs, Head(s) = Disc(u), Holds(Tail(s), Conn(u)) PROVE FALSE
    <2>1. PICK i \in 1..Len(Tail(s)) : Tail(s)[i] = Conn(u)
      BY <1>5 DEF Holds
    <2>2. i + 1 < 1
      BY <2>1, <1>1, <1>2, <1>3, <1>5 DEF Ordered
    <2> QED BY <2>2, <1>3
  <1> QED BY <1>4, <1>5

-----------------------------------------------------------------------------
(* What is seen after the updates held back.                               *)

Views == [sees: SUBSET Tabs, parted: SUBSET Tabs]

LEMMA Least ==
    ASSUME NEW T \in SUBSET Nat, T # {}
    PROVE  \E x \in T : \A y \in T : x <= y
  <1>1. PICK x \in T : \A y \in T : ~(<<y, x>> \in OpToRel(<, Nat))
    BY NatLessThanWellFounded, WFMin
  <1>2. ASSUME NEW y \in T PROVE x <= y
    <2>1. x \in Nat /\ y \in Nat /\ ~(y < x)
      BY <1>1, Zenon DEF OpToRel
    <2> QED BY <2>1
  <1> QED BY <1>2

\* The recursion of After has a solution.
LEMMA AfterUnfolds ==
    ASSUME NEW seen, NEW updates, Len(updates) \in Nat
    PROVE  \E then :
              /\ then = [n \in 0..Len(updates) |->
                           IF n = 0 THEN seen ELSE Apply(then[n - 1], updates[n])]
              /\ After(seen, updates) = then[Len(updates)]
  <1> DEFINE Solves(f, k) ==
                f = [n \in 0..k |-> IF n = 0 THEN seen ELSE Apply(f[n - 1], updates[n])]
             T == {k \in Nat : ~\E f : Solves(f, k)}
  <1>1. ASSUME T # {} PROVE FALSE
    <2>1. PICK k \in T : \A j \in T : k <= j
      BY <1>1, Least
    <2>2. CASE k = 0
      <3>1. Solves([n \in 0..0 |-> seen], 0)
        OBVIOUS
      <3> QED BY <2>1, <2>2, <3>1
    <2>3. CASE k # 0
      <3>1. k - 1 \in Nat /\ k - 1 \notin T
        <4>1. T \subseteq Nat
          OBVIOUS
        <4> HIDE DEF T
        <4> QED BY <4>1, <2>1, <2>3
      <3>2. PICK f : Solves(f, k - 1)
        BY <3>1
      <3> DEFINE g == [n \in 0..k |-> IF n = k THEN Apply(f[k - 1], updates[k]) ELSE f[n]]
      <3>3. \A n \in 0..k - 1 : g[n] = f[n]
        BY <3>1
      <3>4. ASSUME NEW n \in 0..k
            PROVE  g[n] = IF n = 0 THEN seen ELSE Apply(g[n - 1], updates[n])
        <4>1. CASE n = k
          <5>1. g[n] = Apply(f[k - 1], updates[k]) /\ g[k - 1] = f[k - 1]
            BY <4>1, <3>3, <3>1
          <5> QED BY <5>1, <4>1, <2>3
        <4>2. CASE n # k
          <5>1. n \in 0..k - 1 /\ g[n] = f[n]
            BY <4>2, <3>3
          <5>2. n # 0 => n - 1 \in 0..k - 1 /\ g[n - 1] = f[n - 1]
            BY <5>1, <3>3, <3>1
          <5>3. f[n] = IF n = 0 THEN seen ELSE Apply(f[n - 1], updates[n])
            <6>1. f = [i \in 0..k - 1 |-> IF i = 0 THEN seen ELSE Apply(f[i - 1], updates[i])]
              BY <3>2
            <6> QED BY <6>1, <5>1
          <5> QED BY <5>1, <5>2, <5>3
        <4> QED BY <4>1, <4>2
      <3>5. Solves(g, k)
        <4> DEFINE h == [n \in 0..k |-> IF n = 0 THEN seen ELSE Apply(g[n - 1], updates[n])]
        <4>1. \A n \in 0..k : g[n] = h[n]
          BY <3>4
        <4>2. g = h
          BY <4>1, Zenon
        <4> QED BY <4>2
      <3> HIDE DEF Solves, g
      <3> QED BY <3>5, <2>1
    <2> QED BY <2>2, <2>3
  <1>2. \E f : Solves(f, Len(updates))
    BY <1>1
  <1> DEFINE then == CHOOSE f : Solves(f, Len(updates))
  <1>3. Solves(then, Len(updates))
    <2> HIDE DEF Solves
    <2> QED BY <1>2
  <1>4. After(seen, updates) = then[Len(updates)]
    BY DEF After
  <1> QED BY <1>3, <1>4

\* Who was told to have left is not seen; who is seen was seen or told of.
Follows(seen, w, updates, n) ==
    /\ w \in Views
    /\ w.sees \cap w.parted = {}
    /\ w.sees \subseteq
          seen.sees \cup {u \in Tabs : \E i \in 1..n : updates[i] = Conn(u)}
    /\ \A u \in Tabs :
          (u \in seen.sees \/ \E i \in 1..n : updates[i] = Conn(u))
             => u \in w.sees \/ \E i \in 1..n : updates[i] = Disc(u)
    /\ \A u \in Tabs : (\E i \in 1..n : updates[i] = Disc(u)) => u \notin w.sees
    /\ \A u \in w.parted : \E i \in 1..n : updates[i] = Disc(u)

LEMMA ApplyFollows ==
    ASSUME NEW seen \in Views, NEW updates \in Seq(Updates), Ordered(updates),
           NEW n \in 1..Len(updates), NEW w, Follows(seen, w, updates, n - 1)
    PROVE  Follows(seen, Apply(w, updates[n]), updates, n)
  <1> DEFINE m == updates[n]
             a == Apply(w, m)
             u == m.who
             c(v, k) == \E i \in 1..k : updates[i] = Conn(v)
             d(v, k) == \E i \in 1..k : updates[i] = Disc(v)
  <1> SUFFICES Follows(seen, a, updates, n)
    OBVIOUS
  <1>1. m \in Updates /\ u \in Tabs /\ Len(updates) \in Nat /\ n \in Nat
    BY Kinds
  <1>2. /\ w \in Views /\ w.sees \subseteq Tabs /\ w.parted \subseteq Tabs
        /\ w = [sees |-> w.sees, parted |-> w.parted]
    BY DEF Follows, Views
  <1>3. \A x : (\E i \in 1..n : updates[i] = x) <=> (\E i \in 1..n - 1 : updates[i] = x) \/ x = m
    <2>1. 1..n = (1..n - 1) \cup {n}
      BY <1>1
    <2> QED BY <2>1
  <1>4. /\ w.sees \subseteq seen.sees \cup {v \in Tabs : c(v, n - 1)}
        /\ \A v \in Tabs : v \in seen.sees \/ c(v, n - 1) => v \in w.sees \/ d(v, n - 1)
        /\ \A v \in Tabs : d(v, n - 1) => v \notin w.sees
        /\ \A v \in w.parted : d(v, n - 1)
    BY DEF Follows
  <1>5. CASE m = Conn(u)
    <2>1. m.state = "connected"
      BY <1>5 DEF Conn
    <2>2. \A v \in Tabs : m # Disc(v) /\ (m = Conn(v) <=> v = u)
      BY <1>5, <1>1, Kinds
    <2>3. ~d(u, n - 1)
      <3> SUFFICES ASSUME NEW i \in 1..n - 1, updates[i] = Disc(u) PROVE FALSE
        OBVIOUS
      <3>1. i \in 1..Len(updates) /\ i < n
        BY <1>1
      <3>2. n < i
        BY <3>1, <1>1, <1>5 DEF Ordered
      <3> QED BY <3>1, <3>2, <1>1
    <2>4. u \notin w.parted
      BY <2>3 DEF Follows
    <2>5. a = [sees |-> w.sees \cup {u}, parted |-> w.parted]
      BY <2>1, <2>4, <1>2 DEF Apply
    <2>6. a \in Views /\ a.sees = w.sees \cup {u} /\ a.parted = w.parted
      BY <2>5, <1>1, <1>2 DEF Views
    <2>7. a.sees \cap a.parted = {}
      BY <2>6, <2>4, <1>2 DEF Follows
    <2>8. \A v \in Tabs :
             (c(v, n) <=> c(v, n - 1) \/ v = u) /\ (d(v, n) <=> d(v, n - 1))
      BY <2>2, <1>3
    <2>9. /\ a.sees \subseteq seen.sees \cup {v \in Tabs : c(v, n)}
          /\ \A v \in Tabs : v \in seen.sees \/ c(v, n) => v \in a.sees \/ d(v, n)
          /\ \A v \in Tabs : d(v, n) => v \notin a.sees
          /\ \A v \in a.parted : d(v, n)
      <3> HIDE DEF a, m, u, c, d
      <3> QED BY <2>6, <2>8, <2>3, <1>1, <1>2, <1>4
    <2> HIDE DEF a, m, u
    <2> QED BY <2>6, <2>7, <2>9 DEF Follows
  <1>6. CASE m = Disc(u)
    <2>1. m.state # "connected"
      BY <1>6 DEF Disc
    <2>2. \A v \in Tabs : m # Conn(v) /\ (m = Disc(v) <=> v = u)
      BY <1>6, <1>1, Kinds
    <2>3. /\ a \in Views /\ a.sees = w.sees \ {u}
          /\ \/ a.parted = w.parted
             \/ a.parted = w.parted \cup {u}
      <3>1. CASE u \in w.parted
        <4>1. a = w /\ u \notin w.sees
          BY <3>1 DEF Apply, Follows
        <4>2. w.sees = w.sees \ {u}
          BY <4>1
        <4> HIDE DEF a, u
        <4> QED BY <4>1, <4>2, <1>2, Zenon
      <3>2. CASE u \notin w.parted
        <4>1. a = [sees |-> w.sees \ {u},
                   parted |-> IF u \in w.sees THEN w.parted \cup {u} ELSE w.parted]
          BY <3>2, <2>1 DEF Apply
        <4> QED BY <4>1, <1>1, <1>2 DEF Views
      <3> QED BY <3>1, <3>2
    <2>4. a.sees \cap a.parted = {}
      BY <2>3 DEF Follows
    <2>5. \A v \in Tabs :
             (d(v, n) <=> d(v, n - 1) \/ v = u) /\ (c(v, n) <=> c(v, n - 1))
      BY <2>2, <1>3
    <2>6. /\ a.sees \subseteq seen.sees \cup {v \in Tabs : c(v, n)}
          /\ \A v \in Tabs : v \in seen.sees \/ c(v, n) => v \in a.sees \/ d(v, n)
          /\ \A v \in Tabs : d(v, n) => v \notin a.sees
          /\ \A v \in a.parted : d(v, n)
      <3> HIDE DEF a, m, u, c, d
      <3> QED BY <2>3, <2>5, <1>1, <1>2, <1>4
    <2> HIDE DEF a, m, u
    <2> QED BY <2>3, <2>4, <2>6 DEF Follows
  <1> QED BY <1>1, <1>5, <1>6, Kinds

LEMMA AfterFollows ==
    ASSUME NEW seen \in Views, seen.parted = {},
           NEW updates \in Seq(Updates), Ordered(updates)
    PROVE  Follows(seen, After(seen, updates), updates, Len(updates))
  <1>1. Len(updates) \in Nat
    OBVIOUS
  <1>2. PICK then :
              /\ then = [n \in 0..Len(updates) |->
                           IF n = 0 THEN seen ELSE Apply(then[n - 1], updates[n])]
              /\ After(seen, updates) = then[Len(updates)]
    BY <1>1, AfterUnfolds
  <1>3. /\ then[0] = seen
        /\ \A n \in 1..Len(updates) : then[n] = Apply(then[n - 1], updates[n])
    <2>1. \A n \in 0..Len(updates) :
             then[n] = IF n = 0 THEN seen ELSE Apply(then[n - 1], updates[n])
      BY <1>2
    <2>2. 0 \in 0..Len(updates)
      BY <1>1
    <2>3. \A n \in 1..Len(updates) : n \in 0..Len(updates) /\ n # 0
      BY <1>1
    <2> QED BY <2>1, <2>2, <2>3
  <1> DEFINE T == {n \in 0..Len(updates) : ~Follows(seen, then[n], updates, n)}
  <1>4. ASSUME T # {} PROVE FALSE
    <2>1. T \in SUBSET Nat
      BY <1>1
    <2>2. PICK n \in T : \A j \in T : n <= j
      BY <2>1, <1>4, Least
    <2>3. CASE n = 0
      <3>1. \A i \in 1..0 : FALSE
        OBVIOUS
      <3>2. Follows(seen, seen, updates, 0)
        BY <3>1, Zenon DEF Follows
      <3> QED BY <3>2, <2>2, <2>3, <1>3
    <2>4. CASE n # 0
      <3>1. n \in 1..Len(updates) /\ n - 1 \in 0..Len(updates) /\ n - 1 \notin T
        BY <2>2, <2>4, <1>1
      <3>2. Follows(seen, then[n - 1], updates, n - 1)
        BY <3>1
      <3>3. Follows(seen, then[n], updates, n)
        BY <3>1, <3>2, <1>3, ApplyFollows
      <3> QED BY <3>3, <2>2
    <2> QED BY <2>3, <2>4
  <1>5. Len(updates) \in 0..Len(updates) /\ Len(updates) \notin T
    BY <1>1, <1>4
  <1> QED BY <1>2, <1>5

-----------------------------------------------------------------------------
(* The invariant.                                                          *)

Coming(t, m) == Holds(held[t], m) \/ Holds(inbox[t], m)
Answer(t)  == IF accept[t] = None THEN {} ELSE accept[t]
Known(t)   == sees[t] \cup Answer(t)

\* Those tab t sees once it has handled what is on the way to it.
WillSee(t) == {u \in Tabs : (u \in Known(t) \/ Coming(t, Conn(u))) /\ ~Coming(t, Disc(u))}

\* How far the page is, and what it can have done so far.
Stage(t) ==
    /\ page[t] = "closed" => seat[t] = "out"
    /\ seat[t] = "out" =>
          /\ room[t] = 0 /\ page[t] \in {"closed", "connecting", "gone"}
          /\ accept[t] = None /\ inbox[t] = <<>> /\ held[t] = <<>>
          /\ register[t] = "none" /\ report[t] = "none" /\ recorded[t] = 0
    /\ seat[t] # "out" => room[t] \in Rooms
    /\ page[t] = "connecting" => (accept[t] = None <=> seat[t] = "out")
    /\ page[t] # "connecting" => accept[t] = None /\ held[t] = <<>>
    /\ page[t] # "connected" => sees[t] = {} /\ parted[t] = {}
    /\ page[t] = "connected" => seat[t] # "out"
    /\ page[t] \in {"closed", "connecting", "connected"} => report[t] = "none"
    /\ page[t] \in {"closed", "connecting"} => register[t] = "none"
    /\ Finished(t) => inbox[t] = <<>>
    /\ register[t] \in {"valid", "done"} => t \in Managers
Stages == (live => opened \in Rooms) /\ \A t \in Tabs : Stage(t)

\* Whoever was disconnected hears of it last.
EndLast(t) ==
    /\ ~Finished(t) /\ seat[t] = "left" =>
          inbox[t] # <<>> /\ inbox[t][Len(inbox[t])] = End
    /\ \A i \in 1..Len(inbox[t]) :
          inbox[t][i] = End => seat[t] = "left" /\ i = Len(inbox[t])

Sorted(t) ==
    /\ Ordered(held[t]) /\ Ordered(inbox[t])
    /\ \A u \in Tabs : ~(Holds(held[t], Disc(u)) /\ Holds(inbox[t], Conn(u)))

\* A tab hears of others in its room only, and that they left when they have.
Hears(t) ==
    \A u \in Tabs :
       /\ u \in Known(t) \/ u \in parted[t] \/ Coming(t, Conn(u)) \/ Coming(t, Disc(u)) =>
             u # t /\ room[u] = room[t] /\ seat[u] # "out"
       /\ u \in parted[t] \/ Coming(t, Disc(u)) => seat[u] = "left"
       /\ u \in parted[t] => u \notin sees[t] /\ ~Coming(t, Conn(u))

\* Who is in the room is going to see exactly the others who are.
SeesRoom(t) == ~Finished(t) /\ seat[t] = "in" => WillSee(t) = InRoom(room[t]) \ {t}

Talks(t) == EndLast(t) /\ Sorted(t) /\ Hears(t) /\ SeesRoom(t)
Talk == \A t \in Tabs : Talks(t)

\* The last one: it has reported, or it is going to.
Out(t)  == Finished(t) \/ seat[t] = "left"
Last(t) == report[t] # "none" \/ (~Finished(t) /\ seat[t] = "left" /\ WillSee(t) = {})

SomeoneLast ==
    \A r \in Rooms :
       (~untidy[r] /\ WasIn(r) # {} /\ \A t \in WasIn(r) : Out(t))
          => \E t \in WasIn(r) : Last(t)

OneLast ==
    \A r \in Rooms :
       ~untidy[r] /\ ~rejoined[r] =>
          \A t \in WasIn(r) : Last(t) => \A u \in WasIn(r) : Out(u) /\ (Last(u) => u = t)

\* The participants of a room are recorded by the one who was last.
Recording ==
    \A u \in Tabs :
       recorded[u] > 0 /\ ~untidy[room[u]] /\ ~rejoined[room[u]] =>
          /\ recorded[u] = 1
          /\ \E t \in WasIn(room[u]) : report[t] \in {"created", "done"}

\* A room has a row for each manager who had it registered.
Registered(r) == {t \in Managers : room[t] = r /\ register[t] = "done"}
RowsCount == \A r \in Rooms : rows[r] = Cardinality(Registered(r))

VInv == TypeOK /\ Stages /\ Talk /\ RowsCount /\ SomeoneLast /\ OneLast /\ Recording

LEMMA InitVInv ==
    ASSUME Init PROVE VInv
  <1> USE DEF Init
  <1>1. TypeOK
    <2>1. Cardinality(Managers) \in Nat
      BY TabAssumption, FS_Subset, FS_CardinalityType
    <2>2. <<>> \in Seq(Updates \cup {End}) /\ <<>> \in Seq(Updates)
      OBVIOUS
    <2>3. rows \in [Rooms -> 0..Cardinality(Managers)]
      BY <2>1
    <2>4. opened \in 0..MaxRooms /\ ends \in 0..MaxEnds /\ fails \in 0..MaxFails /\ 0 \in 0..MaxRooms
      BY BoundAssumption
    <2>5. inbox \in [Tabs -> Seq(Updates \cup {End})] /\ held \in [Tabs -> Seq(Updates)]
      BY <2>2
    <2>6. accept \in [Tabs -> (SUBSET Tabs) \cup {None}]
      OBVIOUS
    <2>7. /\ sees \in [Tabs -> SUBSET Tabs] /\ parted \in [Tabs -> SUBSET Tabs]
          /\ ending \in [Tabs -> SUBSET Tabs]
      OBVIOUS
    <2>8. recorded \in [Tabs -> Nat] /\ room \in [Tabs -> 0..MaxRooms]
      BY <2>4
    <2> QED BY <2>3, <2>4, <2>5, <2>6, <2>7, <2>8, Zenon DEF TypeOK
  <1>2. Stages
    BY DEF Stages, Stage, Finished
  <1>3. ASSUME NEW t \in Tabs PROVE Talks(t)
    <2>1. EndLast(t) /\ Sorted(t)
      BY HoldsNothing DEF EndLast, Sorted, Ordered, Finished
    <2>2. Hears(t)
      BY HoldsNothing DEF Hears, Known, Answer, Coming
    <2> QED BY <2>1, <2>2 DEF Talks, SeesRoom
  <1>6. \A r \in Rooms : WasIn(r) = {} /\ Registered(r) = {}
    BY BoundAssumption, TabAssumption DEF WasIn, Rooms, Registered
  <1>7. RowsCount
    BY <1>6, FS_EmptySet DEF RowsCount
  <1>8. SomeoneLast /\ OneLast /\ Recording
    BY <1>6 DEF SomeoneLast, OneLast, Recording
  <1> QED BY <1>1, <1>2, <1>3, <1>7, <1>8 DEF VInv, Talk

-----------------------------------------------------------------------------
(* Types.                                                                  *)

LEMMA TellType ==
    ASSUME TypeOK, NEW t \in Tabs, NEW r, NEW state \in {"connected", "disconnected"}
    PROVE  Tell(r, t, state, inbox) \in [Tabs -> Seq(Sends)]
  <1>1. [who |-> t, state |-> state] \in Sends
    BY DEF Sends, Updates
  <1>2. \A u \in Tabs : inbox[u] \in Seq(Sends)
    BY DEF TypeOK, Sends
  <1>3. \A u \in Tabs : Append(inbox[u], [who |-> t, state |-> state]) \in Seq(Sends)
    BY <1>1, <1>2, HoldsAppend
  <1> QED BY <1>2, <1>3 DEF Tell


\* A tab that stops.
LEMMA StopType ==
    ASSUME TypeOK, NEW t \in Tabs, NEW how \in {"disconnected", "gone"}, Stop(t, how)
    PROVE  /\ page' \in [Tabs -> {"closed", "connecting", "connected", "disconnected", "gone"}]
           /\ accept' \in [Tabs -> (SUBSET Tabs) \cup {None}]
           /\ inbox' \in [Tabs -> Seq(Updates \cup {End})]
           /\ held' \in [Tabs -> Seq(Updates)]
           /\ sees' \in [Tabs -> SUBSET Tabs] /\ parted' \in [Tabs -> SUBSET Tabs]
  <1>1. <<>> \in Seq(Updates) /\ <<>> \in Seq(Updates \cup {End})
    OBVIOUS
  <1> QED BY <1>1 DEF TypeOK, Stop

LEMMA ReceiveType ==
    ASSUME TypeOK, NEW t \in Tabs, Receive(t)
    PROVE  TypeOK'
  <1> DEFINE m == Head(inbox[t])
  <1>1. inbox[t] \in Seq(Sends) /\ m \in Sends /\ Tail(inbox[t]) \in Seq(Sends)
    BY HoldsTail DEF Receive, TypeOK, Sends
  <1>2. CASE \/ page[t] = "connecting" /\ Refused(t)
             \/ page[t] = "connected" /\ Disconnected(t, Tail(inbox[t]))
    <2>1. PICK how \in {"disconnected", "gone"} : Stop(t, how)
      BY <1>2 DEF Refused, Disconnected
    <2>2. /\ report' \in [Tabs -> {"none", "sent", "found", "created", "done", "failed", "lost"}]
          /\ untidy' \in [Rooms -> BOOLEAN]
      BY <1>2 DEF Refused, Disconnected, TypeOK, Crossing, Unnoticed
    <2>3. UNCHANGED <<twilio, register, fetched, ending, tables, limits, rejoined>>
      BY DEF Receive
    <2>4. /\ page' \in [Tabs -> {"closed", "connecting", "connected", "disconnected", "gone"}]
          /\ accept' \in [Tabs -> (SUBSET Tabs) \cup {None}]
          /\ inbox' \in [Tabs -> Seq(Updates \cup {End})]
          /\ held' \in [Tabs -> Seq(Updates)]
          /\ sees' \in [Tabs -> SUBSET Tabs] /\ parted' \in [Tabs -> SUBSET Tabs]
      BY <2>1, StopType
    <2> QED BY <2>2, <2>3, <2>4, Zenon DEF TypeOK, twilio, tables, limits
  <1>3. CASE m # End /\ page[t] = "connecting" /\ HoldBack(t, m)
               /\ inbox' = [inbox EXCEPT ![t] = Tail(inbox[t])]
    <2>1. held[t] \in Seq(Updates) /\ m \in Updates
      BY <1>1, <1>3 DEF TypeOK, Sends
    <2>2. Append(held[t], m) \in Seq(Updates)
      BY <2>1
    <2> QED BY <1>1, <1>3, <2>2 DEF Receive, HoldBack, TypeOK, Sends, twilio, tables, limits
  <1>4. CASE m # End /\ page[t] = "connected" /\ Update(t, m)
               /\ inbox' = [inbox EXCEPT ![t] = Tail(inbox[t])]
    <2>1. m \in Updates /\ m.who \in Tabs
      BY <1>1, <1>4, Kinds DEF Sends
    <2> DEFINE seen == [sees |-> sees[t], parted |-> parted[t]]
    <2>2. seen \in Views
      BY DEF TypeOK, Views
    <2>3. Apply(seen, m).sees \in SUBSET Tabs /\ Apply(seen, m).parted \in SUBSET Tabs
      BY <2>1, <2>2 DEF Apply, Views
    <2>4. sees' \in [Tabs -> SUBSET Tabs] /\ parted' \in [Tabs -> SUBSET Tabs]
      BY <1>4, <2>3 DEF Update, Shows, TypeOK
    <2>5. inbox' \in [Tabs -> Seq(Updates \cup {End})]
      BY <1>1, <1>4 DEF TypeOK, Sends
    <2> QED BY <1>4, <2>4, <2>5 DEF Receive, Update, TypeOK, twilio, tables, limits
  <1> QED BY <1>2, <1>3, <1>4 DEF Receive

LEMMA JoinedType ==
    ASSUME TypeOK, Talk, NEW t \in Tabs, Joined(t)
    PROVE  TypeOK'
  <1> DEFINE seen == [sees |-> accept[t], parted |-> {}]
             w == After(seen, held[t])
  <1>1. seen \in Views /\ seen.parted = {}
    BY DEF Joined, TypeOK, Views
  <1>2. held[t] \in Seq(Updates) /\ Ordered(held[t])
    BY DEF TypeOK, Talk, Talks, Sorted
  <1>3. w \in Views
    BY <1>1, <1>2, AfterFollows DEF Follows
  <1>4. w.sees \in SUBSET Tabs /\ w.parted \in SUBSET Tabs
    BY <1>3 DEF Views
  <1> HIDE DEF w
  <1>5. sees' \in [Tabs -> SUBSET Tabs] /\ parted' \in [Tabs -> SUBSET Tabs]
    BY <1>4 DEF Joined, Shows, TypeOK, w
  <1>6. <<>> \in Seq(Updates)
    OBVIOUS
  <1> QED BY <1>5, <1>6 DEF Joined, TypeOK, twilio, tables, limits, history

LEMMA InsertRows ==
    ASSUME TypeOK, RowsCount', rows' \in [Rooms -> Nat]
    PROVE  rows' \in [Rooms -> 0..Cardinality(Managers)]
  <1>1. IsFiniteSet(Managers)
    BY TabAssumption, FS_Subset
  <1>2. ASSUME NEW r \in Rooms PROVE rows'[r] \in 0..Cardinality(Managers)
    <2>1. Registered(r)' \subseteq Managers
      BY DEF Registered
    <2>2. Cardinality(Registered(r)') \in Nat /\ Cardinality(Managers) \in Nat
             /\ Cardinality(Registered(r)') <= Cardinality(Managers)
      BY <1>1, <2>1, FS_Subset, FS_CardinalityType
    <2>3. rows'[r] = Cardinality(Registered(r)')
      BY DEF RowsCount
    <2> QED BY <2>2, <2>3
  <1> QED BY <1>2

LEMMA TypeStep ==
    ASSUME TypeOK, Talk, RowsCount', [Next]_vars
    PROVE  TypeOK'
  <1> USE BoundAssumption DEF limits, history, tables, requests, view, messages, twilio
  <1>1. CASE UNCHANGED vars
    BY <1>1 DEF vars, TypeOK
  <1>2. CASE Complete
    BY <1>2 DEF Complete, TypeOK
  <1>3. ASSUME NEW t \in Tabs, Admit(t) PROVE TypeOK'
    <2> DEFINE r == IF live THEN opened ELSE opened + 1
    <2>1. r \in 0..MaxRooms
      BY <1>3 DEF Admit, TypeOK
    <2>2. inbox' \in [Tabs -> Seq(Updates \cup {End})]
      BY <1>3, TellType DEF Admit, Sends
    <2>3. InRoom(r) \in SUBSET Tabs
      BY DEF InRoom
    <2>4. rejoined' \in [Rooms -> BOOLEAN]
      BY <1>3 DEF Admit, TypeOK
    <2>5. accept' \in [Tabs -> (SUBSET Tabs) \cup {None}]
      BY <1>3, <2>3 DEF Admit, TypeOK
    <2>6. /\ seat' \in [Tabs -> {"out", "in", "left"}] /\ room' \in [Tabs -> 0..MaxRooms]
          /\ opened' \in 0..MaxRooms /\ live' \in BOOLEAN
      BY <1>3, <2>1 DEF Admit, TypeOK
    <2> QED BY <1>3, <2>2, <2>4, <2>5, <2>6 DEF Admit, TypeOK
  <1>4. ASSUME NEW t \in Tabs, Part(t) PROVE TypeOK'
    <2>1. inbox' \in [Tabs -> Seq(Updates \cup {End})]
      BY <1>4, TellType DEF Part, Sends
    <2> QED BY <1>4, <2>1 DEF Part, TypeOK
  <1>5. ASSUME NEW t \in Tabs, Open(t) PROVE TypeOK'
    BY <1>5 DEF Open, TypeOK
  <1>6. ASSUME NEW t \in Tabs, Joined(t) PROVE TypeOK'
    BY <1>6, JoinedType
  <1>7. ASSUME NEW t \in Tabs, Leave(t) PROVE TypeOK'
    <2>1. Stop(t, "disconnected")
      BY <1>7 DEF Leave, Disconnected
    <2>2. /\ report' \in [Tabs -> {"none", "sent", "found", "created", "done", "failed", "lost"}]
          /\ untidy' \in [Rooms -> BOOLEAN]
      BY <1>7 DEF Leave, Disconnected, TypeOK, Crossing, Unnoticed
    <2> QED BY <1>7, <2>1, <2>2, StopType DEF Leave, TypeOK
  <1>8. ASSUME NEW t \in Tabs, Receive(t) PROVE TypeOK'
    BY <1>8, ReceiveType
  <1>9. ASSUME NEW t \in Tabs, Kill(t) PROVE TypeOK'
    <2>1. Stop(t, "gone") /\ untidy' \in [Rooms -> BOOLEAN]
      BY <1>9 DEF Kill, TypeOK
    <2>2. fails' \in 0..MaxFails
      BY <1>9 DEF Kill, TypeOK
    <2> HIDE DEF Stop
    <2> QED BY <1>9, <2>1, <2>2, StopType DEF Kill, TypeOK
  <1>10. ASSUME NEW t \in Tabs, Lose(t) PROVE TypeOK'
    <2>1. fails' \in 0..MaxFails
      BY <1>10 DEF Lose, TypeOK
    <2>2. register' = register \/ register' = [register EXCEPT ![t] = "lost"]
      BY <1>10 DEF Lose
    <2>3. report' = report \/ report' = [report EXCEPT ![t] = "lost"]
      BY <1>10 DEF Lose
    <2>4. /\ register' \in [Tabs -> {"none", "sent", "valid", "done", "refused", "lost"}]
          /\ report' \in [Tabs -> {"none", "sent", "found", "created", "done", "failed", "lost"}]
      <3>1. /\ register \in [Tabs -> {"none", "sent", "valid", "done", "refused", "lost"}]
            /\ report \in [Tabs -> {"none", "sent", "found", "created", "done", "failed", "lost"}]
        BY DEF TypeOK
      <3>2. register' \in [Tabs -> {"none", "sent", "valid", "done", "refused", "lost"}]
        BY <2>2, <3>1
      <3>3. report' \in [Tabs -> {"none", "sent", "found", "created", "done", "failed", "lost"}]
        BY <2>3, <3>1
      <3> QED BY <3>2, <3>3
    <2>5. UNCHANGED <<page, twilio, messages, view, fetched, ending, tables, ends, history>>
      BY <1>10 DEF Lose
    <2>6. UNCHANGED <<page, seat, room, opened, live, accept, inbox, held, sees, parted>>
      BY <2>5 DEF twilio, messages, view
    <2>7. UNCHANGED <<fetched, ending, rows, status, recorded, ends, untidy, rejoined>>
      BY <2>5 DEF tables, history
    <2> QED BY <2>1, <2>4, <2>6, <2>7 DEF TypeOK
  <1>11. ASSUME NEW t \in Tabs, EndMeeting(t) PROVE TypeOK'
    BY <1>11 DEF EndMeeting, InRoom, TypeOK
  <1>12. ASSUME NEW t \in Tabs, Validate(t) PROVE TypeOK'
    BY <1>12 DEF Validate, TypeOK
  <1>13. ASSUME NEW t \in Tabs, Insert(t) PROVE TypeOK'
    <2>1. rows' \in [Rooms -> Nat]
      <3>1. Cardinality(Managers) \in Nat
        BY TabAssumption, FS_Subset, FS_CardinalityType
      <3>2. rows \in [Rooms -> Nat]
        BY <3>1 DEF TypeOK
      <3>3. rows' = [r \in Rooms |-> IF r = room[t] THEN rows[r] + 1 ELSE rows[r]]
        BY <1>13, <3>2 DEF Insert
      <3> QED BY <3>2, <3>3
    <2>2. rows' \in [Rooms -> 0..Cardinality(Managers)]
      BY <2>1, InsertRows
    <2>3. /\ status' \in [Rooms -> {None, "connected", "in-progress", "completed"}]
          /\ register' \in [Tabs -> {"none", "sent", "valid", "done", "refused", "lost"}]
      BY <1>13 DEF Insert, TypeOK
    <2> QED BY <1>13, <2>2, <2>3 DEF Insert, TypeOK
  <1>14. ASSUME NEW t \in Tabs, Fetch(t) \/ Create(t) PROVE TypeOK'
    <2>1. CASE Fetch(t)
      <3>1. /\ fetched' \in [Tabs -> {None, "in-progress", "completed"}]
            /\ report' \in [Tabs -> {"none", "sent", "found", "created", "done", "failed", "lost"}]
        BY <2>1 DEF Fetch, TypeOK
      <3> QED BY <2>1, <3>1 DEF Fetch, TypeOK
    <2>2. CASE Create(t)
      <3>1. /\ recorded' \in [Tabs -> Nat]
            /\ report' \in [Tabs -> {"none", "sent", "found", "created", "done", "failed", "lost"}]
        BY <2>2 DEF Create, TypeOK
      <3> QED BY <2>2, <3>1 DEF Create, TypeOK
    <2> QED BY <1>14, <2>1, <2>2
  <1>15. ASSUME NEW t \in Tabs, Store(t) PROVE TypeOK'
    BY <1>15 DEF Store, TypeOK
  <1>16. ASSUME NEW t \in Tabs, Expel(t) PROVE TypeOK'
    <2>1. PICK u \in ending[t] :
             \/ /\ seat[u] = "in"
                /\ seat' = [seat EXCEPT ![u] = "left"]
                /\ inbox' = [Tell(room[u], u, "disconnected", inbox) EXCEPT
                               ![u] = IF Finished(u) THEN @ ELSE Append(@, End)]
                /\ ending' = [ending EXCEPT ![t] = @ \ {u}]
                /\ untidy' = [untidy EXCEPT ![room[u]] = @ \/ Unnoticed(u)]
             \/ /\ seat[u] # "in"
                /\ \E left \in {{}, ending[t] \ {u}} : ending' = [ending EXCEPT ![t] = left]
                /\ UNCHANGED <<seat, inbox, untidy>>
      BY <1>16 DEF Expel
    <2>2. u \in Tabs
      BY DEF TypeOK
    <2>3. seat' \in [Tabs -> {"out", "in", "left"}] /\ ending' \in [Tabs -> SUBSET Tabs]
      <3>0. seat' = [seat EXCEPT ![u] = "left"] \/ seat' = seat
        BY <2>1
      <3>1. seat' \in [Tabs -> {"out", "in", "left"}]
        BY <3>0, <2>2 DEF TypeOK
      <3>2. ending \in [Tabs -> SUBSET Tabs]
        BY DEF TypeOK
      <3>3. \E left \in SUBSET Tabs : ending' = [ending EXCEPT ![t] = left]
        BY <2>1, <3>2
      <3> QED BY <3>1, <3>2, <3>3
    <2>4. untidy' \in [Rooms -> BOOLEAN]
      BY <2>1 DEF TypeOK, Unnoticed
    <2>5. inbox' \in [Tabs -> Seq(Updates \cup {End})]
      <3> DEFINE told == Tell(room[u], u, "disconnected", inbox)
      <3>1. told \in [Tabs -> Seq(Sends)]
        BY <2>2, TellType
      <3>2. Append(told[u], End) \in Seq(Sends)
        BY <3>1, <2>2, Kinds, HoldsAppend
      <3> HIDE DEF told
      <3>3. inbox' = inbox \/ inbox' = [told EXCEPT ![u] = IF Finished(u) THEN @ ELSE Append(@, End)]
        BY <2>1 DEF told
      <3>4. inbox \in [Tabs -> Seq(Sends)]
        BY DEF TypeOK, Sends
      <3>5. inbox' \in [Tabs -> Seq(Sends)]
        BY <3>1, <3>2, <3>3, <3>4, <2>2
      <3> QED BY <3>5 DEF Sends
    <2> QED BY <1>16, <2>3, <2>4, <2>5 DEF Expel, TypeOK
  <1> QED BY <1>1, <1>2, <1>3, <1>4, <1>5, <1>6, <1>7, <1>8, <1>9, <1>10, <1>11, <1>12,
             <1>13, <1>14, <1>15, <1>16 DEF Next, Serve

-----------------------------------------------------------------------------
(* How far the page is.                                                    *)

LEMMA StageKept ==
    ASSUME NEW t \in Tabs, Stage(t), page'[t] = page[t], seat'[t] = seat[t],
           room'[t] = room[t], accept'[t] = accept[t], held'[t] = held[t],
           sees'[t] = sees[t], parted'[t] = parted[t], inbox'[t] = inbox[t],
           \/ register'[t] = register[t]
           \/ register[t] = "sent" /\ register'[t] \in {"lost", "refused"}
           \/ register[t] = "sent" /\ register'[t] = "valid" /\ t \in Managers
           \/ register[t] = "valid" /\ register'[t] = "done",
           report'[t] = report[t] \/ (report[t] # "none" /\ report'[t] # "none"),
           recorded'[t] = recorded[t] \/ seat[t] # "out"
    PROVE  Stage(t)'
  BY DEF Stage, Finished

LEMMA StageTold ==
    ASSUME NEW t \in Tabs, Stage(t), page'[t] = page[t], room'[t] = room[t],
           seat[t] = "in", seat'[t] # "out",
           accept'[t] = accept[t], held'[t] = held[t], sees'[t] = sees[t],
           parted'[t] = parted[t], register'[t] = register[t], report'[t] = report[t],
           Finished(t) => inbox'[t] = inbox[t]
    PROVE  Stage(t)'
  BY DEF Stage, Finished

\* A tab that stops has been let in, or not yet been answered.
LEMMA StageStopped ==
    ASSUME TypeOK, NEW t \in Tabs, Stage(t), NEW how \in {"disconnected", "gone"}, Stop(t, how),
           how = "disconnected" => seat[t] # "out",
           page[t] \in {"connecting", "connected"},
           seat'[t] = seat[t], room'[t] = room[t],
           register'[t] = register[t], recorded'[t] = recorded[t],
           how = "gone" => report'[t] = report[t]
    PROVE  Stage(t)'
  <1>1. /\ page'[t] = how /\ inbox'[t] = <<>> /\ accept'[t] = None /\ held'[t] = <<>>
        /\ sees'[t] = {} /\ parted'[t] = {}
    BY DEF Stop, TypeOK
  <1> QED BY <1>1 DEF Stage, Finished

LEMMA OthersStop ==
    ASSUME TypeOK, NEW t \in Tabs, NEW how, Stop(t, how), NEW u \in Tabs, u # t
    PROVE  /\ page'[u] = page[u] /\ inbox'[u] = inbox[u] /\ accept'[u] = accept[u]
           /\ held'[u] = held[u] /\ sees'[u] = sees[u] /\ parted'[u] = parted[u]
  BY DEF TypeOK, Stop

\* The ways a tab stops.
Stopping(t, how) ==
    /\ Stop(t, how) /\ page[t] \in {"connecting", "connected"}
    /\ how = "disconnected" => page[t] = "connected"
    /\ UNCHANGED <<seat, room, opened, live, register, recorded, rejoined>>
    /\ how = "gone" => UNCHANGED report
    /\ \E x : report' = [report EXCEPT ![t] = x]
    /\ \A r \in Rooms : untidy[r] => untidy'[r]
    /\ \A r \in Rooms : r # room[t] => untidy'[r] = untidy[r]

LEMMA LeaveStops ==
    ASSUME TypeOK, NEW t \in Tabs, Leave(t)
    PROVE  Stopping(t, "disconnected")
  <1>1. \A r \in Rooms : (untidy[r] => untidy'[r]) /\ (r # room[t] => untidy'[r] = untidy[r])
    BY DEF Leave, Disconnected, TypeOK
  <1> HIDE DEF Stop
  <1> QED BY <1>1 DEF Leave, Disconnected, Stopping, twilio, tables

LEMMA KillStops ==
    ASSUME TypeOK, NEW t \in Tabs, Kill(t)
    PROVE  Stopping(t, "gone") /\ (room[t] \in Rooms => untidy'[room[t]])
  <1>1. \A r \in Rooms : (untidy[r] => untidy'[r]) /\ (r # room[t] => untidy'[r] = untidy[r])
    BY DEF Kill, TypeOK
  <1>2. room[t] \in Rooms => untidy'[room[t]]
    BY DEF Kill
  <1>3. report' = [report EXCEPT ![t] = report[t]]
    BY DEF Kill, requests, TypeOK
  <1> HIDE DEF Stop
  <1> QED BY <1>1, <1>2, <1>3 DEF Kill, Stopping, twilio, tables, requests

LEMMA RefusedStops ==
    ASSUME TypeOK, NEW t \in Tabs, Receive(t), page[t] = "connecting", Refused(t)
    PROVE  Stopping(t, "gone") /\ (room[t] \in Rooms => untidy'[room[t]])
  <1>1. /\ \A r \in Rooms : (untidy[r] => untidy'[r]) /\ (r # room[t] => untidy'[r] = untidy[r])
        /\ room[t] \in Rooms => untidy'[room[t]]
    BY DEF Refused, TypeOK
  <1>2. report' = [report EXCEPT ![t] = report[t]]
    BY DEF Refused, TypeOK
  <1>3. UNCHANGED <<seat, room, opened, live, register, recorded, rejoined>>
    BY DEF Receive, twilio, tables
  <1> HIDE DEF Stop
  <1> QED BY <1>1, <1>2, <1>3 DEF Refused, Stopping

LEMMA DisconnectedStops ==
    ASSUME TypeOK, NEW t \in Tabs, Receive(t), page[t] = "connected",
           Disconnected(t, Tail(inbox[t]))
    PROVE  Stopping(t, "disconnected")
  <1>1. \A r \in Rooms : (untidy[r] => untidy'[r]) /\ (r # room[t] => untidy'[r] = untidy[r])
    BY DEF Disconnected, TypeOK
  <1>2. \E x : report' = [report EXCEPT ![t] = x]
    BY DEF Disconnected
  <1>3. UNCHANGED <<seat, room, opened, live, register, recorded, rejoined>>
    BY DEF Receive, twilio, tables
  <1> HIDE DEF Stop
  <1> QED BY <1>1, <1>2, <1>3 DEF Disconnected, Stopping

LEMMA StopStages ==
    ASSUME TypeOK, Stages, NEW t \in Tabs, NEW how \in {"disconnected", "gone"}, Stopping(t, how)
    PROVE  Stages'
  <1>1. Stage(t)'
    BY StageStopped DEF Stopping, Stages, Stage
  <1>2. ASSUME NEW u \in Tabs, u # t PROVE Stage(u)'
    <2>1. /\ page'[u] = page[u] /\ inbox'[u] = inbox[u] /\ accept'[u] = accept[u]
          /\ held'[u] = held[u] /\ sees'[u] = sees[u] /\ parted'[u] = parted[u]
      BY <1>2, OthersStop DEF Stopping
    <2>2. report'[u] = report[u]
      BY <1>2 DEF Stopping, TypeOK
    <2>3. Stage(u)
      BY DEF Stages
    <2> QED BY <2>1, <2>2, <2>3, StageKept DEF Stopping
  <1> QED BY <1>1, <1>2 DEF Stages, Stopping

\* The expulsion of tab u by a request of tab t.
Expelled(u) ==
    /\ seat[u] = "in"
    /\ seat' = [seat EXCEPT ![u] = "left"]
    /\ inbox' = [Tell(room[u], u, "disconnected", inbox) EXCEPT
                   ![u] = IF Finished(u) THEN @ ELSE Append(@, End)]
    /\ untidy' = [untidy EXCEPT ![room[u]] = @ \/ Unnoticed(u)]
    /\ UNCHANGED <<page, room, opened, live, accept, held, sees, parted, register, report,
                   rows, recorded, rejoined>>

LEMMA ExpelCases ==
    ASSUME TypeOK, NEW t \in Tabs, Expel(t)
    PROVE  \/ \E u \in Tabs : Expelled(u)
           \/ UNCHANGED <<page, seat, room, opened, live, accept, inbox, held, sees, parted,
                          register, report, rows, recorded, untidy, rejoined>>
  <1>1. ending[t] \subseteq Tabs
    BY DEF TypeOK
  <1> QED BY <1>1 DEF Expel, Expelled, view, tables

\* Who is told when tab t leaves room r.
LEMMA WhoIsTold ==
    ASSUME TypeOK, Stages, NEW t \in Tabs, NEW r, NEW state, NEW u \in Tabs
    PROVE  /\ (u # t /\ seat[u] = "in" /\ room[u] = r /\ ~Finished(u))
                 => Tell(r, t, state, inbox)[u] = Append(inbox[u], [who |-> t, state |-> state])
           /\ ~(u # t /\ seat[u] = "in" /\ room[u] = r /\ ~Finished(u))
                 => Tell(r, t, state, inbox)[u] = inbox[u]
  BY DEF Tell, InRoom

LEMMA StagesStep ==
    ASSUME TypeOK, Stages, [Next]_vars
    PROVE  Stages'
  <1> USE DEF limits, history, tables, requests, view, messages, twilio
  <1>0. /\ \A t \in Tabs : Stage(t)
        /\ \A t \in Tabs : seat[t] = "out" \/ seat[t] = "in" \/ seat[t] = "left"
    BY DEF TypeOK, Stages
  <1>1. CASE UNCHANGED vars
    <2>1. \A t \in Tabs : Stage(t)'
      BY <1>1, <1>0, StageKept DEF vars
    <2> QED BY <2>1, <1>1 DEF Stages, vars
  <1>2. CASE Complete
    <2>1. \A t \in Tabs : Stage(t)'
      BY <1>2, <1>0, StageKept DEF Complete
    <2> QED BY <2>1, <1>2 DEF Stages, Complete
  <1>3. ASSUME NEW t \in Tabs, Admit(t) PROVE Stages'
    <2> DEFINE r == IF live THEN opened ELSE opened + 1
    <2>1. r \in Rooms
      BY <1>3, BoundAssumption DEF Admit, TypeOK, Stages, Rooms
    <2>2. /\ room' = [room EXCEPT ![t] = r] /\ seat' = [seat EXCEPT ![t] = "in"]
          /\ accept' = [accept EXCEPT ![t] = InRoom(r)] /\ opened' = r
          /\ inbox' = Tell(r, t, "connected", inbox)
          /\ page[t] = "connecting" /\ seat[t] = "out"
          /\ UNCHANGED <<page, held, sees, parted, register, report, recorded>>
      BY <1>3 DEF Admit
    <2> HIDE DEF r
    <2>3. Stage(t)'
      <3>1. room'[t] = r /\ seat'[t] = "in" /\ accept'[t] = InRoom(r)
        BY <2>2 DEF TypeOK
      <3>2. InRoom(r) # None
        BY NoneAssumption DEF InRoom
      <3>3. Stage(t)
        BY <1>0
      <3> QED BY <2>1, <2>2, <3>1, <3>2, <3>3 DEF Stage, Finished
    <2>4. ASSUME NEW u \in Tabs, u # t PROVE Stage(u)'
      <3>1. room'[u] = room[u] /\ seat'[u] = seat[u] /\ accept'[u] = accept[u]
        BY <2>2, <2>4 DEF TypeOK
      <3>2. CASE inbox'[u] = inbox[u]
        BY <3>1, <3>2, <2>2, <1>0, StageKept
      <3>3. CASE inbox'[u] # inbox[u]
        <4>1. seat[u] = "in" /\ ~Finished(u)
          BY <3>3, <2>2, WhoIsTold
        <4> QED BY <4>1, <3>1, <2>2, <1>0, StageTold
      <3> QED BY <3>2, <3>3
    <2> QED BY <2>1, <2>2, <2>3, <2>4 DEF Stages
  <1>4. ASSUME NEW t \in Tabs, Part(t) PROVE Stages'
    <2>1. /\ seat[t] = "in" /\ seat' = [seat EXCEPT ![t] = "left"]
          /\ inbox' = Tell(room[t], t, "disconnected", inbox)
          /\ UNCHANGED <<page, room, opened, live, accept, held, sees, parted, register, report,
                         recorded>>
      BY <1>4 DEF Part
    <2>2. ASSUME NEW u \in Tabs PROVE Stage(u)'
      <3>1. CASE seat[u] = "in" /\ ~(inbox'[u] # inbox[u] /\ Finished(u))
        <4>1. seat'[u] # "out"
          BY <3>1, <2>1 DEF TypeOK
        <4> QED BY <4>1, <3>1, <2>1, <1>0, StageTold
      <3>2. CASE seat[u] # "in"
        <4>1. inbox'[u] = inbox[u]
          BY <3>2, <2>1 DEF Tell, InRoom
        <4>2. seat'[u] = seat[u]
          BY <3>2, <2>1 DEF TypeOK
        <4> QED BY <4>1, <4>2, <2>1, <1>0, StageKept
      <3>3. inbox'[u] # inbox[u] => ~Finished(u)
        <4>1. inbox'[u] = Tell(room[t], t, "disconnected", inbox)[u]
          BY <2>1
        <4> QED BY <4>1 DEF Tell
      <3> QED BY <3>1, <3>2, <3>3
    <2> QED BY <2>1, <2>2 DEF Stages
  <1>5. ASSUME NEW t \in Tabs, Open(t) PROVE Stages'
    <2>1. /\ page[t] = "closed" /\ page' = [page EXCEPT ![t] = "connecting"]
          /\ UNCHANGED <<seat, room, accept, inbox, held, sees, parted, register, report,
                         recorded>>
      BY <1>5 DEF Open, twilio, messages, view, requests, tables
    <2>2. ASSUME NEW u \in Tabs PROVE Stage(u)'
      <3>1. CASE u = t
        <4>1. page'[u] = "connecting"
          BY <2>1, <3>1 DEF TypeOK
        <4>2. Stage(u)
          BY <1>0
        <4> QED BY <2>1, <3>1, <4>1, <4>2 DEF Stage, Finished
      <3>2. CASE u # t
        <4>1. page'[u] = page[u]
          BY <2>1, <3>2 DEF TypeOK
        <4> QED BY <2>1, <4>1, <1>0, StageKept
      <3> QED BY <3>1, <3>2
    <2>3. UNCHANGED <<live, opened>>
      BY <1>5 DEF Open, twilio
    <2> QED BY <2>2, <2>3 DEF Stages
  <1>6. ASSUME NEW t \in Tabs, Joined(t) PROVE Stages'
    <2>1. ASSUME NEW u \in Tabs PROVE Stage(u)'
      <3>1. CASE u = t
        <4>1. /\ page'[t] = "connected" /\ accept'[t] = None /\ held'[t] = <<>>
              /\ register'[t] = "sent" /\ page[t] = "connecting" /\ accept[t] # None
              /\ UNCHANGED <<seat, room, inbox, report, recorded>>
          BY <1>6 DEF Joined, TypeOK
        <4> QED BY <4>1, <3>1, <1>0 DEF Stage, Finished
      <3>2. CASE u # t
        <4>1. /\ page'[u] = page[u] /\ accept'[u] = accept[u] /\ held'[u] = held[u]
              /\ register'[u] = register[u] /\ sees'[u] = sees[u] /\ parted'[u] = parted[u]
              /\ UNCHANGED <<seat, room, inbox, report, recorded>>
          BY <1>6, <3>2 DEF Joined, Shows, TypeOK
        <4> QED BY <4>1, <1>0, StageKept
      <3> QED BY <3>1, <3>2
    <2> QED BY <2>1, <1>6 DEF Stages, Joined
  <1>7. ASSUME NEW t \in Tabs, Leave(t) PROVE Stages'
    BY <1>7, LeaveStops, StopStages
  <1>8. ASSUME NEW t \in Tabs, Receive(t) PROVE Stages'
    <2>1. CASE page[t] = "connecting" /\ Refused(t)
      BY <2>1, <1>8, RefusedStops, StopStages
    <2>2. CASE page[t] = "connected" /\ Disconnected(t, Tail(inbox[t]))
      BY <2>2, <1>8, DisconnectedStops, StopStages
    <2>3. CASE /\ page[t] = "connecting" /\ HoldBack(t, Head(inbox[t]))
               /\ inbox' = [inbox EXCEPT ![t] = Tail(inbox[t])] /\ inbox[t] # <<>>
      <3>1. ASSUME NEW u \in Tabs PROVE Stage(u)'
        <4>1. CASE u = t
          BY <4>1, <2>3, <1>8, <1>0 DEF Receive, HoldBack, Stage, Finished
        <4>2. CASE u # t
          <5>1. held'[u] = held[u] /\ inbox'[u] = inbox[u]
            BY <4>2, <2>3 DEF HoldBack, TypeOK
          <5> QED BY <5>1, <2>3, <1>8, <1>0, StageKept DEF Receive, HoldBack
        <4> QED BY <4>1, <4>2
      <3> QED BY <3>1, <1>8 DEF Stages, Receive
    <2>4. CASE /\ page[t] = "connected" /\ Update(t, Head(inbox[t]))
               /\ inbox' = [inbox EXCEPT ![t] = Tail(inbox[t])] /\ inbox[t] # <<>>
      <3>0. UNCHANGED <<page, seat, room, accept, held, register, report, recorded>>
        BY <1>8, <2>4 DEF Receive, Update
      <3>1. ASSUME NEW u \in Tabs PROVE Stage(u)'
        <4>1. CASE u = t
          BY <4>1, <2>4, <3>0, <1>0 DEF Stage, Finished
        <4>2. CASE u # t
          <5>1. sees'[u] = sees[u] /\ parted'[u] = parted[u] /\ inbox'[u] = inbox[u]
            BY <4>2, <2>4 DEF Update, Shows, TypeOK
          <5> QED BY <5>1, <3>0, <1>0, StageKept
        <4> QED BY <4>1, <4>2
      <3> QED BY <3>1, <1>8 DEF Stages, Receive
    <2> QED BY <1>8, <2>1, <2>2, <2>3, <2>4 DEF Receive
  <1>9. ASSUME NEW t \in Tabs, Kill(t) PROVE Stages'
    BY <1>9, KillStops, StopStages
  <1>10. ASSUME NEW t \in Tabs, Lose(t) \/ EndMeeting(t) \/ Validate(t) \/ Insert(t)
                                \/ Fetch(t) \/ Create(t) \/ Store(t)
         PROVE Stages'
    <2>1. UNCHANGED <<page, seat, room, opened, live, accept, inbox, held, sees, parted>>
      BY <1>10 DEF Lose, EndMeeting, Validate, Insert, Fetch, Create, Store
    <2>2. ASSUME NEW u \in Tabs
          PROVE  \/ register'[u] = register[u]
                 \/ register[u] = "sent" /\ register'[u] \in {"lost", "refused"}
                 \/ register[u] = "sent" /\ register'[u] = "valid" /\ u \in Managers
                 \/ register[u] = "valid" /\ register'[u] = "done"
      BY <1>10 DEF Lose, EndMeeting, Validate, Insert, Fetch, Create, Store, TypeOK
    <2>3. ASSUME NEW u \in Tabs
          PROVE  report'[u] = report[u] \/ (report[u] # "none" /\ report'[u] # "none")
      BY <1>10 DEF Lose, EndMeeting, Validate, Insert, Fetch, Create, Store, TypeOK
    <2>4. ASSUME NEW u \in Tabs
          PROVE  recorded'[u] = recorded[u] \/ seat[u] # "out"
      <3>1. CASE Create(t)
        <4>1. room[t] \in Rooms
          BY <3>1, <1>0 DEF Create, Stage
        <4>2. seat[u] = "out" => room[u] = 0
          BY <1>0 DEF Stage
        <4>3. 0 \notin Rooms
          BY DEF Rooms
        <4> QED BY <3>1, <4>1, <4>2, <4>3 DEF Create
      <3>2. CASE ~Create(t)
        BY <3>2, <1>10 DEF Lose, EndMeeting, Validate, Insert, Fetch, Store
      <3> QED BY <3>1, <3>2
    <2>5. ASSUME NEW u \in Tabs PROVE Stage(u)'
      BY <1>0, <2>1, <2>2, <2>3, <2>4, StageKept
    <2> QED BY <2>1, <2>5 DEF Stages
  <1>11. ASSUME NEW t \in Tabs, Expel(t) PROVE Stages'
    <2>1. CASE \E u \in Tabs : Expelled(u)
      <3>1. PICK v \in Tabs : Expelled(v)
        BY <2>1
      <3> DEFINE told == Tell(room[v], v, "disconnected", inbox)
      <3>2. \A u \in Tabs : u # v => inbox'[u] = told[u]
        BY <3>1 DEF Expelled, Tell
      <3> HIDE DEF told
      <3>3. ASSUME NEW u \in Tabs PROVE Stage(u)'
        <4>1. CASE seat[u] = "in" /\ ~(inbox'[u] # inbox[u] /\ Finished(u))
          <5>1. seat'[u] # "out"
            BY <4>1, <3>1 DEF TypeOK, Expelled
          <5> QED BY <5>1, <4>1, <3>1, <1>0, StageTold DEF Expelled
        <4>2. CASE seat[u] # "in"
          <5>1. seat'[u] = seat[u] /\ u # v
            BY <4>2, <3>1 DEF TypeOK, Expelled
          <5>2. told[u] = inbox[u]
            BY <4>2 DEF told, Tell, InRoom
          <5> QED BY <5>1, <5>2, <3>2, <3>1, <1>0, StageKept DEF Expelled
        <4>3. CASE Finished(u)
          <5>1. inbox'[u] = inbox[u]
            <6>1. CASE u = v
              <7>1. told \in [Tabs -> Seq(Sends)] /\ told[v] = inbox[v]
                <8>1. told \in [Tabs -> Seq(Sends)]
                  BY TellType DEF told
                <8>2. told[v] = inbox[v]
                  BY DEF told, Tell, InRoom
                <8> QED BY <8>1, <8>2
              <7> QED BY <6>1, <4>3, <3>1, <7>1 DEF Expelled, told
            <6>2. CASE u # v
              <7>1. told[u] = inbox[u]
                BY <4>3 DEF told, Tell, InRoom
              <7> QED BY <7>1, <6>2, <3>2
            <6> QED BY <6>1, <6>2
          <5> QED BY <5>1, <4>1, <4>2
        <4> QED BY <4>1, <4>2, <4>3
      <3> QED BY <3>3, <3>1 DEF Stages, Expelled
    <2>2. CASE UNCHANGED <<page, seat, room, opened, live, accept, inbox, held, sees, parted,
                           register, report, rows, recorded, untidy, rejoined>>
      <3>1. \A u \in Tabs : Stage(u)'
        BY <2>2, <1>0, StageKept
      <3> QED BY <3>1, <2>2 DEF Stages
    <2> QED BY <1>11, <2>1, <2>2, ExpelCases
  <1> QED BY <1>1, <1>2, <1>3, <1>4, <1>5, <1>6, <1>7, <1>8, <1>9, <1>10, <1>11 DEF Next, Serve

-----------------------------------------------------------------------------
(* What is on the way to a tab.                                            *)

\* Nothing about tab v changes, nor about who is in the room.
LEMMA TabKept ==
    ASSUME NEW v \in Tabs, Talks(v), seat' = seat, room' = room,
           Finished(v)' = Finished(v), accept'[v] = accept[v], inbox'[v] = inbox[v],
           held'[v] = held[v], sees'[v] = sees[v], parted'[v] = parted[v]
    PROVE  Talks(v)' /\ WillSee(v)' = WillSee(v)
  <1>1. /\ \A m : Coming(v, m)' <=> Coming(v, m)
        /\ Known(v)' = Known(v)
    BY DEF Coming, Known, Answer
  <1>2. WillSee(v)' = WillSee(v)
    BY <1>1 DEF WillSee
  <1>3. EndLast(v)' /\ Sorted(v)'
    BY DEF Talks, EndLast, Sorted
  <1>4. Hears(v)'
    BY <1>1 DEF Talks, Hears
  <1>5. InRoom(room[v])' = InRoom(room[v])
    BY DEF InRoom
  <1>6. SeesRoom(v)'
    BY <1>2, <1>5 DEF Talks, SeesRoom
  <1> QED BY <1>2, <1>3, <1>4, <1>6 DEF Talks

LEMMA TalkKept ==
    ASSUME Talk, UNCHANGED <<page, seat, room, accept, inbox, held, sees, parted>>
    PROVE  Talk' /\ \A v \in Tabs : WillSee(v)' = WillSee(v)
  BY TabKept DEF Talk, Finished

LEMMA OpenTalk ==
    ASSUME TypeOK, Stages, Talk, NEW t \in Tabs, Open(t)
    PROVE  Talk' /\ \A v \in Tabs : WillSee(v)' = WillSee(v)
  <1>1. UNCHANGED <<seat, room, accept, inbox, held, sees, parted>>
    BY DEF Open, twilio, messages, view
  <1>2. \A v \in Tabs : Finished(v)' = Finished(v)
    BY DEF Open, Finished, TypeOK
  <1> QED BY <1>1, <1>2, TabKept DEF Talk

LEMMA StopTalk ==
    ASSUME TypeOK, Stages, Talk, NEW t \in Tabs,
           NEW how \in {"disconnected", "gone"}, Stopping(t, how)
    PROVE  Talk' /\ \A v \in Tabs : v # t => WillSee(v)' = WillSee(v)
  <1>1. /\ page'[t] = how /\ inbox'[t] = <<>> /\ accept'[t] = None /\ held'[t] = <<>>
        /\ sees'[t] = {} /\ parted'[t] = {}
    BY DEF Stopping, Stop, TypeOK
  <1>2. Finished(t)'
    BY <1>1 DEF Finished
  <1>3. \A m : ~Coming(t, m)'
    BY <1>1, HoldsNothing DEF Coming
  <1>4. Known(t)' = {}
    BY <1>1 DEF Known, Answer
  <1>5. EndLast(t)' /\ Sorted(t)'
    BY <1>1, <1>2, HoldsNothing DEF EndLast, Sorted, Ordered
  <1>6. Hears(t)' /\ SeesRoom(t)'
    BY <1>1, <1>2, <1>3, <1>4 DEF Hears, SeesRoom
  <1>7. ASSUME NEW v \in Tabs, v # t PROVE Talks(v)' /\ WillSee(v)' = WillSee(v)
    <2>1. /\ page'[v] = page[v] /\ inbox'[v] = inbox[v] /\ accept'[v] = accept[v]
          /\ held'[v] = held[v] /\ sees'[v] = sees[v] /\ parted'[v] = parted[v]
      BY <1>7, OthersStop DEF Stopping
    <2>2. Finished(v)' = Finished(v) /\ seat' = seat /\ room' = room
      BY <2>1 DEF Finished, Stopping
    <2> QED BY <2>1, <2>2, TabKept DEF Talk
  <1> QED BY <1>5, <1>6, <1>7 DEF Talk, Talks

\* A tab hears one thing more.
LEMMA HearsMore ==
    ASSUME TypeOK, NEW v \in Tabs, NEW m \in Sends, inbox'[v] = Append(inbox[v], m),
           held'[v] = held[v]
    PROVE  \A x : Coming(v, x)' <=> Coming(v, x) \/ x = m
  <1>1. inbox[v] \in Seq(Sends)
    BY DEF TypeOK, Sends
  <1>2. \A x : Holds(inbox'[v], x) <=> Holds(inbox[v], x) \/ x = m
    BY <1>1, HoldsAppend
  <1> QED BY <1>2 DEF Coming

\* It hears it last.
LEMMA EndLastMore ==
    ASSUME TypeOK, NEW v \in Tabs, NEW m \in Sends, inbox'[v] = Append(inbox[v], m),
           seat[v] = "in", EndLast(v),
           IF m = End THEN seat'[v] = "left" ELSE seat'[v] = "in"
    PROVE  EndLast(v)'
  <1>1. inbox[v] \in Seq(Sends) /\ Len(inbox[v]) \in Nat
    BY DEF TypeOK, Sends
  <1>2. /\ inbox'[v] # <<>> /\ Len(inbox'[v]) = Len(inbox[v]) + 1
        /\ \A i \in 1..Len(inbox[v]) : inbox'[v][i] = inbox[v][i]
        /\ inbox'[v][Len(inbox[v]) + 1] = m
    BY <1>1, AppendProperties
  <1>3. \A i \in 1..Len(inbox[v]) : inbox'[v][i] # End
    BY <1>2 DEF EndLast
  <1>4. ASSUME NEW i \in 1..Len(inbox'[v]), inbox'[v][i] = End
        PROVE  seat'[v] = "left" /\ i = Len(inbox'[v])
    <2>1. i = Len(inbox[v]) + 1
      BY <1>1, <1>2, <1>3, <1>4
    <2> QED BY <2>1, <1>2, <1>4
  <1>5. seat'[v] = "left" => inbox'[v][Len(inbox'[v])] = End
    BY <1>2
  <1> QED BY <1>2, <1>4, <1>5 DEF EndLast

LEMMA AdmitTalk ==
    ASSUME TypeOK, Stages, Talk, NEW t \in Tabs, Admit(t)
    PROVE  Talk' /\ \A v \in Tabs : v # t /\ seat[v] = "left" => WillSee(v)' = WillSee(v)
  <1>1. \E r \in Rooms : r = IF live THEN opened ELSE opened + 1
    BY BoundAssumption DEF Admit, TypeOK, Stages, Rooms
  <1>2. PICK r \in Rooms :
          /\ room' = [room EXCEPT ![t] = r] /\ seat' = [seat EXCEPT ![t] = "in"]
          /\ accept' = [accept EXCEPT ![t] = InRoom(r)]
          /\ inbox' = Tell(r, t, "connected", inbox)
          /\ page[t] = "connecting" /\ seat[t] = "out"
          /\ UNCHANGED <<page, held, sees, parted>>
    BY <1>1 DEF Admit, view
  <1>3. /\ seat'[t] = "in" /\ room'[t] = r /\ accept'[t] = InRoom(r)
        /\ \A v \in Tabs : v # t =>
              seat'[v] = seat[v] /\ room'[v] = room[v] /\ accept'[v] = accept[v]
    BY <1>2 DEF TypeOK
  <1>4. \A v \in Tabs : Finished(v)' = Finished(v)
    BY <1>2 DEF Finished
  <1>5. \A v \in Tabs : Stage(v) /\ Talks(v)
    BY DEF Stages, Talk
  <1>6. InRoom(r)' = InRoom(r) \cup {t} /\ t \notin InRoom(r)
        /\ \A q : q # r => InRoom(q)' = InRoom(q)
    <2>1. room[t] = 0 /\ r # 0
      BY <1>2, <1>5 DEF Stage, Rooms
    <2>2. \A u \in Tabs : u \in InRoom(r)' <=> u \in InRoom(r) \/ u = t
      BY <1>3 DEF InRoom
    <2>3. \A q : \A u \in Tabs : q # r => (u \in InRoom(q)' <=> u \in InRoom(q))
      BY <1>2, <1>3 DEF InRoom
    <2> QED BY <2>2, <2>3, <1>2 DEF InRoom
  <1>7. Talks(t)'
    <2>1. inbox'[t] = <<>> /\ held'[t] = <<>> /\ sees'[t] = {} /\ parted'[t] = {}
      BY <1>2, <1>5 DEF Stage, Tell
    <2>2. \A m : ~Coming(t, m)'
      BY <2>1, HoldsNothing DEF Coming
    <2>3. Known(t)' = InRoom(r)
      <3>1. InRoom(r) # None
        BY NoneAssumption DEF InRoom
      <3> QED BY <3>1, <2>1, <1>3 DEF Known, Answer
    <2>4. WillSee(t)' = InRoom(r)
      BY <2>2, <2>3 DEF WillSee, InRoom
    <2>5. EndLast(t)' /\ Sorted(t)'
      BY <2>1, <1>3, HoldsNothing DEF EndLast, Sorted, Ordered
    <2>6. Hears(t)'
      <3>1. \A u \in InRoom(r) : u # t /\ u \in Tabs /\ room[u] = r /\ seat[u] = "in"
        BY <1>6 DEF InRoom
      <3> QED BY <3>1, <2>1, <2>2, <2>3, <1>3 DEF Hears
    <2>7. SeesRoom(t)'
      BY <2>4, <1>3, <1>6 DEF SeesRoom
    <2> QED BY <2>5, <2>6, <2>7 DEF Talks
  <1>8. ASSUME NEW v \in Tabs, v # t
        PROVE  Talks(v)' /\ (seat[v] = "left" => WillSee(v)' = WillSee(v))
    <2>1. CASE v \in InRoom(r) /\ ~Finished(v)
      <3>1. inbox'[v] = Append(inbox[v], Conn(t)) /\ held'[v] = held[v]
        BY <1>2, <1>8, <2>1 DEF Tell, Conn
      <3>2. Conn(t) \in Sends /\ Conn(t) # End
        BY Kinds
      <3>3. \A x : Coming(v, x)' <=> Coming(v, x) \/ x = Conn(t)
        BY <3>1, <3>2, HearsMore
      <3>4. seat[v] = "in" /\ room[v] = r
        BY <2>1 DEF InRoom
      <3>5. ~Coming(v, Disc(t)) /\ t \notin parted[v] /\ t \notin Known(v)
        BY <1>2, <1>5 DEF Talks, Hears
      <3>6. Known(v)' = Known(v)
        BY <1>2, <1>3, <1>8 DEF Known, Answer
      <3>7. EndLast(v)'
        BY <3>1, <3>2, <3>4, <1>3, <1>5, <1>8, EndLastMore DEF Talks
      <3>8. Sorted(v)'
        <4>1. inbox[v] \in Seq(Sends)
          BY DEF TypeOK, Sends
        <4>2. \A u \in Tabs : Conn(t) = Conn(u) => ~Holds(inbox[v], Disc(u))
          BY <3>5, Kinds DEF Coming
        <4>3. Ordered(inbox'[v])
          BY <3>1, <3>2, <4>1, <4>2, <1>5, OrderedAppend DEF Talks, Sorted
        <4>4. \A x : Holds(inbox'[v], x) <=> Holds(inbox[v], x) \/ x = Conn(t)
          BY <3>1, <3>2, <4>1, HoldsAppend
        <4>5. \A u \in Tabs : Conn(u) = Conn(t) => ~Holds(held[v], Disc(u))
          BY <3>5, Kinds DEF Coming
        <4> QED BY <3>1, <4>3, <4>4, <4>5, <1>5 DEF Talks, Sorted
      <3>9. Hears(v)'
        <4> SUFFICES ASSUME NEW u \in Tabs
              PROVE (/\ u \in Known(v) \/ u \in parted[v] \/ Coming(v, Conn(u)) \/ Coming(v, Disc(u)) =>
                           u # v /\ room[u] = room[v] /\ seat[u] # "out"
                     /\ u \in parted[v] \/ Coming(v, Disc(u)) => seat[u] = "left"
                     /\ u \in parted[v] => u \notin sees[v] /\ ~Coming(v, Conn(u)))'
          BY DEF Hears
        <4>1. CASE u = t
          BY <4>1, <3>3, <3>4, <3>5, <3>6, <1>2, <1>3, <1>8, Kinds
        <4>2. CASE u # t
          <5>1. /\ Coming(v, Conn(u))' <=> Coming(v, Conn(u))
                /\ Coming(v, Disc(u))' <=> Coming(v, Disc(u))
            BY <4>2, <3>3, Kinds
          <5> QED BY <4>2, <5>1, <3>6, <1>2, <1>3, <1>5, <1>8 DEF Talks, Hears
        <4> QED BY <4>1, <4>2
      <3>10. SeesRoom(v)'
        <4>1. WillSee(v) = InRoom(r) \ {v}
          BY <3>4, <2>1, <1>5 DEF Talks, SeesRoom
        <4>2. \A u \in Tabs : u \in WillSee(v)' <=> u \in WillSee(v) \/ u = t
          BY <3>3, <3>5, <3>6, Kinds DEF WillSee
        <4>3. WillSee(v)' = WillSee(v) \cup {t}
          BY <4>2 DEF WillSee
        <4> QED BY <4>1, <4>3, <3>4, <1>3, <1>6, <1>8 DEF SeesRoom
      <3> QED BY <3>4, <3>7, <3>8, <3>9, <3>10 DEF Talks
    <2>2. CASE ~(v \in InRoom(r) /\ ~Finished(v))
      <3>1. inbox'[v] = inbox[v] /\ held'[v] = held[v]
        BY <1>2, <1>8, <2>2 DEF Tell
      <3>2. \A x : Coming(v, x)' <=> Coming(v, x)
        BY <3>1 DEF Coming
      <3>3. Known(v)' = Known(v) /\ WillSee(v)' = WillSee(v)
        BY <3>2, <1>2, <1>3, <1>8 DEF Known, Answer, WillSee
      <3>4. EndLast(v)' /\ Sorted(v)'
        BY <3>1, <1>3, <1>4, <1>5, <1>8 DEF Talks, EndLast, Sorted
      <3>5. Hears(v)'
        BY <3>2, <3>3, <1>2, <1>3, <1>5, <1>8 DEF Talks, Hears
      <3>6. SeesRoom(v)'
        <4> SUFFICES ASSUME ~Finished(v), seat[v] = "in" PROVE SeesRoom(v)'
          BY <1>3, <1>4, <1>8 DEF SeesRoom
        <4>1. room[v] # r
          BY <2>2 DEF InRoom
        <4> QED BY <4>1, <3>3, <1>3, <1>5, <1>6, <1>8 DEF Talks, SeesRoom
      <3> QED BY <3>3, <3>4, <3>5, <3>6 DEF Talks
    <2> QED BY <2>1, <2>2
  <1> QED BY <1>7, <1>8 DEF Talk

\* A tab leaves its room, as Twilio has it.
Departs(u) ==
    /\ seat[u] = "in" /\ seat' = [seat EXCEPT ![u] = "left"]
    /\ UNCHANGED <<page, room, accept, held, sees, parted>>
    /\ inbox'[u] = IF Finished(u) THEN inbox[u] ELSE Append(inbox[u], End)
    /\ \A v \in Tabs \ {u} :
          inbox'[v] = IF v \in InRoom(room[u]) /\ ~Finished(v)
                      THEN Append(inbox[v], Disc(u)) ELSE inbox[v]

LEMMA PartDeparts ==
    ASSUME TypeOK, NEW t \in Tabs, Part(t)
    PROVE  Departs(t)
  <1>1. inbox'[t] = inbox[t]
    BY DEF Part, Tell
  <1>2. \A v \in Tabs \ {t} :
          inbox'[v] = IF v \in InRoom(room[t]) /\ ~Finished(v)
                      THEN Append(inbox[v], Disc(t)) ELSE inbox[v]
    BY DEF Part, Tell, Disc
  <1> QED BY <1>1, <1>2 DEF Part, Departs, view

LEMMA ExpelledDeparts ==
    ASSUME TypeOK, NEW u \in Tabs, Expelled(u)
    PROVE  Departs(u)
  <1> DEFINE told == Tell(room[u], u, "disconnected", inbox)
  <1>1. told \in [Tabs -> Seq(Sends)]
    BY TellType
  <1>2. told[u] = inbox[u]
    BY DEF Tell
  <1>3. \A v \in Tabs \ {u} :
          told[v] = IF v \in InRoom(room[u]) /\ ~Finished(v)
                    THEN Append(inbox[v], Disc(u)) ELSE inbox[v]
    BY DEF Tell, Disc
  <1> HIDE DEF told
  <1>4. inbox' = [told EXCEPT ![u] = IF Finished(u) THEN @ ELSE Append(@, End)]
    BY DEF Expelled, told
  <1>5. inbox'[u] = IF Finished(u) THEN inbox[u] ELSE Append(inbox[u], End)
    BY <1>1, <1>2, <1>4
  <1>6. \A v \in Tabs \ {u} : inbox'[v] = told[v]
    BY <1>1, <1>4
  <1> QED BY <1>3, <1>5, <1>6 DEF Expelled, Departs

LEMMA DepartsTalk ==
    ASSUME TypeOK, Stages, Talk, NEW u \in Tabs, Departs(u)
    PROVE  /\ Talk'
           /\ \A v \in Tabs : v # u /\ seat[v] = "left" => WillSee(v)' = WillSee(v)
           /\ WillSee(u)' = WillSee(u)
  <1>1. /\ seat'[u] = "left" /\ seat[u] = "in"
        /\ \A v \in Tabs : v # u => seat'[v] = seat[v]
        /\ UNCHANGED <<page, room, accept, held, sees, parted>>
    BY DEF Departs, TypeOK
  <1>2. \A v \in Tabs : Finished(v)' = Finished(v) /\ Known(v)' = Known(v)
    BY <1>1 DEF Finished, Known, Answer
  <1>3. \A v \in Tabs : Stage(v) /\ Talks(v)
    BY DEF Stages, Talk
  <1>4. \A q : InRoom(q)' = InRoom(q) \ {u}
    BY <1>1 DEF InRoom
  <1>5. \A v \in Tabs : inbox[v] \in Seq(Sends)
    BY DEF TypeOK, Sends
  <1>6. Talks(u)' /\ WillSee(u)' = WillSee(u)
    <2>1. CASE Finished(u)
      <3>1. inbox'[u] = inbox[u] /\ inbox[u] = <<>>
        BY <2>1, <1>3 DEF Departs, Stage
      <3>2. \A x : Coming(u, x)' <=> Coming(u, x)
        BY <3>1, <1>1 DEF Coming
      <3>3. WillSee(u)' = WillSee(u)
        BY <3>2, <1>2 DEF WillSee
      <3>4. EndLast(u)' /\ Sorted(u)'
        BY <3>1, <2>1, <1>1, <1>2, <1>3 DEF Talks, EndLast, Sorted
      <3>5. Hears(u)'
        BY <3>2, <1>1, <1>2, <1>3 DEF Talks, Hears
      <3> QED BY <3>3, <3>4, <3>5, <1>1 DEF Talks, SeesRoom
    <2>2. CASE ~Finished(u)
      <3>1. inbox'[u] = Append(inbox[u], End) /\ held'[u] = held[u] /\ End \in Sends
        BY <2>2, <1>1, Kinds DEF Departs
      <3>2. \A x : Coming(u, x)' <=> Coming(u, x) \/ x = End
        BY <3>1, HearsMore
      <3>3. \A v \in Tabs : /\ Coming(u, Conn(v))' <=> Coming(u, Conn(v))
                            /\ Coming(u, Disc(v))' <=> Coming(u, Disc(v))
        BY <3>2, Kinds
      <3>4. WillSee(u)' = WillSee(u)
        BY <3>3, <1>2 DEF WillSee
      <3>5. EndLast(u)'
        BY <3>1, <1>1, <1>3, EndLastMore DEF Talks
      <3>6. Sorted(u)'
        <4>1. \A v \in Tabs : End # Conn(v)
          BY Kinds
        <4>2. Ordered(inbox'[u])
          BY <3>1, <4>1, <1>3, <1>5, OrderedAppend DEF Talks, Sorted
        <4>3. \A x : Holds(inbox'[u], x) <=> Holds(inbox[u], x) \/ x = End
          BY <3>1, <1>5, HoldsAppend
        <4> QED BY <3>1, <4>1, <4>2, <4>3, <1>3 DEF Talks, Sorted
      <3>7. Hears(u)'
        BY <3>3, <1>1, <1>2, <1>3 DEF Talks, Hears
      <3> QED BY <3>4, <3>5, <3>6, <3>7, <1>1 DEF Talks, SeesRoom
    <2> QED BY <2>1, <2>2
  <1>7. ASSUME NEW v \in Tabs, v # u
        PROVE  Talks(v)' /\ (seat[v] = "left" => WillSee(v)' = WillSee(v))
    <2>1. CASE v \in InRoom(room[u]) /\ ~Finished(v)
      <3>1. inbox'[v] = Append(inbox[v], Disc(u)) /\ held'[v] = held[v]
        BY <1>1, <1>7, <2>1 DEF Departs
      <3>2. Disc(u) \in Sends /\ Disc(u) # End
        BY Kinds
      <3>3. \A x : Coming(v, x)' <=> Coming(v, x) \/ x = Disc(u)
        BY <3>1, <3>2, HearsMore
      <3>4. seat[v] = "in" /\ room[v] = room[u]
        BY <2>1 DEF InRoom
      <3>5. EndLast(v)'
        BY <3>1, <3>2, <3>4, <1>1, <1>3, <1>7, EndLastMore DEF Talks
      <3>6. Sorted(v)'
        <4>1. \A x \in Tabs : Disc(u) # Conn(x)
          BY Kinds
        <4>2. Ordered(inbox'[v])
          BY <3>1, <3>2, <4>1, <1>3, <1>5, OrderedAppend DEF Talks, Sorted
        <4>3. \A x : Holds(inbox'[v], x) <=> Holds(inbox[v], x) \/ x = Disc(u)
          BY <3>1, <3>2, <1>5, HoldsAppend
        <4> QED BY <3>1, <4>1, <4>2, <4>3, <1>3 DEF Talks, Sorted
      <3>7. \A x \in Tabs : /\ Coming(v, Conn(x))' <=> Coming(v, Conn(x))
                            /\ Coming(v, Disc(x))' <=> Coming(v, Disc(x)) \/ x = u
        BY <3>3, Kinds
      <3>8. Hears(v)'
        <4> SUFFICES ASSUME NEW x \in Tabs
              PROVE (/\ x \in Known(v) \/ x \in parted[v] \/ Coming(v, Conn(x)) \/ Coming(v, Disc(x)) =>
                           x # v /\ room[x] = room[v] /\ seat[x] # "out"
                     /\ x \in parted[v] \/ Coming(v, Disc(x)) => seat[x] = "left"
                     /\ x \in parted[v] => x \notin sees[v] /\ ~Coming(v, Conn(x)))'
          BY DEF Hears
        <4>1. CASE x = u
          BY <4>1, <3>4, <3>7, <1>1, <1>2, <1>3, <1>7 DEF Talks, Hears
        <4>2. CASE x # u
          BY <4>2, <3>4, <3>7, <1>1, <1>2, <1>3, <1>7 DEF Talks, Hears
        <4> QED BY <4>1, <4>2
      <3>9. SeesRoom(v)'
        <4>1. WillSee(v) = InRoom(room[v]) \ {v}
          BY <3>4, <2>1, <1>3 DEF Talks, SeesRoom
        <4>2. WillSee(v)' = WillSee(v) \ {u}
          BY <3>7, <1>2 DEF WillSee
        <4> QED BY <4>1, <4>2, <1>1, <1>4 DEF SeesRoom
      <3> QED BY <3>4, <3>5, <3>6, <3>8, <3>9 DEF Talks
    <2>2. CASE ~(v \in InRoom(room[u]) /\ ~Finished(v))
      <3>1. inbox'[v] = inbox[v] /\ held'[v] = held[v]
        BY <1>1, <1>7, <2>2 DEF Departs
      <3>2. \A x : Coming(v, x)' <=> Coming(v, x)
        BY <3>1 DEF Coming
      <3>3. WillSee(v)' = WillSee(v)
        BY <3>2, <1>2 DEF WillSee
      <3>4. EndLast(v)' /\ Sorted(v)'
        BY <3>1, <1>1, <1>2, <1>3, <1>7 DEF Talks, EndLast, Sorted
      <3>5. Hears(v)'
        BY <3>2, <1>1, <1>2, <1>3, <1>7 DEF Talks, Hears
      <3>6. SeesRoom(v)'
        <4> SUFFICES ASSUME ~Finished(v), seat[v] = "in" PROVE SeesRoom(v)'
          BY <1>1, <1>2, <1>7 DEF SeesRoom
        <4>1. u \notin InRoom(room[v])
          BY <2>2 DEF InRoom
        <4> QED BY <4>1, <3>3, <1>1, <1>3, <1>4 DEF Talks, SeesRoom
      <3> QED BY <3>3, <3>4, <3>5, <3>6 DEF Talks
    <2> QED BY <2>1, <2>2
  <1> QED BY <1>6, <1>7 DEF Talk

-----------------------------------------------------------------------------
(* A tab handles what has come.                                            *)

LEMMA JoinedTalk ==
    ASSUME TypeOK, Stages, Talk, NEW t \in Tabs, Joined(t)
    PROVE  Talk' /\ \A v \in Tabs : WillSee(v)' = WillSee(v)
  <1> DEFINE seen == [sees |-> accept[t], parted |-> {}]
             w == After(seen, held[t])
             H(x) == Holds(held[t], x)
             I(x) == Holds(inbox[t], x)
  <1>1. page[t] = "connecting" /\ accept[t] # None /\ Stage(t) /\ Talks(t)
    BY DEF Joined, Stages, Talk
  <1>2. accept[t] \subseteq Tabs /\ held[t] \in Seq(Updates) /\ Ordered(held[t])
    BY <1>1 DEF TypeOK, Talks, Sorted
  <1>3. seen \in Views /\ seen.parted = {} /\ seen.sees = accept[t]
    BY <1>2 DEF Views
  <1>4. Follows(seen, w, held[t], Len(held[t]))
    BY <1>2, <1>3, AfterFollows
  <1>5. /\ sees' = [sees EXCEPT ![t] = w.sees] /\ parted' = [parted EXCEPT ![t] = w.parted]
        /\ accept' = [accept EXCEPT ![t] = None] /\ held' = [held EXCEPT ![t] = <<>>]
        /\ page' = [page EXCEPT ![t] = "connected"]
        /\ UNCHANGED <<seat, room, inbox>>
    BY DEF Joined, Shows, twilio
  <1> HIDE DEF w, seen
  <1>6. /\ w.sees \subseteq Tabs /\ w.parted \subseteq Tabs /\ w.sees \cap w.parted = {}
        /\ \A u \in Tabs :
              /\ u \in w.sees => u \in accept[t] \/ H(Conn(u))
              /\ u \in accept[t] \/ H(Conn(u)) => u \in w.sees \/ H(Disc(u))
              /\ H(Disc(u)) => u \notin w.sees
              /\ u \in w.parted => H(Disc(u))
    BY <1>3, <1>4 DEF Follows, Holds, Views
  <1>7. /\ sees'[t] = w.sees /\ parted'[t] = w.parted /\ accept'[t] = None /\ held'[t] = <<>>
        /\ page'[t] = "connected"
        /\ \A v \in Tabs : v # t =>
              /\ sees'[v] = sees[v] /\ parted'[v] = parted[v] /\ accept'[v] = accept[v]
              /\ held'[v] = held[v] /\ page'[v] = page[v]
    BY <1>5 DEF TypeOK
  <1>8. /\ \A x : Coming(t, x)' <=> I(x)
        /\ \A x : Coming(t, x) <=> H(x) \/ I(x)
        /\ Known(t)' = w.sees /\ Known(t) = accept[t]
    <2>1. \A x : Coming(t, x)' <=> I(x)
      BY <1>5, <1>7, HoldsNothing DEF Coming
    <2>2. sees[t] = {}
      BY <1>1 DEF Stage
    <2> QED BY <2>1, <2>2, <1>1, <1>7 DEF Coming, Known, Answer
  <1>9. \A u \in Tabs : ~(H(Disc(u)) /\ I(Conn(u)))
    BY <1>1 DEF Talks, Sorted
  <1> HIDE DEF H, I
  <1>10. WillSee(t)' = WillSee(t)
    <2>1. \A u \in Tabs : u \in WillSee(t)' <=> u \in WillSee(t)
      BY <1>6, <1>8, <1>9 DEF WillSee
    <2> QED BY <2>1 DEF WillSee
  <1>11. Finished(t)' = Finished(t)
    BY <1>1, <1>7 DEF Finished
  <1>12. EndLast(t)'
    BY <1>1, <1>5, <1>11 DEF Talks, EndLast
  <1>13. Sorted(t)'
    <2>1. Ordered(<<>>)
      BY DEF Ordered
    <2> QED BY <2>1, <1>1, <1>5, <1>7, HoldsNothing DEF Talks, Sorted
  <1>14. Hears(t)'
    <2> SUFFICES ASSUME NEW u \in Tabs
          PROVE (/\ u \in Known(t) \/ u \in parted[t] \/ Coming(t, Conn(u)) \/ Coming(t, Disc(u)) =>
                       u # t /\ room[u] = room[t] /\ seat[u] # "out"
                 /\ u \in parted[t] \/ Coming(t, Disc(u)) => seat[u] = "left"
                 /\ u \in parted[t] => u \notin sees[t] /\ ~Coming(t, Conn(u)))'
      BY DEF Hears
    <2> QED BY <1>1, <1>5, <1>6, <1>7, <1>8, <1>9 DEF Talks, Hears
  <1>15. Talks(t)'
    <2>1. InRoom(room[t])' = InRoom(room[t])
      BY <1>5 DEF InRoom
    <2> QED BY <2>1, <1>1, <1>5, <1>10, <1>11, <1>12, <1>13, <1>14 DEF Talks, SeesRoom
  <1>16. ASSUME NEW v \in Tabs, v # t PROVE Talks(v)' /\ WillSee(v)' = WillSee(v)
    BY <1>5, <1>7, <1>16, TabKept DEF Talk, Finished
  <1> QED BY <1>10, <1>15, <1>16 DEF Talk

\* The rest of the inbox still ends with the end.
LEMMA EndLastRest ==
    ASSUME TypeOK, NEW t \in Tabs, EndLast(t), inbox[t] # <<>>, Head(inbox[t]) # End,
           inbox'[t] = Tail(inbox[t]), seat'[t] = seat[t], ~Finished(t)
    PROVE  EndLast(t)'
  <1> DEFINE s == inbox[t]
  <1>1. s \in Seq(Sends)
    BY DEF TypeOK, Sends
  <1>2. /\ Tail(s) \in Seq(Sends) /\ Len(Tail(s)) = Len(s) - 1
        /\ \A i \in 1..Len(Tail(s)) : Tail(s)[i] = s[i + 1]
    BY <1>1, HeadTailProperties
  <1>3. Len(s) \in Nat /\ Len(s) > 0 /\ Head(s) = s[1]
    BY <1>1
  <1>4. ASSUME NEW i \in 1..Len(Tail(s)), Tail(s)[i] = End
        PROVE  seat'[t] = "left" /\ i = Len(Tail(s))
    <2>1. i + 1 \in 1..Len(s) /\ s[i + 1] = End
      BY <1>2, <1>3, <1>4
    <2>2. seat[t] = "left" /\ i + 1 = Len(s)
      BY <2>1 DEF EndLast
    <2> QED BY <2>2, <1>2, <1>3
  <1>5. ASSUME seat'[t] = "left" PROVE Tail(s) # <<>> /\ Tail(s)[Len(Tail(s))] = End
    <2>1. s[Len(s)] = End
      BY <1>5 DEF EndLast
    <2>2. Len(s) # 1
      BY <2>1, <1>3
    <2>3. Len(Tail(s)) \in 1..Len(Tail(s)) /\ Len(Tail(s)) + 1 = Len(s)
      <3> DEFINE n == Len(s)
                 k == Len(Tail(s))
      <3>1. n \in Nat /\ n > 0 /\ n # 1 /\ k = n - 1
        BY <2>2, <1>2, <1>3
      <3> HIDE DEF n, k
      <3>2. k \in 1..k /\ k + 1 = n
        BY <3>1
      <3> QED BY <3>2 DEF n, k
    <2>4. Tail(s)[Len(Tail(s))] = End
      BY <2>1, <2>3, <1>2
    <2>5. Tail(s) # <<>>
      BY <2>3, <1>2
    <2> QED BY <2>4, <2>5
  <1> HIDE DEF s
  <1>6. inbox'[t] = Tail(s)
    BY DEF s
  <1> QED BY <1>4, <1>5, <1>6 DEF EndLast

LEMMA HoldBackTalk ==
    ASSUME TypeOK, Stages, Talk, NEW t \in Tabs, inbox[t] # <<>>, Head(inbox[t]) # End,
           page[t] = "connecting", HoldBack(t, Head(inbox[t])),
           inbox' = [inbox EXCEPT ![t] = Tail(inbox[t])], UNCHANGED <<seat, room>>
    PROVE  Talk' /\ \A v \in Tabs : WillSee(v)' = WillSee(v)
  <1> DEFINE m == Head(inbox[t])
  <1>1. Stage(t) /\ Talks(t)
    BY DEF Stages, Talk
  <1>2. /\ inbox[t] \in Seq(Sends) /\ m \in Sends /\ Tail(inbox[t]) \in Seq(Sends)
        /\ \A x : Holds(inbox[t], x) <=> m = x \/ Holds(Tail(inbox[t]), x)
    <2>1. inbox[t] \in Seq(Sends)
      BY DEF TypeOK, Sends
    <2> QED BY <2>1, HoldsTail
  <1>3. m \in Updates
    BY <1>2 DEF Sends
  <1>4. /\ held'[t] = Append(held[t], m) /\ inbox'[t] = Tail(inbox[t])
        /\ UNCHANGED <<page, accept, sees, parted>>
        /\ \A v \in Tabs : v # t => held'[v] = held[v] /\ inbox'[v] = inbox[v]
    BY DEF HoldBack, TypeOK
  <1>5. held[t] \in Seq(Sends)
    <2>1. held[t] \in Seq(Updates)
      BY DEF TypeOK
    <2> QED BY <2>1, Kinds
  <1>6. \A x : Holds(held'[t], x) <=> Holds(held[t], x) \/ x = m
    BY <1>2, <1>4, <1>5, HoldsAppend
  <1>7. \A x : Coming(t, x)' <=> Coming(t, x)
    BY <1>2, <1>4, <1>6 DEF Coming
  <1>8. Known(t)' = Known(t) /\ Finished(t)' = Finished(t)
    BY <1>4 DEF Known, Answer, Finished
  <1>9. WillSee(t)' = WillSee(t)
    BY <1>7, <1>8 DEF WillSee
  <1>10. EndLast(t)'
    BY <1>1, <1>4, EndLastRest DEF Talks, Finished
  <1>11. Sorted(t)'
    <2>1. /\ Ordered(inbox'[t])
          /\ \A u \in Tabs : m = Disc(u) => ~Holds(inbox'[t], Conn(u))
      BY <1>1, <1>2, <1>4, OrderedTail DEF Talks, Sorted
    <2>2. \A u \in Tabs : ~(Holds(held[t], Disc(u)) /\ (m = Conn(u) \/ Holds(inbox'[t], Conn(u))))
      BY <1>1, <1>2, <1>4 DEF Talks, Sorted
    <2>3. Ordered(held'[t])
      BY <2>2, <1>1, <1>2, <1>4, <1>5, OrderedAppend DEF Talks, Sorted
    <2> QED BY <2>1, <2>2, <2>3, <1>6 DEF Sorted
  <1>12. Hears(t)'
    BY <1>1, <1>4, <1>7, <1>8 DEF Talks, Hears
  <1>13. Talks(t)'
    <2>1. InRoom(room[t])' = InRoom(room[t])
      BY DEF InRoom
    <2> QED BY <2>1, <1>1, <1>8, <1>9, <1>10, <1>11, <1>12 DEF Talks, SeesRoom
  <1>14. ASSUME NEW v \in Tabs, v # t PROVE Talks(v)' /\ WillSee(v)' = WillSee(v)
    BY <1>4, <1>14, TabKept DEF Talk, Finished
  <1> QED BY <1>9, <1>13, <1>14 DEF Talk

LEMMA UpdateTalk ==
    ASSUME TypeOK, Stages, Talk, NEW t \in Tabs, inbox[t] # <<>>, Head(inbox[t]) # End,
           page[t] = "connected", Update(t, Head(inbox[t])),
           inbox' = [inbox EXCEPT ![t] = Tail(inbox[t])], UNCHANGED <<seat, room>>
    PROVE  Talk' /\ \A v \in Tabs : WillSee(v)' = WillSee(v)
  <1> DEFINE m == Head(inbox[t])
             seen == [sees |-> sees[t], parted |-> parted[t]]
             w == Apply(seen, m)
             u == m.who
             rest == Tail(inbox[t])
  <1>1. Stage(t) /\ Talks(t)
    BY DEF Stages, Talk
  <1>2. /\ inbox[t] \in Seq(Sends) /\ m \in Sends /\ rest \in Seq(Sends)
        /\ \A x : Holds(inbox[t], x) <=> m = x \/ Holds(rest, x)
    <2>1. inbox[t] \in Seq(Sends)
      BY DEF TypeOK, Sends
    <2> QED BY <2>1, HoldsTail
  <1>3. u \in Tabs /\ (m = Conn(u) \/ m = Disc(u))
    <2>1. m \in Updates
      BY <1>2 DEF Sends
    <2> QED BY <2>1, Kinds
  <1>4. /\ sees'[t] = w.sees /\ parted'[t] = w.parted /\ inbox'[t] = rest
        /\ UNCHANGED <<page, accept, held>>
        /\ \A v \in Tabs : v # t =>
              sees'[v] = sees[v] /\ parted'[v] = parted[v] /\ inbox'[v] = inbox[v]
    BY DEF Update, Shows, TypeOK
  <1>5. held[t] = <<>> /\ accept[t] = None
    BY <1>1 DEF Stage
  <1>6. /\ \A x : Coming(t, x) <=> m = x \/ Holds(rest, x)
        /\ \A x : Coming(t, x)' <=> Holds(rest, x)
        /\ Known(t) = sees[t] /\ Known(t)' = w.sees
    BY <1>2, <1>4, <1>5, HoldsNothing DEF Coming, Known, Answer
  <1>7. /\ Ordered(rest)
        /\ \A x \in Tabs : m = Disc(x) => ~Holds(rest, Conn(x))
    BY <1>1, <1>2, OrderedTail DEF Talks, Sorted
  <1>8. /\ \A x \in Tabs :
              /\ x \in Known(t) \/ x \in parted[t] \/ Coming(t, Conn(x)) \/ Coming(t, Disc(x)) =>
                    x # t /\ room[x] = room[t] /\ seat[x] # "out"
              /\ x \in parted[t] \/ Coming(t, Disc(x)) => seat[x] = "left"
              /\ x \in parted[t] => x \notin sees[t] /\ ~Coming(t, Conn(x))
    BY <1>1 DEF Talks, Hears
  <1>9. sees[t] \subseteq Tabs /\ parted[t] \subseteq Tabs
    BY DEF TypeOK
  <1>10. \/ /\ m = Conn(u)
            /\ w.sees = sees[t] \cup {u} /\ w.parted = parted[t]
         \/ /\ m = Disc(u)
            /\ w.sees = sees[t] \ {u} /\ u \notin w.sees
            /\ parted[t] \subseteq w.parted /\ w.parted \subseteq parted[t] \cup {u}
    <2>1. CASE m = Conn(u)
      <3>1. u \notin parted[t]
        BY <2>1, <1>3, <1>6, <1>8
      <3>2. m.state = "connected"
        BY <2>1 DEF Conn
      <3> QED BY <2>1, <3>1, <3>2 DEF Apply
    <2>2. CASE m = Disc(u)
      <3>1. m.state # "connected"
        BY <2>2 DEF Disc
      <3>2. u \in parted[t] => u \notin sees[t]
        BY <1>3, <1>8
      <3> QED BY <2>2, <3>1, <3>2 DEF Apply
    <2> QED BY <1>3, <2>1, <2>2
  <1> HIDE DEF w, u, m, rest
  <1>11. ASSUME NEW x \in Tabs
         PROVE  /\ x \in WillSee(t)' <=> x \in WillSee(t)
                /\ (/\ x \in Known(t) \/ x \in parted[t] \/ Coming(t, Conn(x)) \/ Coming(t, Disc(x)) =>
                          x # t /\ room[x] = room[t] /\ seat[x] # "out"
                    /\ x \in parted[t] \/ Coming(t, Disc(x)) => seat[x] = "left"
                    /\ x \in parted[t] => x \notin sees[t] /\ ~Coming(t, Conn(x)))'
    <2>1. CASE m = Conn(u) /\ w.sees = sees[t] \cup {u} /\ w.parted = parted[t]
      <3>1. /\ m # Disc(x) /\ (m = Conn(x) <=> x = u)
            /\ u \notin parted[t]
        BY <2>1, <1>3, <1>6, <1>8, Kinds
      <3> QED BY <2>1, <3>1, <1>3, <1>4, <1>6, <1>8 DEF WillSee
    <2>2. CASE /\ m = Disc(u) /\ w.sees = sees[t] \ {u} /\ u \notin w.sees
               /\ parted[t] \subseteq w.parted /\ w.parted \subseteq parted[t] \cup {u}
      <3>1. /\ m # Conn(x) /\ (m = Disc(x) <=> x = u)
            /\ ~Holds(rest, Conn(u))
        BY <2>2, <1>3, <1>7, Kinds
      <3> QED BY <2>2, <3>1, <1>3, <1>4, <1>6, <1>8 DEF WillSee
    <2> QED BY <1>10, <2>1, <2>2
  <1>12. WillSee(t)' = WillSee(t)
    BY <1>11 DEF WillSee
  <1>13. Hears(t)'
    BY <1>11 DEF Hears
  <1>14. EndLast(t)'
    BY <1>1, <1>4, EndLastRest DEF Talks, Finished, rest
  <1>15. Sorted(t)'
    BY <1>1, <1>4, <1>5, <1>7, HoldsNothing DEF Talks, Sorted
  <1>16. Talks(t)'
    <2>1. InRoom(room[t])' = InRoom(room[t]) /\ Finished(t)' = Finished(t)
      BY <1>4 DEF InRoom, Finished
    <2> QED BY <2>1, <1>1, <1>12, <1>13, <1>14, <1>15 DEF Talks, SeesRoom
  <1>17. ASSUME NEW v \in Tabs, v # t PROVE Talks(v)' /\ WillSee(v)' = WillSee(v)
    BY <1>4, <1>17, TabKept DEF Talk, Finished
  <1> QED BY <1>12, <1>16, <1>17 DEF Talk

-----------------------------------------------------------------------------
(* Who was last.                                                           *)

\* Nobody joins, leaves or stops: what there was to report stays so.
LEMMA LastsKept ==
    ASSUME SomeoneLast, OneLast, UNCHANGED <<room, rejoined>>,
           \A r \in Rooms : untidy[r] => untidy'[r],
           \A t \in Tabs : room[t] \in Rooms /\ ~untidy'[room[t]] =>
              /\ Out(t)' <=> Out(t)
              /\ Last(t)' <=> Last(t)
    PROVE  SomeoneLast' /\ OneLast'
  <1>1. \A r \in Rooms : \A t \in WasIn(r) : t \in Tabs /\ room[t] = r
    BY DEF WasIn
  <1>2. \A r : WasIn(r)' = WasIn(r)
    BY DEF WasIn
  <1>3. SomeoneLast'
    BY <1>1, <1>2 DEF SomeoneLast
  <1>4. OneLast'
    <2> SUFFICES ASSUME NEW r \in Rooms, ~untidy'[r], ~rejoined'[r], NEW t \in WasIn(r)', Last(t)',
                        NEW u \in WasIn(r)'
                 PROVE  Out(u)' /\ (Last(u)' => u = t)
      BY DEF OneLast
    <2>1. /\ t \in Tabs /\ u \in Tabs /\ room[t] = r /\ room[u] = r
          /\ t \in WasIn(r) /\ u \in WasIn(r)
      BY <1>1, <1>2
    <2>2. ~untidy[r] /\ ~rejoined[r]
      OBVIOUS
    <2> QED BY <2>1, <2>2 DEF OneLast
  <1> QED BY <1>3, <1>4

\* One more tab is out of its room: it is the last one if nobody else is there.
LEMMA OneMoreOut ==
    ASSUME TypeOK, Stages, SomeoneLast, OneLast, UNCHANGED <<room, rejoined>>,
           NEW t \in Tabs, room[t] \in Rooms, ~Out(t), seat[t] = "in", Out(t)',
           \A r \in Rooms : untidy[r] => untidy'[r],
           ~untidy'[room[t]] => ~Unnoticed(t),
           ~untidy'[room[t]] => (Last(t)' <=> InRoom(room[t]) \ {t} = {}),
           \A u \in Tabs : u # t => (Out(u)' <=> Out(u)) /\ (Last(u)' <=> Last(u))
    PROVE  SomeoneLast' /\ OneLast'
  <1> DEFINE q == room[t]
  <1>1. \A r : WasIn(r)' = WasIn(r)
    BY DEF WasIn
  <1>2. ASSUME ~untidy'[q], \A u \in WasIn(q) : u # t => Out(u)
        PROVE  InRoom(q) \ {t} = {}
    <2>1. ASSUME NEW u \in InRoom(q), u # t PROVE FALSE
      <3>1. u \in WasIn(q) /\ seat[u] = "in"
        BY <2>1 DEF InRoom, WasIn
      <3>2. Finished(u)
        BY <3>1, <2>1, <1>2 DEF Out
      <3> QED BY <3>2, <2>1, <1>2 DEF Unnoticed
    <2> QED BY <2>1
  <1>3. ASSUME InRoom(q) \ {t} = {}
        PROVE  \A u \in WasIn(q) : u # t => Out(u)
    <2>1. ASSUME NEW u \in WasIn(q), u # t PROVE Out(u)
      <3>1. u \in Tabs /\ room[u] = q /\ Stage(u)
        BY DEF WasIn, Stages
      <3>2. seat[u] # "in"
        BY <2>1, <3>1, <1>3 DEF InRoom
      <3>3. seat[u] # "out"
        <4>1. 0 \notin Rooms
          BY DEF Rooms
        <4> QED BY <4>1, <3>1 DEF Stage
      <3> QED BY <3>1, <3>2, <3>3 DEF TypeOK, Out
    <2> QED BY <2>1
  <1>4. t \in WasIn(q)
    BY DEF WasIn
  <1>5. \A r \in Rooms : \A u \in WasIn(r) : u \in Tabs /\ room[u] = r
    BY DEF WasIn
  <1>6. SomeoneLast'
    <2> SUFFICES ASSUME NEW r \in Rooms, ~untidy'[r], WasIn(r) # {}, \A u \in WasIn(r) : Out(u)'
                 PROVE  \E u \in WasIn(r) : Last(u)'
      BY <1>1 DEF SomeoneLast
    <2>1. CASE r = q
      BY <2>1, <1>2, <1>4, <1>5
    <2>2. CASE r # q
      <3>1. \A u \in WasIn(r) : u # t
        BY <2>2, <1>5
      <3> QED BY <3>1, <1>5 DEF SomeoneLast
    <2> QED BY <2>1, <2>2
  <1>7. OneLast'
    <2> SUFFICES ASSUME NEW r \in Rooms, ~untidy'[r], ~rejoined[r], NEW v \in WasIn(r), Last(v)',
                        NEW u \in WasIn(r)
                 PROVE  Out(u)' /\ (Last(u)' => u = v)
      BY <1>1 DEF OneLast
    <2>0. ~untidy[r]
      OBVIOUS
    <2>1. CASE r = q
      <3>1. \A x \in WasIn(q) : x # t => ~Last(x)'
        BY <2>0, <2>1, <1>4, <1>5 DEF OneLast
      <3>2. v = t
        BY <3>1, <2>1
      <3>3. Out(u)'
        BY <3>2, <2>1, <1>3, <1>5
      <3> QED BY <3>1, <3>2, <3>3, <2>1
    <2>2. CASE r # q
      <3>1. \A x \in WasIn(r) : x # t
        BY <2>2, <1>5
      <3> QED BY <3>1, <2>0, <1>5 DEF OneLast
    <2> QED BY <2>1, <2>2
  <1> QED BY <1>6, <1>7

LEMMA AdmitLast ==
    ASSUME TypeOK, Stages, Talk, SomeoneLast, OneLast, NEW t \in Tabs, Admit(t)
    PROVE  SomeoneLast' /\ OneLast'
  <1>1. \E r \in Rooms : r = IF live THEN opened ELSE opened + 1
    BY BoundAssumption DEF Admit, TypeOK, Stages, Rooms
  <1>2. PICK r \in Rooms :
          /\ room' = [room EXCEPT ![t] = r] /\ seat' = [seat EXCEPT ![t] = "in"]
          /\ rejoined' = [rejoined EXCEPT ![r] =
                            @ \/ (WasIn(r) # {} /\ \A u \in InRoom(r) : Finished(u))]
          /\ page[t] = "connecting" /\ seat[t] = "out"
          /\ UNCHANGED <<page, untidy, report>>
    BY <1>1 DEF Admit, requests, view
  <1>3. /\ seat'[t] = "in" /\ room'[t] = r
        /\ \A v \in Tabs : v # t => seat'[v] = seat[v] /\ room'[v] = room[v]
    BY <1>2 DEF TypeOK
  <1>4. /\ ~Out(t)' /\ ~Last(t)'
        /\ \A v \in Tabs : v # t => (Out(v)' <=> Out(v)) /\ (Last(v)' <=> Last(v))
    <2>1. report[t] = "none" /\ ~Finished(t)
      BY <1>2 DEF Stages, Stage, Finished
    <2>2. \A v \in Tabs : Finished(v)' = Finished(v)
      BY <1>2 DEF Finished
    <2>3. \A v \in Tabs : v # t /\ seat[v] = "left" => WillSee(v)' = WillSee(v)
      BY AdmitTalk
    <2> QED BY <2>1, <2>2, <2>3, <1>2, <1>3 DEF Out, Last
  <1>5. /\ WasIn(r)' = WasIn(r) \cup {t}
        /\ \A q \in Rooms : q # r => WasIn(q)' = WasIn(q)
    <2>1. room[t] = 0 /\ 0 \notin Rooms
      BY <1>2 DEF Stages, Stage, Rooms
    <2> QED BY <2>1, <1>3 DEF WasIn
  <1>6. /\ rejoined'[r] <=> rejoined[r] \/ (WasIn(r) # {} /\ \A u \in InRoom(r) : Finished(u))
        /\ \A q \in Rooms : q # r => rejoined'[q] = rejoined[q]
    BY <1>2 DEF TypeOK
  <1>7. \A q \in Rooms : \A u \in WasIn(q) : u \in Tabs /\ room[u] = q /\ u # t
    <2>1. room[t] = 0 /\ 0 \notin Rooms
      BY <1>2 DEF Stages, Stage, Rooms
    <2> QED BY <2>1 DEF WasIn
  <1>8. SomeoneLast'
    <2> SUFFICES ASSUME NEW q \in Rooms, ~untidy[q], WasIn(q)' # {}, \A u \in WasIn(q)' : Out(u)'
                 PROVE  \E u \in WasIn(q)' : Last(u)'
      BY <1>2 DEF SomeoneLast
    <2>1. q # r
      BY <1>4, <1>5
    <2> QED BY <2>1, <1>4, <1>5, <1>7 DEF SomeoneLast
  <1>9. OneLast'
    <2> SUFFICES ASSUME NEW q \in Rooms, ~untidy[q], ~rejoined'[q], NEW v \in WasIn(q)', Last(v)',
                        NEW u \in WasIn(q)'
                 PROVE  Out(u)' /\ (Last(u)' => u = v)
      BY <1>2 DEF OneLast
    <2>1. CASE q = r
      <3>1. v # t
        BY <1>4
      <3>2. v \in WasIn(r) /\ Last(v)
        BY <2>1, <3>1, <1>4, <1>5, <1>7
      <3>3. \A x \in WasIn(r) : Out(x)
        BY <3>2, <2>1, <1>6 DEF OneLast
      <3>4. PICK x \in InRoom(r) : ~Finished(x)
        BY <3>2, <2>1, <1>6
      <3>5. x \in WasIn(r) /\ seat[x] = "in"
        BY DEF InRoom, WasIn
      <3> QED BY <3>3, <3>4, <3>5 DEF Out
    <2>2. CASE q # r
      BY <2>2, <1>4, <1>5, <1>6, <1>7 DEF OneLast
    <2> QED BY <2>1, <2>2
  <1> QED BY <1>8, <1>9

LEMMA DepartsLast ==
    ASSUME TypeOK, Stages, Talk, SomeoneLast, OneLast, NEW u \in Tabs, Departs(u),
           UNCHANGED <<rejoined, report>>, \A r \in Rooms : untidy[r] => untidy'[r],
           ~Finished(u) /\ ~untidy'[room[u]] => ~Unnoticed(u)
    PROVE  SomeoneLast' /\ OneLast'
  <1>1. /\ seat[u] = "in" /\ seat'[u] = "left"
        /\ \A v \in Tabs : v # u => seat'[v] = seat[v]
        /\ \A v \in Tabs : Finished(v)' = Finished(v)
        /\ UNCHANGED room
    BY DEF Departs, TypeOK, Finished
  <1>2. /\ \A v \in Tabs : v # u /\ seat[v] = "left" => WillSee(v)' = WillSee(v)
        /\ WillSee(u)' = WillSee(u)
    BY DepartsTalk
  <1>3. \A v \in Tabs : v # u => (Out(v)' <=> Out(v)) /\ (Last(v)' <=> Last(v))
    BY <1>1, <1>2 DEF Out, Last
  <1>4. CASE Finished(u)
    <2>1. (Out(u)' <=> Out(u)) /\ (Last(u)' <=> Last(u))
      BY <1>1, <1>4 DEF Out, Last
    <2> QED BY <2>1, <1>1, <1>3, LastsKept
  <1>5. CASE ~Finished(u)
    <2>1. Stage(u) /\ Talks(u)
      BY DEF Stages, Talk
    <2>2. room[u] \in Rooms /\ report[u] = "none"
      BY <2>1, <1>1, <1>5 DEF Stage, TypeOK, Finished
    <2>3. ~Out(u) /\ Out(u)'
      BY <1>1, <1>5 DEF Out
    <2>4. Last(u)' <=> InRoom(room[u]) \ {u} = {}
      BY <2>1, <2>2, <1>1, <1>2, <1>5 DEF Last, Talks, SeesRoom
    <2> QED BY <2>2, <2>3, <2>4, <1>1, <1>3, <1>5, OneMoreOut
  <1> QED BY <1>4, <1>5

\* What a tab that stops will see it sees, if nothing crosses its leaving.
LEMMA SeesThen ==
    ASSUME TypeOK, Stages, Talk, NEW t \in Tabs, page[t] = "connected", NEW coming,
           ~Crossing(t, coming),
           coming = inbox[t] \/ (inbox[t] # <<>> /\ Head(inbox[t]) = End /\ coming = Tail(inbox[t]))
    PROVE  /\ WillSee(t) = sees[t]
           /\ coming = inbox[t] => seat[t] = "in"
           /\ coming # inbox[t] => seat[t] = "left"
  <1>1. Stage(t) /\ Talks(t) /\ ~Finished(t) /\ coming = <<>>
    BY DEF Stages, Talk, Finished, Crossing
  <1>2. held[t] = <<>> /\ accept[t] = None /\ seat[t] \in {"in", "left"}
    BY <1>1 DEF Stage, TypeOK
  <1>3. inbox[t] \in Seq(Sends)
    BY DEF TypeOK, Sends
  <1>4. \A u \in Tabs : ~Coming(t, Conn(u)) /\ ~Coming(t, Disc(u))
    <2>1. CASE coming = inbox[t]
      BY <2>1, <1>1, <1>2, HoldsNothing DEF Coming
    <2>2. CASE inbox[t] # <<>> /\ Head(inbox[t]) = End /\ coming = Tail(inbox[t])
      <3>1. \A x : Holds(inbox[t], x) <=> x = End
        BY <2>2, <1>1, <1>3, HoldsTail, HoldsNothing
      <3> QED BY <3>1, <1>2, HoldsNothing, Kinds DEF Coming
    <2> QED BY <2>1, <2>2
  <1>5. sees[t] \subseteq Tabs
    BY DEF TypeOK
  <1>6. WillSee(t) = sees[t]
    BY <1>2, <1>4, <1>5 DEF WillSee, Known, Answer
  <1>7. coming = inbox[t] => seat[t] = "in"
    BY <1>1, <1>2 DEF Talks, EndLast
  <1>8. coming # inbox[t] => seat[t] = "left"
    <2>1. inbox[t] # <<>> /\ Head(inbox[t]) = End => 1 \in 1..Len(inbox[t]) /\ inbox[t][1] = End
      BY <1>3
    <2> QED BY <2>1, <1>1 DEF Talks, EndLast
  <1> QED BY <1>6, <1>7, <1>8

LEMMA StopLast ==
    ASSUME TypeOK, Stages, Talk, SomeoneLast, OneLast, NEW t \in Tabs,
           NEW how \in {"disconnected", "gone"}, Stopping(t, how),
           \/ room[t] \in Rooms => untidy'[room[t]]
           \/ /\ page[t] = "connected"
              /\ report' = [report EXCEPT ![t] = IF sees[t] = {} THEN "sent" ELSE "none"]
              /\ \E coming :
                    /\ room[t] \in Rooms /\ ~untidy'[room[t]] => ~Crossing(t, coming)
                    /\ \/ coming = inbox[t]
                       \/ /\ inbox[t] # <<>> /\ Head(inbox[t]) = End
                          /\ coming = Tail(inbox[t])
    PROVE  SomeoneLast' /\ OneLast'
  <1>1. /\ UNCHANGED <<seat, room, rejoined>>
        /\ \A r \in Rooms : untidy[r] => untidy'[r]
        /\ page[t] \in {"connecting", "connected"}
    BY DEF Stopping
  <1>2. ASSUME NEW v \in Tabs, v # t
        PROVE  (Out(v)' <=> Out(v)) /\ (Last(v)' <=> Last(v))
    <2>1. page'[v] = page[v] /\ report'[v] = report[v]
      <3>1. page'[v] = page[v]
        BY <1>2, OthersStop DEF Stopping
      <3>2. report'[v] = report[v]
        BY <1>2 DEF Stopping, TypeOK
      <3> QED BY <3>1, <3>2
    <2>2. WillSee(v)' = WillSee(v)
      BY <1>2, StopTalk
    <2> QED BY <2>1, <2>2, <1>1 DEF Out, Last, Finished
  <1>3. CASE room[t] \in Rooms => untidy'[room[t]]
    <2>1. \A v \in Tabs : room[v] \in Rooms /\ ~untidy'[room[v]] => v # t
      BY <1>3
    <2> QED BY <2>1, <1>1, <1>2, LastsKept
  <1>4. CASE /\ page[t] = "connected"
             /\ report' = [report EXCEPT ![t] = IF sees[t] = {} THEN "sent" ELSE "none"]
             /\ \E coming :
                   /\ room[t] \in Rooms /\ ~untidy'[room[t]] => ~Crossing(t, coming)
                   /\ \/ coming = inbox[t]
                      \/ /\ inbox[t] # <<>> /\ Head(inbox[t]) = End
                         /\ coming = Tail(inbox[t])
    <2>1. /\ Stage(t) /\ Talks(t) /\ ~Finished(t) /\ report[t] = "none"
          /\ room[t] \in Rooms /\ seat[t] \in {"in", "left"}
      BY <1>4 DEF Stages, Stage, Talk, Finished, TypeOK
    <2>2. page'[t] = how /\ report'[t] = IF sees[t] = {} THEN "sent" ELSE "none"
      BY <1>4 DEF Stopping, Stop, TypeOK
    <2>3. Out(t)' /\ (Last(t)' <=> sees[t] = {})
      BY <2>2 DEF Out, Last, Finished
    <2>4. CASE untidy'[room[t]]
      <3>1. \A v \in Tabs : room[v] \in Rooms /\ ~untidy'[room[v]] => v # t
        BY <2>4
      <3> QED BY <3>1, <1>1, <1>2, LastsKept
    <2>5. CASE ~untidy'[room[t]]
      <3>1. PICK coming :
               /\ ~Crossing(t, coming)
               /\ \/ coming = inbox[t]
                  \/ /\ inbox[t] # <<>> /\ Head(inbox[t]) = End
                     /\ coming = Tail(inbox[t])
        BY <1>4, <2>1, <2>5
      <3>2. WillSee(t) = sees[t]
        BY <3>1, <1>4, SeesThen
      <3>3. CASE seat[t] = "left"
        <4>1. Out(t) /\ (Last(t) <=> sees[t] = {})
          BY <3>2, <3>3, <2>1 DEF Out, Last
        <4>2. \A v \in Tabs : (Out(v)' <=> Out(v)) /\ (Last(v)' <=> Last(v))
          BY <4>1, <2>3, <1>2
        <4> QED BY <4>2, <1>1, LastsKept
      <3>4. CASE seat[t] = "in"
        <4>1. ~Out(t)
          BY <3>4, <2>1 DEF Out
        <4>2. Last(t)' <=> InRoom(room[t]) \ {t} = {}
          BY <3>2, <3>4, <2>1, <2>3 DEF Talks, SeesRoom
        <4>3. ~Unnoticed(t)
          BY <3>1 DEF Crossing
        <4> QED BY <4>1, <4>2, <4>3, <3>4, <2>1, <2>3, <1>1, <1>2, OneMoreOut
      <3> QED BY <2>1, <3>3, <3>4
    <2> QED BY <2>4, <2>5
  <1> QED BY <1>3, <1>4

-----------------------------------------------------------------------------
(* What is recorded of a room.                                             *)

LEMMA RowsCountStep ==
    ASSUME TypeOK, Stages, RowsCount, [Next]_vars
    PROVE  RowsCount'
  <1> USE DEF limits, history, tables, requests, view, messages, twilio
  <1>1. ASSUME UNCHANGED rows, NEW t \in Tabs,
               \A v \in Tabs : v # t => room'[v] = room[v] /\ register'[v] = register[v],
               (register[t] = "done" \/ register'[t] = "done") =>
                  room'[t] = room[t] /\ register'[t] = register[t]
        PROVE  RowsCount'
    <2>1. \A v \in Managers : v \in Tabs
      BY TabAssumption
    <2>2. \A r \in Rooms : Registered(r)' = Registered(r)
      BY <1>1, <2>1 DEF Registered
    <2> QED BY <2>2, <1>1 DEF RowsCount
  <1>2. ASSUME UNCHANGED <<rows, room, register>> PROVE RowsCount'
    <2>1. \A r \in Rooms : Registered(r)' = Registered(r)
      BY <1>2 DEF Registered
    <2> QED BY <2>1, <1>2 DEF RowsCount
  <1>3. CASE UNCHANGED vars \/ Complete
    BY <1>2, <1>3 DEF vars, Complete
  <1>4. ASSUME NEW t \in Tabs, Part(t) \/ Open(t) \/ EndMeeting(t)
                               \/ Fetch(t) \/ Create(t) \/ Store(t)
        PROVE  RowsCount'
    BY <1>2, <1>4 DEF Part, Open, EndMeeting, Fetch, Create, Store
  <1>5. ASSUME NEW t \in Tabs, Leave(t) \/ Receive(t) \/ Kill(t) PROVE RowsCount'
    BY <1>2, <1>5 DEF Leave, Receive, Kill
  <1>6. ASSUME NEW t \in Tabs, Expel(t) PROVE RowsCount'
    BY <1>2, <1>6 DEF Expel
  <1>7. ASSUME NEW t \in Tabs, Admit(t) PROVE RowsCount'
    <2>1. register[t] = "none" /\ UNCHANGED <<rows, register>>
      BY <1>7 DEF Admit, Stages, Stage
    <2>2. \A v \in Tabs : v # t => room'[v] = room[v]
      BY <1>7 DEF Admit, TypeOK
    <2> QED BY <2>1, <2>2, <1>1
  <1>8. ASSUME NEW t \in Tabs, Joined(t) \/ Lose(t) \/ Validate(t) PROVE RowsCount'
    <2>1. UNCHANGED <<rows, room>>
      BY <1>8 DEF Joined, Lose, Validate
    <2>2. \A v \in Tabs : v # t => register'[v] = register[v]
      BY <1>8 DEF Joined, Lose, Validate, TypeOK
    <2>3. register[t] = "done" => register'[t] = register[t]
      BY <1>8 DEF Joined, Lose, Validate, TypeOK, Stages, Stage
    <2>4. register'[t] = "done" => register'[t] = register[t]
      BY <1>8 DEF Joined, Lose, Validate, TypeOK
    <2> QED BY <2>1, <2>2, <2>3, <2>4, <1>1
  <1>9. ASSUME NEW t \in Tabs, Insert(t) PROVE RowsCount'
    <2>1. /\ register[t] = "valid" /\ register'[t] = "done" /\ UNCHANGED room
          /\ \A v \in Tabs : v # t => register'[v] = register[v]
      BY <1>9 DEF Insert, TypeOK
    <2>2. t \in Managers /\ room[t] \in Rooms
      BY <2>1 DEF Stages, Stage, TypeOK
    <2>3. /\ rows'[room[t]] = rows[room[t]] + 1
          /\ \A r \in Rooms : r # room[t] => rows'[r] = rows[r]
      BY <1>9, <2>2 DEF Insert, TypeOK
    <2> SUFFICES ASSUME NEW r \in Rooms PROVE rows'[r] = Cardinality(Registered(r)')
      BY DEF RowsCount
    <2>4. Managers \subseteq Tabs /\ IsFiniteSet(Managers)
      BY TabAssumption, FS_Subset
    <2>5. CASE r = room[t]
      <3>1. Registered(r)' = Registered(r) \cup {t} /\ t \notin Registered(r)
        BY <2>1, <2>2, <2>4, <2>5 DEF Registered
      <3>2. IsFiniteSet(Registered(r))
        BY <2>4, FS_Subset DEF Registered
      <3>3. Cardinality(Registered(r)') = Cardinality(Registered(r)) + 1
        BY <3>1, <3>2, FS_AddElement
      <3> QED BY <3>3, <2>3, <2>5 DEF RowsCount
    <2>6. CASE r # room[t]
      <3>1. Registered(r)' = Registered(r)
        BY <2>1, <2>4, <2>6 DEF Registered
      <3> QED BY <3>1, <2>3, <2>6 DEF RowsCount
    <2> QED BY <2>5, <2>6
  <1> QED BY <1>3, <1>4, <1>5, <1>6, <1>7, <1>8, <1>9 DEF Next, Serve

\* The reports go on, and nothing is recorded.
LEMMA RecordingKept ==
    ASSUME Recording, UNCHANGED recorded,
           \A r \in Rooms : (untidy[r] => untidy'[r]) /\ (rejoined[r] => rejoined'[r]),
           \A u \in Tabs : recorded[u] > 0 => room[u] \in Rooms /\ room'[u] = room[u],
           \A t \in Tabs : report[t] \in {"created", "done"} =>
              report'[t] \in {"created", "done"} /\ room'[t] = room[t]
    PROVE  Recording'
  <1> SUFFICES ASSUME NEW u \in Tabs, recorded[u] > 0,
                      ~untidy'[room[u]], ~rejoined'[room[u]], room'[u] = room[u]
               PROVE  /\ recorded[u] = 1
                      /\ \E t \in WasIn(room[u])' : report'[t] \in {"created", "done"}
    BY DEF Recording
  <1>1. /\ recorded[u] = 1
        /\ \E t \in WasIn(room[u]) : report[t] \in {"created", "done"}
    BY DEF Recording
  <1>2. PICK t \in WasIn(room[u]) : report[t] \in {"created", "done"}
    BY <1>1
  <1>3. t \in WasIn(room[u])' /\ report'[t] \in {"created", "done"}
    BY <1>2 DEF WasIn
  <1> QED BY <1>1, <1>3

LEMMA CreateRecording ==
    ASSUME TypeOK, Stages, OneLast, Recording, NEW t \in Tabs, Create(t)
    PROVE  Recording'
  <1>1. /\ report[t] = "found" /\ report'[t] = "created"
        /\ \A v \in Tabs : v # t => report'[v] = report[v]
        /\ UNCHANGED <<room, untidy, rejoined>>
    BY DEF Create, TypeOK, twilio, history
  <1>2. room[t] \in Rooms /\ t \in WasIn(room[t])
    BY <1>1 DEF Stages, Stage, WasIn
  <1> SUFFICES ASSUME NEW u \in Tabs, recorded'[u] > 0, ~untidy[room[u]], ~rejoined[room[u]]
               PROVE  /\ recorded'[u] = 1
                      /\ \E v \in WasIn(room[u])' : report'[v] \in {"created", "done"}
    BY <1>1 DEF Recording
  <1>3. \A r : WasIn(r)' = WasIn(r)
    BY <1>1 DEF WasIn
  <1>4. CASE room[u] = room[t]
    <2>1. recorded'[u] = recorded[u] + 1 /\ recorded[u] \in Nat
      BY <1>4 DEF Create, TypeOK
    <2>2. ASSUME recorded[u] > 0 PROVE FALSE
      <3>1. PICK v \in WasIn(room[t]) : report[v] \in {"created", "done"}
        BY <2>2, <1>4 DEF Recording
      <3>2. Last(v) /\ Last(t)
        BY <3>1, <1>1 DEF Last
      <3>3. v = t
        BY <3>1, <3>2, <1>2, <1>4 DEF OneLast
      <3> QED BY <3>1, <3>3, <1>1
    <2> QED BY <2>1, <2>2, <1>1, <1>2, <1>3, <1>4
  <1>5. CASE room[u] # room[t]
    <2>1. recorded'[u] = recorded[u]
      BY <1>5 DEF Create
    <2>2. /\ recorded[u] = 1
          /\ \E v \in WasIn(room[u]) : report[v] \in {"created", "done"}
      BY <2>1 DEF Recording
    <2>3. PICK v \in WasIn(room[u]) : report[v] \in {"created", "done"}
      BY <2>2
    <2>4. v \in Tabs /\ v # t
      BY <2>3, <1>1 DEF WasIn
    <2> QED BY <2>1, <2>2, <2>3, <2>4, <1>1, <1>3
  <1> QED BY <1>4, <1>5

LEMMA RecordingStep ==
    ASSUME TypeOK, Stages, OneLast, Recording, [Next]_vars
    PROVE  Recording'
  <1> USE DEF limits, history, tables, requests, view, messages, twilio
  <1>0. /\ \A u \in Tabs : Stage(u)
        /\ \A u \in Tabs : recorded[u] > 0 => seat[u] # "out" /\ room[u] \in Rooms
        /\ \A u \in Tabs : report[u] # "none" => seat[u] # "out"
    BY DEF Stages, Stage
  <1>1. CASE UNCHANGED vars \/ Complete
    BY <1>0, <1>1, RecordingKept DEF vars, Complete
  <1>2. ASSUME NEW t \in Tabs, Open(t) \/ Joined(t) \/ EndMeeting(t) \/ Validate(t) \/ Insert(t)
        PROVE  Recording'
    BY <1>0, <1>2, RecordingKept DEF Open, Joined, EndMeeting, Validate, Insert
  <1>3. ASSUME NEW t \in Tabs, Admit(t) PROVE Recording'
    <2>1. /\ seat[t] = "out" /\ UNCHANGED <<recorded, report, untidy>>
          /\ \A r \in Rooms : rejoined[r] => rejoined'[r]
      BY <1>3 DEF Admit, TypeOK
    <2>2. \A v \in Tabs : v # t => room'[v] = room[v]
      BY <1>3 DEF Admit, TypeOK
    <2> QED BY <2>1, <2>2, <1>0, RecordingKept
  <1>4. ASSUME NEW t \in Tabs, Part(t) PROVE Recording'
    BY <1>0, <1>4, RecordingKept DEF Part
  <1>5. ASSUME NEW t \in Tabs, NEW how \in {"disconnected", "gone"}, Stopping(t, how)
        PROVE  Recording'
    <2>1. report[t] = "none"
      BY <1>0, <1>5 DEF Stopping, Stage
    <2>2. \A v \in Tabs : v # t => report'[v] = report[v]
      BY <1>5 DEF Stopping, TypeOK
    <2>3. UNCHANGED <<recorded, room, rejoined>> /\ \A r \in Rooms : untidy[r] => untidy'[r]
      BY <1>5 DEF Stopping
    <2> QED BY <2>1, <2>2, <2>3, <1>0, RecordingKept
  <1>6. ASSUME NEW t \in Tabs, Leave(t) \/ Kill(t) PROVE Recording'
    BY <1>5, <1>6, LeaveStops, KillStops
  <1>7. ASSUME NEW t \in Tabs, Receive(t) PROVE Recording'
    <2>1. CASE page[t] = "connecting" /\ Refused(t)
      BY <2>1, <1>5, <1>7, RefusedStops
    <2>2. CASE page[t] = "connected" /\ Disconnected(t, Tail(inbox[t]))
      BY <2>2, <1>5, <1>7, DisconnectedStops
    <2>3. CASE HoldBack(t, Head(inbox[t])) \/ Update(t, Head(inbox[t]))
      BY <2>3, <1>0, <1>7, RecordingKept DEF HoldBack, Update, Receive
    <2> QED BY <2>1, <2>2, <2>3, <1>7 DEF Receive
  <1>8. ASSUME NEW t \in Tabs, Lose(t) \/ Fetch(t) \/ Store(t) PROVE Recording'
    <2>1. UNCHANGED <<recorded, room, rejoined, untidy>>
      BY <1>8 DEF Lose, Fetch, Store
    <2>2. \A v \in Tabs : report[v] \in {"created", "done"} => report'[v] \in {"created", "done"}
      BY <1>8 DEF Lose, Fetch, Store, TypeOK
    <2> QED BY <2>1, <2>2, <1>0, RecordingKept
  <1>9. ASSUME NEW t \in Tabs, Create(t) PROVE Recording'
    BY <1>9, CreateRecording
  <1>10. ASSUME NEW t \in Tabs, Expel(t) PROVE Recording'
    <2>1. UNCHANGED <<recorded, room, report, rejoined>> /\ \A r \in Rooms : untidy[r] => untidy'[r]
      <3>1. UNCHANGED <<recorded, room, report, rejoined>>
        BY <1>10 DEF Expel
      <3>2. CASE \E u \in Tabs : Expelled(u)
        BY <3>1, <3>2 DEF Expelled, TypeOK
      <3> QED BY <3>1, <3>2, <1>10, ExpelCases
    <2> QED BY <2>1, <1>0, RecordingKept
  <1> QED BY <1>1, <1>2, <1>3, <1>4, <1>6, <1>7, <1>8, <1>9, <1>10 DEF Next, Serve

-----------------------------------------------------------------------------
(* Every step.                                                             *)

LEMMA QuietLast ==
    ASSUME TypeOK, Talk, SomeoneLast, OneLast,
           UNCHANGED <<page, seat, room, accept, inbox, held, sees, parted, untidy, rejoined>>,
           \A t \in Tabs : report'[t] = report[t] \/ (report[t] # "none" /\ report'[t] # "none")
    PROVE  Talk' /\ SomeoneLast' /\ OneLast'
  <1>1. Talk' /\ \A v \in Tabs : WillSee(v)' = WillSee(v)
    BY TalkKept
  <1>2. \A v \in Tabs : (Out(v)' <=> Out(v)) /\ (Last(v)' <=> Last(v))
    BY <1>1 DEF Out, Last, Finished
  <1> QED BY <1>1, <1>2, LastsKept

\* Who is finished stays so: a tab opens, or handles what has come.
LEMMA HandlesLast ==
    ASSUME SomeoneLast, OneLast, UNCHANGED <<seat, room, report, untidy, rejoined>>,
           \A v \in Tabs : Finished(v)' = Finished(v) /\ WillSee(v)' = WillSee(v)
    PROVE  SomeoneLast' /\ OneLast'
  <1>1. \A v \in Tabs : (Out(v)' <=> Out(v)) /\ (Last(v)' <=> Last(v))
    BY DEF Out, Last
  <1> QED BY <1>1, LastsKept

LEMMA ReceiveLast ==
    ASSUME TypeOK, Stages, Talk, SomeoneLast, OneLast, NEW t \in Tabs, Receive(t)
    PROVE  Talk' /\ SomeoneLast' /\ OneLast'
  <1>1. inbox[t] # <<>>
    BY DEF Receive
  <1>2. CASE Head(inbox[t]) = End /\ page[t] = "connecting" /\ Refused(t)
    <2>1. Stopping(t, "gone") /\ (room[t] \in Rooms => untidy'[room[t]])
      BY <1>2, RefusedStops
    <2> QED BY <2>1, StopTalk, StopLast
  <1>3. CASE Head(inbox[t]) = End /\ page[t] = "connected" /\ Disconnected(t, Tail(inbox[t]))
    <2>1. Stopping(t, "disconnected")
      BY <1>3, DisconnectedStops
    <2>2. /\ report' = [report EXCEPT ![t] = IF sees[t] = {} THEN "sent" ELSE "none"]
          /\ room[t] \in Rooms /\ ~untidy'[room[t]] => ~Crossing(t, Tail(inbox[t]))
      BY <1>3 DEF Disconnected, TypeOK
    <2>3. Talk'
      BY <2>1, StopTalk
    <2> QED BY <1>1, <1>3, <2>1, <2>2, <2>3, StopLast
  <1>4. CASE /\ Head(inbox[t]) # End /\ page[t] = "connecting" /\ HoldBack(t, Head(inbox[t]))
             /\ inbox' = [inbox EXCEPT ![t] = Tail(inbox[t])]
    <2>1. UNCHANGED <<page, seat, room, report, untidy, rejoined>>
      BY <1>4 DEF HoldBack, Receive, twilio
    <2>2. Talk' /\ \A v \in Tabs : WillSee(v)' = WillSee(v)
      BY <1>1, <1>4, <2>1, HoldBackTalk
    <2> QED BY <2>1, <2>2, HandlesLast DEF Finished
  <1>5. CASE /\ Head(inbox[t]) # End /\ page[t] = "connected" /\ Update(t, Head(inbox[t]))
             /\ inbox' = [inbox EXCEPT ![t] = Tail(inbox[t])]
    <2>1. UNCHANGED <<page, seat, room, report, untidy, rejoined>>
      BY <1>5 DEF Update, Receive, twilio
    <2>2. Talk' /\ \A v \in Tabs : WillSee(v)' = WillSee(v)
      BY <1>1, <1>5, <2>1, UpdateTalk
    <2> QED BY <2>1, <2>2, HandlesLast DEF Finished
  <1> QED BY <1>2, <1>3, <1>4, <1>5 DEF Receive

LEMMA LastStep ==
    ASSUME TypeOK, Stages, Talk, SomeoneLast, OneLast, [Next]_vars
    PROVE  Talk' /\ SomeoneLast' /\ OneLast'
  <1> USE DEF limits, history, tables, requests, view, messages, twilio
  <1>1. CASE UNCHANGED vars \/ Complete
    BY <1>1, QuietLast DEF vars, Complete
  <1>2. ASSUME NEW t \in Tabs, Admit(t) PROVE Talk' /\ SomeoneLast' /\ OneLast'
    BY <1>2, AdmitTalk, AdmitLast
  <1>3. ASSUME NEW t \in Tabs, Part(t) PROVE Talk' /\ SomeoneLast' /\ OneLast'
    <2>1. Departs(t) /\ Finished(t) /\ UNCHANGED <<rejoined, report, untidy>>
      BY <1>3, PartDeparts DEF Part
    <2> QED BY <2>1, DepartsTalk, DepartsLast
  <1>4. ASSUME NEW t \in Tabs, Open(t) PROVE Talk' /\ SomeoneLast' /\ OneLast'
    <2>1. Talk' /\ \A v \in Tabs : WillSee(v)' = WillSee(v)
      BY <1>4, OpenTalk
    <2>2. \A v \in Tabs : Finished(v)' = Finished(v)
      BY <1>4 DEF Open, Finished, TypeOK
    <2>3. UNCHANGED <<seat, room, report, untidy, rejoined>>
      BY <1>4 DEF Open
    <2> QED BY <2>1, <2>2, <2>3, HandlesLast
  <1>5. ASSUME NEW t \in Tabs, Joined(t) PROVE Talk' /\ SomeoneLast' /\ OneLast'
    <2>1. Talk' /\ \A v \in Tabs : WillSee(v)' = WillSee(v)
      BY <1>5, JoinedTalk
    <2>2. \A v \in Tabs : Finished(v)' = Finished(v)
      BY <1>5 DEF Joined, Finished, TypeOK
    <2>3. UNCHANGED <<seat, room, report, untidy, rejoined>>
      BY <1>5 DEF Joined
    <2> QED BY <2>1, <2>2, <2>3, HandlesLast
  <1>6. ASSUME NEW t \in Tabs, Leave(t) PROVE Talk' /\ SomeoneLast' /\ OneLast'
    <2>1. Stopping(t, "disconnected")
      BY <1>6, LeaveStops
    <2>2. /\ page[t] = "connected"
          /\ report' = [report EXCEPT ![t] = IF sees[t] = {} THEN "sent" ELSE "none"]
          /\ room[t] \in Rooms /\ ~untidy'[room[t]] => ~Crossing(t, inbox[t])
      BY <1>6 DEF Leave, Disconnected, TypeOK
    <2> QED BY <2>1, <2>2, StopTalk, StopLast
  <1>7. ASSUME NEW t \in Tabs, Receive(t) PROVE Talk' /\ SomeoneLast' /\ OneLast'
    BY <1>7, ReceiveLast
  <1>8. ASSUME NEW t \in Tabs, Kill(t) PROVE Talk' /\ SomeoneLast' /\ OneLast'
    BY <1>8, KillStops, StopTalk, StopLast
  <1>9. ASSUME NEW t \in Tabs, Lose(t) \/ EndMeeting(t) \/ Validate(t) \/ Insert(t)
                               \/ Fetch(t) \/ Create(t) \/ Store(t)
        PROVE Talk' /\ SomeoneLast' /\ OneLast'
    <2>1. UNCHANGED <<page, seat, room, accept, inbox, held, sees, parted, untidy, rejoined>>
      BY <1>9 DEF Lose, EndMeeting, Validate, Insert, Fetch, Create, Store
    <2>2. ASSUME NEW v \in Tabs
          PROVE  report'[v] = report[v] \/ (report[v] # "none" /\ report'[v] # "none")
      BY <1>9 DEF Lose, EndMeeting, Validate, Insert, Fetch, Create, Store, TypeOK
    <2> QED BY <2>1, <2>2, QuietLast
  <1>10. ASSUME NEW t \in Tabs, Expel(t) PROVE Talk' /\ SomeoneLast' /\ OneLast'
    <2>1. CASE \E u \in Tabs : Expelled(u)
      <3>1. PICK u \in Tabs : Expelled(u)
        BY <2>1
      <3>2. Departs(u) /\ UNCHANGED <<rejoined, report>>
        BY <3>1, ExpelledDeparts DEF Expelled
      <3>3. \A r \in Rooms : untidy[r] => untidy'[r]
        BY <3>1 DEF Expelled, TypeOK
      <3>4. room[u] \in Rooms /\ ~untidy'[room[u]] => ~Unnoticed(u)
        BY <3>1 DEF Expelled, TypeOK
      <3>5. room[u] \in Rooms
        BY <3>1 DEF Expelled, Stages, Stage
      <3> QED BY <3>2, <3>3, <3>4, <3>5, DepartsTalk, DepartsLast
    <2>2. CASE UNCHANGED <<page, seat, room, opened, live, accept, inbox, held, sees, parted,
                           register, report, rows, recorded, untidy, rejoined>>
      BY <2>2, QuietLast
    <2> QED BY <1>10, <2>1, <2>2, ExpelCases
  <1> QED BY <1>1, <1>2, <1>3, <1>4, <1>5, <1>6, <1>7, <1>8, <1>9, <1>10 DEF Next, Serve

LEMMA VInvStep ==
    ASSUME VInv, [Next]_vars PROVE VInv'
  <1>1. /\ TypeOK /\ Stages /\ Talk /\ RowsCount /\ SomeoneLast /\ OneLast /\ Recording
    BY DEF VInv
  <1>2. RowsCount'
    BY <1>1, RowsCountStep
  <1>3. TypeOK'
    BY <1>1, <1>2, TypeStep
  <1>4. Stages'
    BY <1>1, StagesStep
  <1>5. Talk' /\ SomeoneLast' /\ OneLast'
    BY <1>1, LastStep
  <1>6. Recording'
    BY <1>1, RecordingStep
  <1> QED BY <1>2, <1>3, <1>4, <1>5, <1>6 DEF VInv

\* What a tab sees together with what is on the way to it, how far its requests
\* are and what they wrote fit in every state: the invariant behind the next ones.
THEOREM VInvInvariant == Spec => []VInv
  <1>1. Init => VInv
    BY InitVInv
  <1>2. VInv /\ [Next]_vars => VInv'
    BY VInvStep
  <1> QED BY <1>1, <1>2, PTL DEF Spec

\* Every page, seat, room, message, view, request and row has its type; in
\* particular a room never has more rows than there are managers.
THEOREM TypeCorrect == Spec => []TypeOK
  <1>1. VInv => TypeOK
    BY DEF VInv
  <1> QED BY <1>1, VInvInvariant, PTL

\* However tabs join, leave and are expelled: when all have left a room, nothing
\* crossing anybody's leaving, one of them has sent update_registered_room_in_db.
THEOREM LastOneIsReported == Spec => []LastOneReports
  <1>1. VInv => LastOneReports
    <2> SUFFICES ASSUME VInv, NEW r \in Rooms, Over(r), ~untidy[r]
                 PROVE  \E t \in WasIn(r) : report[t] # "none"
      BY DEF LastOneReports
    <2>1. WasIn(r) # {} /\ \A t \in WasIn(r) : Finished(t) /\ Out(t)
      BY DEF Over, Out
    <2>2. PICK t \in WasIn(r) : Last(t)
      BY <2>1 DEF VInv, SomeoneLast
    <2> QED BY <2>1, <2>2 DEF Last
  <1> QED BY <1>1, VInvInvariant, PTL

\* video_participants has one row at most for whoever was in a room, unless
\* leavings crossed or somebody joined the room when all had left.
THEOREM BilledOnceEach == Spec => []BilledOnce
  <1>1. VInv => BilledOnce
    <2> SUFFICES ASSUME VInv, NEW t \in Tabs, recorded[t] > 1,
                        ~untidy[room[t]], ~rejoined[room[t]]
                 PROVE  FALSE
      BY DEF BilledOnce
    <2>1. recorded[t] \in Nat
      BY DEF VInv, TypeOK
    <2>2. recorded[t] = 1
      BY <2>1 DEF VInv, Recording
    <2> QED BY <2>2
  <1> QED BY <1>1, VInvInvariant, PTL
=============================================================================
