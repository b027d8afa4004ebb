--------------------------- MODULE MatchingProofs ---------------------------
(***************************************************************************)
(* Proofs about Matching, for tables and tasks of any size and any limit.  *)
(***************************************************************************)
EXTENDS Matching, TLAPS

\* The exchange sort has got to places x and y: the places before x are
\* settled, and place x against those before y.
Ordered(p, r, x, y) ==
  \A a, b \in 1 .. Len(r) : a < b /\ (a < x \/ (a = x /\ b < y)) => p[r[a]] >= p[r[b]]

Distinct(r) == \A a, b \in 1 .. Len(r) : r[a] = r[b] => a = b
Holds(r, c) == \E a \in 1 .. Len(r) : r[a] = c

Points == [c \in Numbers |-> scoreCapability(c)]

Exchanged(r, x, y) == [r EXCEPT ![x] = r[y], ![y] = r[x]]

IInv ==
  /\ TypeOK
  /\ pc # "done" => Distinct(ranked)
  /\ pc = "filter" => \A c \in Numbers : (c < i /\ Matches(c)) <=> Holds(ranked, c)
  /\ pc = "sort" => /\ \A c \in Numbers : Matches(c) <=> Holds(ranked, c)
                    /\ Ordered(Points, ranked, i, j)
  /\ BestMatches
-----------------------------------------------------------------------------
(***************************************************************************)
(* An exchange, whatever the scores.                                       *)
(***************************************************************************)
LEMMA ExchangeShape ==
  ASSUME NEW D, NEW r \in Seq(D), NEW x \in 1 .. Len(r), NEW y \in 1 .. Len(r), x # y
  PROVE  /\ Exchanged(r, x, y) \in Seq(D) /\ Len(Exchanged(r, x, y)) = Len(r)
         /\ Exchanged(r, x, y)[x] = r[y] /\ Exchanged(r, x, y)[y] = r[x]
         /\ \A a \in 1 .. Len(r) : a # x /\ a # y => Exchanged(r, x, y)[a] = r[a]
  BY DEF Exchanged

LEMMA ExchangeAccounts ==
  ASSUME NEW D, NEW r \in Seq(D), NEW x \in 1 .. Len(r), NEW y \in 1 .. Len(r), x # y,
         Distinct(r)
  PROVE  /\ Distinct(Exchanged(r, x, y))
         /\ \A c : Holds(Exchanged(r, x, y), c) <=> Holds(r, c)
<1>1. PICK e : e = Exchanged(r, x, y)
  OBVIOUS
<1>2. /\ Len(e) = Len(r) /\ e[x] = r[y] /\ e[y] = r[x]
      /\ \A a \in 1 .. Len(r) : a # x /\ a # y => e[a] = r[a]
  BY <1>1 DEF Exchanged
<1>3. Distinct(e)
  BY <1>2 DEF Distinct
<1>4. ASSUME NEW c, Holds(e, c) PROVE Holds(r, c)
  BY <1>2, <1>4 DEF Holds
<1>5. ASSUME NEW c, Holds(r, c) PROVE Holds(e, c)
  <2>1. PICK a \in 1 .. Len(r) : r[a] = c
    BY <1>5 DEF Holds
  <2>2. e[IF a = x THEN y ELSE IF a = y THEN x ELSE a] = c
    BY <1>2, <2>1
  <2> QED BY <1>2, <2>2 DEF Holds
<1> QED BY <1>1, <1>3, <1>4, <1>5

\* Putting the better of places x and y first settles x against y and leaves
\* what was settled.
LEMMA ExchangeOrders ==
  ASSUME NEW D, NEW p \in [D -> Int], NEW r \in Seq(D),
         NEW x \in 1 .. Len(r), NEW y \in 1 .. Len(r), x < y,
         Ordered(p, r, x, y), p[r[y]] > p[r[x]]
  PROVE  Ordered(p, Exchanged(r, x, y), x, y + 1)
<1>1. PICK e : e = Exchanged(r, x, y)
  OBVIOUS
<1>2. /\ Len(e) = Len(r) /\ e[x] = r[y] /\ e[y] = r[x]
      /\ \A a \in 1 .. Len(r) : a # x /\ a # y => e[a] = r[a]
  <2>1. x # y /\ x \in Nat /\ y \in Nat
    OBVIOUS
  <2> QED BY <1>1, <2>1 DEF Exchanged
<1>3. \A a \in 1 .. Len(r) : p[r[a]] \in Int
  OBVIOUS
<1> SUFFICES ASSUME NEW a \in 1 .. Len(r), NEW b \in 1 .. Len(r), a < b,
                    a < x \/ (a = x /\ b < y + 1)
             PROVE  p[e[a]] >= p[e[b]]
  BY <1>1, <1>2 DEF Ordered
<1>4. CASE a < x
  <2>0. a # x /\ a # y
    BY <1>4
  <2>1. e[a] = r[a]
    BY ONLY <1>2, <2>0, a \in 1 .. Len(r)
  <2>2. PICK c \in 1 .. Len(r) : c = IF b = x THEN y ELSE IF b = y THEN x ELSE b
    OBVIOUS
  <2>3. e[b] = r[c] /\ a < c
    <3>1. CASE b = x
      BY <1>2, <1>4, <2>2, <3>1
    <3>2. CASE b = y
      BY <1>2, <1>4, <2>2, <3>2
    <3>3. CASE b # x /\ b # y
      <4>1. e[b] = r[b]
        BY ONLY <1>2, <3>3, b \in 1 .. Len(r)
      <4> QED BY <2>2, <3>3, <4>1
    <3> QED BY <3>1, <3>2, <3>3
  <2> QED BY <1>4, <2>1, <2>3 DEF Ordered
<1>5. CASE a = x /\ b = y
  BY <1>2, <1>3, <1>5
<1>6. CASE a = x /\ b < y
  <2>1. b # x /\ b # y /\ p[r[x]] >= p[r[b]]
    BY <1>6 DEF Ordered
  <2>2. e[a] = r[y] /\ e[b] = r[b]
    BY ONLY <1>2, <1>6, <2>1, b \in 1 .. Len(r)
  <2> QED BY <1>3, <2>1, <2>2
<1> QED BY <1>4, <1>5, <1>6

(***************************************************************************)
(* The request does not change, and with it what matches and how well.     *)
(***************************************************************************)
LEMMA SameRequest ==
  ASSUME UNCHANGED request
  PROVE  /\ Numbers' = Numbers /\ Points' = Points
         /\ \A c : Matches(c)' = Matches(c) /\ scoreCapability(c)' = scoreCapability(c)
  BY DEF request, Numbers, Points, Matches, scoreCapability

LEMMA PointsType ==
  ASSUME TypeOK
  PROVE  /\ Points \in [Numbers -> Int]
         /\ \A c \in Numbers : Points[c] = scoreCapability(c)
<1> SUFFICES ASSUME NEW c \in Numbers PROVE scoreCapability(c) \in Int
  BY DEF Points
<1>1. listed[c].hits \in Int /\ words \in Int
  <2>1. listed[c] \in Rows(words)
    BY DEF TypeOK, Numbers
  <2> QED BY <2>1 DEF Rows, TypeOK
<1> QED BY <1>1 DEF scoreCapability
-----------------------------------------------------------------------------
LEMMA InitInv == Init => IInv
<1> SUFFICES ASSUME Init PROVE IInv
  OBVIOUS
<1>1. PICK n \in 0 .. MaxRows : listed \in [1 .. n -> Rows(words)]
  BY DEF Init
<1>2. listed \in Seq(Rows(words)) /\ words \in Nat
  BY <1>1, MatchingAssumption DEF Init, MatchingAssumption
<1>3. TypeOK
  BY <1>2 DEF Init, TypeOK
<1>4. Distinct(ranked) /\ \A c : ~ Holds(ranked, c)
  BY DEF Init, Distinct, Holds
<1>5. BestMatches
  BY DEF Init, BestMatches
<1> QED BY <1>3, <1>4, <1>5 DEF Init, IInv, Numbers

LEMMA FilterStep ==
  ASSUME IInv, Filter
  PROVE  IInv'
<1>1. /\ pc = "filter" /\ pc' = "filter" /\ UNCHANGED <<request, j>> /\ i' = i + 1
      /\ i \in Numbers /\ ranked \in Seq(Numbers)
      /\ ranked' = IF Matches(i) THEN Append(ranked, i) ELSE ranked
  BY DEF Filter, IInv, TypeOK, Numbers
<1>2. Distinct(ranked) /\ \A c \in Numbers : (c < i /\ Matches(c)) <=> Holds(ranked, c)
  BY <1>1 DEF IInv
<1>3. TypeOK'
  <2>1. ranked' \in Seq(Numbers)' /\ i' \in Nat \ {0} /\ i' <= Len(listed)' + 1
    <3>1. Numbers' = Numbers /\ listed' = listed /\ Len(listed) \in Nat
      BY <1>1, SameRequest DEF request, IInv, TypeOK
    <3>2. Append(ranked, i) \in Seq(Numbers)
      BY <1>1
    <3>3. i \in Nat \ {0} /\ i <= Len(listed)
      BY <1>1, <3>1 DEF Numbers
    <3> QED BY <1>1, <3>1, <3>2, <3>3
  <2> QED BY <1>1, <2>1 DEF IInv, TypeOK, request
<1>4. \A c \in Numbers : (c < i + 1 /\ Matches(c)) <=> (c < i /\ Matches(c)) \/ (c = i /\ Matches(i))
  BY <1>1 DEF Numbers
<1>5. CASE Matches(i)
  <2>1. PICK r : r = Append(ranked, i) /\ ranked' = r
    BY <1>1, <1>5
  <2>2. /\ Len(r) = Len(ranked) + 1 /\ r[Len(ranked) + 1] = i
        /\ \A a \in 1 .. Len(ranked) : r[a] = ranked[a] /\ ranked[a] \in Numbers
    BY <1>1, <2>1
  <2>3. \A a \in 1 .. Len(ranked) : ranked[a] # i
    BY <1>1, <1>2 DEF Holds, Numbers
  <2>4. Distinct(r)
    BY <1>1, <1>2, <2>2, <2>3 DEF Distinct
  <2>5. \A c \in Numbers : Holds(r, c) <=> Holds(ranked, c) \/ c = i
    BY <1>1, <2>2 DEF Holds
  <2>6. Distinct(ranked)' /\ \A c \in Numbers : (c < i + 1 /\ Matches(c)) <=> Holds(r, c)
    BY <1>2, <1>4, <1>5, <2>1, <2>4, <2>5 DEF Distinct
  <2>7. \A c \in Numbers' : (c < i' /\ Matches(c)') <=> Holds(ranked, c)'
    BY <1>1, <2>1, <2>6, SameRequest DEF Holds
  <2> QED BY <1>1, <1>3, <2>6, <2>7 DEF IInv, BestMatches
<1>6. CASE ~ Matches(i)
  <2>1. UNCHANGED ranked /\ \A c \in Numbers : (c < i + 1 /\ Matches(c)) <=> Holds(ranked, c)
    BY <1>1, <1>2, <1>4, <1>6
  <2>2. Distinct(ranked)' /\ \A c \in Numbers' : (c < i' /\ Matches(c)') <=> Holds(ranked, c)'
    BY <1>1, <1>2, <2>1, SameRequest DEF Holds, Distinct
  <2> QED BY <1>1, <1>3, <2>2 DEF IInv, BestMatches
<1> QED BY <1>5, <1>6

LEMMA FilteredStep ==
  ASSUME IInv, Filtered
  PROVE  IInv'
<1>1. /\ pc = "filter" /\ pc' = "sort" /\ UNCHANGED <<request, ranked>>
      /\ i' = 1 /\ j' = 2 /\ i > Len(listed) /\ i \in Nat /\ Len(listed) \in Nat
      /\ ranked \in Seq(Numbers)
  BY DEF Filtered, IInv, TypeOK
<1>2. TypeOK'
  BY <1>1, SameRequest DEF IInv, TypeOK, request
<1>3. Distinct(ranked) /\ \A c \in Numbers : Matches(c) <=> Holds(ranked, c)
  BY <1>1 DEF IInv, Numbers
<1>4. Ordered(Points, ranked, 1, 2)
  BY <1>1 DEF Ordered
<1>5. Ordered(Points, ranked, i, j)'
  BY <1>1, <1>4, SameRequest DEF Ordered
<1>6. Distinct(ranked)' /\ \A c \in Numbers' : Matches(c)' <=> Holds(ranked, c)'
  BY <1>1, <1>3, SameRequest DEF Distinct, Holds
<1> QED BY <1>1, <1>2, <1>5, <1>6 DEF IInv, BestMatches

LEMMA CompareStep ==
  ASSUME IInv, Compare
  PROVE  IInv'
<1>1. /\ pc = "sort" /\ pc' = "sort" /\ UNCHANGED <<request, i>> /\ j' = j + 1
      /\ i \in 1 .. Len(ranked) /\ j \in 1 .. Len(ranked) /\ i < j
      /\ ranked \in Seq(Numbers)
      /\ Distinct(ranked) /\ Ordered(Points, ranked, i, j)
      /\ \A c \in Numbers : Matches(c) <=> Holds(ranked, c)
  BY DEF Compare, IInv, TypeOK
<1>2. PICK D, p, r, x, y : /\ D = Numbers /\ p = Points /\ r = ranked /\ x = i /\ y = j
  OBVIOUS
<1>3. p \in [D -> Int] /\ \A c \in D : p[c] = scoreCapability(c)
  BY <1>2, PointsType DEF IInv
<1>4. /\ r \in Seq(D) /\ x \in 1 .. Len(r) /\ y \in 1 .. Len(r) /\ x < y
      /\ r[x] \in D /\ r[y] \in D /\ Distinct(r) /\ Ordered(p, r, x, y)
  BY <1>1, <1>2
<1>5. PICK e : e = ranked'
  OBVIOUS
<1>6. e = IF p[r[y]] > p[r[x]] THEN Exchanged(r, x, y) ELSE r
  BY <1>2, <1>3, <1>4, <1>5 DEF Compare, Swapped, Exchanged
<1>7. /\ e \in Seq(D) /\ Len(e) = Len(r) /\ Distinct(e)
      /\ Ordered(p, e, x, y + 1) /\ \A c : Holds(e, c) <=> Holds(r, c)
  <2>1. CASE p[r[y]] > p[r[x]]
    <3>1. e = Exchanged(r, x, y) /\ x # y
      BY <1>4, <1>6, <2>1
    <3> QED BY <1>3, <1>4, <2>1, <3>1, ExchangeShape, ExchangeAccounts, ExchangeOrders
  <2>2. CASE ~ (p[r[y]] > p[r[x]])
    <3>1. e = r /\ p[r[x]] >= p[r[y]]
      BY <1>3, <1>4, <1>6, <2>2
    <3>2. Ordered(p, r, x, y + 1)
      BY <1>4, <3>1 DEF Ordered
    <3> QED BY <1>4, <3>1, <3>2
  <2> QED BY <2>1, <2>2
<1>8. TypeOK'
  BY <1>1, <1>2, <1>4, <1>5, <1>7, SameRequest DEF IInv, TypeOK, request
<1>9. Distinct(ranked)' /\ \A c : Holds(ranked, c)' <=> Holds(ranked, c)
  <2>1. Distinct(ranked)' = Distinct(e) /\ \A c : Holds(ranked, c)' = Holds(e, c)
    BY ONLY <1>5 DEF Distinct, Holds
  <2>2. \A c : Holds(e, c) <=> Holds(ranked, c)
    BY ONLY <1>2, <1>7
  <2> QED BY ONLY <1>7, <2>1, <2>2
<1>10. Ordered(Points, ranked, i, j)'
  <2>1. Points' = p /\ ranked' = e /\ i' = x /\ j' = y + 1
    BY <1>1, <1>2, <1>5, SameRequest
  <2> QED BY <1>7, <2>1 DEF Ordered
<1>11. \A c \in Numbers' : Matches(c)' <=> Holds(ranked, c)'
  BY <1>1, <1>9, SameRequest
<1> QED BY <1>1, <1>8, <1>9, <1>10, <1>11 DEF IInv, BestMatches

LEMMA NextPlaceStep ==
  ASSUME IInv, NextPlace
  PROVE  IInv'
<1>1. /\ pc = "sort" /\ pc' = "sort" /\ UNCHANGED <<request, ranked>>
      /\ i' = i + 1 /\ j' = i + 2 /\ i \in 1 .. Len(ranked) /\ j > Len(ranked) /\ j \in Nat
      /\ ranked \in Seq(Numbers)
      /\ Distinct(ranked) /\ Ordered(Points, ranked, i, j)
      /\ \A c \in Numbers : Matches(c) <=> Holds(ranked, c)
  BY DEF NextPlace, IInv, TypeOK
<1>2. TypeOK'
  BY <1>1, SameRequest DEF IInv, TypeOK, request
<1>3. Ordered(Points, ranked, i + 1, i + 2)
  BY <1>1 DEF Ordered
<1>4. Ordered(Points, ranked, i, j)'
  BY <1>1, <1>3, SameRequest DEF Ordered
<1>5. Distinct(ranked)' /\ \A c \in Numbers' : Matches(c)' <=> Holds(ranked, c)'
  BY <1>1, SameRequest DEF Distinct, Holds
<1> QED BY <1>1, <1>2, <1>4, <1>5 DEF IInv, BestMatches

LEMMA TruncateStep ==
  ASSUME IInv, Truncate
  PROVE  IInv'
<1>1. /\ pc = "sort" /\ pc' = "done" /\ UNCHANGED <<request, i, j>>
      /\ i > Len(ranked) /\ i \in Nat /\ ranked \in Seq(Numbers) /\ Len(ranked) \in Nat
      /\ Distinct(ranked) /\ Ordered(Points, ranked, i, j)
      /\ \A c \in Numbers : Matches(c) <=> Holds(ranked, c)
      /\ Limit \in Nat \ {0}
  BY MatchingAssumption DEF Truncate, IInv, TypeOK, MatchingAssumption
<1>2. PICK r, e : r = ranked /\ e = ranked'
  OBVIOUS
<1>3. /\ e \in Seq(Numbers) /\ Len(e) \in Nat /\ Len(e) <= Len(r) /\ Len(e) <= Limit
      /\ Len(e) < Len(r) => Len(e) = Limit
      /\ \A a \in 1 .. Len(e) : e[a] = r[a]
  BY <1>1, <1>2 DEF Truncate
<1>4. \A a \in 1 .. Len(r) : r[a] \in Numbers
  BY <1>1, <1>2
<1>5. \A a, b \in 1 .. Len(r) :
        a < b => r[a] # r[b] /\ scoreCapability(r[a]) >= scoreCapability(r[b])
  BY <1>1, <1>2, <1>4, PointsType DEF Ordered, Distinct, IInv
<1>6. TypeOK'
  BY <1>1, <1>2, <1>3, SameRequest DEF IInv, TypeOK, request
<1>7. ASSUME NEW c \in Numbers, Matches(c)
      PROVE  \/ \E a \in 1 .. Len(e) : e[a] = c
             \/ /\ Len(e) = Limit
                /\ \A a \in 1 .. Len(e) : scoreCapability(e[a]) >= scoreCapability(c)
  <2>1. PICK b \in 1 .. Len(r) : r[b] = c
    BY <1>1, <1>2, <1>7 DEF Holds
  <2>2. CASE b <= Len(e)
    BY <1>3, <2>1, <2>2
  <2>3. CASE b > Len(e)
    BY <1>2, <1>3, <1>5, <2>1, <2>3
  <2> QED BY <1>3, <2>2, <2>3
<1>8. \A a \in 1 .. Len(e) : Matches(e[a])
  BY <1>1, <1>2, <1>3, <1>4 DEF Holds
<1>9. \A a, b \in 1 .. Len(e) :
        a < b => e[a] # e[b] /\ scoreCapability(e[a]) >= scoreCapability(e[b])
  BY <1>2, <1>3, <1>5
<1>10. BestMatches'
  BY <1>1, <1>2, <1>3, <1>7, <1>8, <1>9, SameRequest DEF BestMatches
<1> QED BY <1>1, <1>6, <1>10 DEF IInv
-----------------------------------------------------------------------------
\* The inductive invariant of the routing of a task.
THEOREM Invariant == Spec => []IInv
<1>1. ASSUME IInv, [Next]_vars PROVE IInv'
  <2>1. CASE UNCHANGED vars
    <3>1. UNCHANGED request /\ UNCHANGED <<pc, ranked, i, j>>
      BY <2>1 DEF vars
    <3>2. TypeOK'
      BY <1>1, <3>1, SameRequest DEF IInv, TypeOK, request
    <3>3. BestMatches'
      BY <1>1, <3>1, SameRequest DEF IInv, BestMatches
    <3>4. Distinct(ranked)' = Distinct(ranked) /\ Ordered(Points, ranked, i, j)' = Ordered(Points, ranked, i, j)
      BY <3>1, SameRequest DEF Distinct, Ordered
    <3>5. \A c : Holds(ranked, c)' = Holds(ranked, c)
      BY <3>1 DEF Holds
    <3> QED BY <1>1, <3>1, <3>2, <3>3, <3>4, <3>5, SameRequest DEF IInv
  <2> QED BY <1>1, <2>1, FilterStep, FilteredStep, CompareStep, NextPlaceStep, TruncateStep
          DEF Next
<1> QED BY InitInv, <1>1, PTL DEF Spec

\* The loops never leave the list they sort.
THEOREM Types == Spec => []TypeOK
<1>1. IInv => TypeOK
  BY DEF IInv
<1> QED BY <1>1, Invariant, PTL

\* Sorting neither loses nor duplicates a capability.
THEOREM Kept == Spec => []Accounted
<1>1. IInv => Accounted
  BY DEF IInv, Accounted, Distinct, Holds
<1> QED BY <1>1, Invariant, PTL

\* What MatchTask answers are the best matches, for any table and limit.
THEOREM Best == Spec => []BestMatches
<1>1. IInv => BestMatches
  BY DEF IInv
<1> QED BY <1>1, Invariant, PTL
-----------------------------------------------------------------------------
(***************************************************************************)
(* The loops end: every iteration lowers StepsLeft, whose bound is square  *)
(* in the number of rows.                                                  *)
(***************************************************************************)
Wide == Len(listed) + 3

StepsLeft ==
  CASE pc = "filter" -> Wide * Wide + (Len(listed) + 1 - i)
    [] pc = "sort" -> (Len(ranked) + 1 - i) * Wide + (Len(ranked) + 2 - j) + 1
    [] pc = "done" -> 0

\* No row is taken twice, so the list is never longer than the table.
LengthInv ==
  /\ pc = "filter" => Len(ranked) <= i - 1
  /\ pc = "sort" => Len(ranked) <= Len(listed)

LEMMA InitLength == Init => LengthInv
  BY DEF Init, LengthInv

LEMMA NextLength == TypeOK /\ LengthInv /\ [Next]_vars => LengthInv'
<1> SUFFICES ASSUME TypeOK, LengthInv, [Next]_vars PROVE LengthInv'
  OBVIOUS
<1>0. /\ ranked \in Seq(Numbers) /\ Len(ranked) \in Nat /\ Len(listed) \in Nat
      /\ i \in Nat /\ j \in Nat
  BY DEF TypeOK
<1>1. CASE Filter
  <2>1. Len(ranked') <= Len(ranked) + 1 /\ pc' = "filter" /\ i' = i + 1
    BY <1>0, <1>1 DEF Filter, Numbers
  <2>2. Len(ranked') \in Nat
    BY <1>0, <1>1 DEF Filter, Numbers
  <2> QED BY <1>0, <1>1, <2>1, <2>2 DEF LengthInv, Filter
<1>2. CASE Filtered
  BY <1>0, <1>2 DEF Filtered, LengthInv, TypeOK, request
<1>3. CASE Compare
  <2>1. Len(ranked') = Len(ranked)
    BY <1>0, <1>3 DEF Compare, Swapped
  <2> QED BY <1>3, <2>1 DEF Compare, LengthInv, request
<1>4. CASE NextPlace
  BY <1>4 DEF NextPlace, LengthInv, request
<1>5. CASE Truncate
  BY <1>5 DEF Truncate, LengthInv
<1>6. CASE UNCHANGED vars
  BY <1>6 DEF vars, request, LengthInv
<1> QED BY <1>1, <1>2, <1>3, <1>4, <1>5, <1>6 DEF Next

\* Of the loops over places x and y of a list of l places, in rows of k > l.
LEMMA LoopArithmetic ==
  ASSUME NEW l \in Nat, NEW k \in Nat, l + 3 <= k, NEW x \in 1 .. l + 1, NEW y \in Nat,
         y <= l + 2
  PROVE  /\ (l + 1 - x) * k \in Nat
         /\ (l + 1 - x) * k <= l * k
         /\ l * k + l + 1 < k * k
         /\ x <= l => (l + 1 - (x + 1)) * k = (l + 1 - x) * k - k
<1>1. PICK m \in Nat : m = l + 1 - x /\ m <= l
  OBVIOUS
<1>2. m * k \in Nat /\ m * k <= l * k
  <2>1. PICK d \in Nat : l = m + d
    <3>1. l - m \in Nat /\ l = m + (l - m)
      BY <1>1
    <3> QED BY <3>1
  <2>2. l * k = m * k + d * k /\ d * k \in Nat /\ m * k \in Nat
    BY <2>1
  <2> QED BY <2>2
<1>3. l * k + l + 1 < k * k
  <2>1. PICK d \in Nat : k = l + 3 + d
    <3>1. k - (l + 3) \in Nat /\ k = l + 3 + (k - (l + 3))
      OBVIOUS
    <3> QED BY <3>1
  <2>2. k * k = l * k + 3 * k + d * k /\ d * k \in Nat /\ l * k \in Nat
    BY <2>1
  <2>3. 3 * k > l + 1
    OBVIOUS
  <2> QED BY <2>2, <2>3
<1>4. (m - 1) * k = m * k - k
  BY <1>1
<1>5. l + 1 - (x + 1) = m - 1
  BY <1>1
<1> QED BY <1>1, <1>2, <1>3, <1>4, <1>5

LEMMA StepsRange ==
  ASSUME TypeOK, LengthInv
  PROVE  StepsLeft \in 0 .. Wide * Wide + Wide
<1>0. /\ Len(ranked) \in Nat /\ Len(listed) \in Nat /\ i \in Nat \ {0} /\ j \in Nat
      /\ Wide \in Nat /\ pc \in {"filter", "sort", "done"} /\ Wide = Len(listed) + 3
  BY DEF TypeOK, Wide
<1> HIDE DEF Wide
<1>1. Wide * Wide \in Nat
  BY <1>0
<1>2. CASE pc = "filter"
  <2>1. StepsLeft = Wide * Wide + (Len(listed) + 1 - i) /\ i <= Len(listed) + 1
    BY <1>2 DEF StepsLeft, TypeOK
  <2> QED BY <1>0, <1>1, <2>1
<1>3. CASE pc = "sort"
  <2>1. /\ StepsLeft = (Len(ranked) + 1 - i) * Wide + (Len(ranked) + 2 - j) + 1
        /\ i <= Len(ranked) + 1 /\ i < j /\ j <= Len(ranked) + 2 /\ Len(ranked) <= Len(listed)
    BY <1>3 DEF StepsLeft, TypeOK, LengthInv
  <2>2. PICK l, k, p : l = Len(ranked) /\ k = Wide /\ p = (l + 1 - i) * k
    OBVIOUS
  <2>3. p \in Nat /\ p <= l * k /\ l * k + l + 1 < k * k /\ l * k \in Nat /\ l \in Nat
    <3>1. l \in Nat /\ k \in Nat /\ l + 3 <= k /\ i \in 1 .. l + 1 /\ j \in Nat /\ j <= l + 2
      BY <1>0, <2>1, <2>2
    <3> QED BY <2>2, <3>1, LoopArithmetic
  <2>4. StepsLeft = p + (l + 2 - j) + 1
    BY <2>1, <2>2
  <2> QED BY <1>0, <1>1, <2>1, <2>2, <2>3, <2>4
<1>4. CASE pc = "done"
  BY <1>0, <1>1, <1>4 DEF StepsLeft
<1> QED BY <1>0, <1>2, <1>3, <1>4

LEMMA StepsShrink ==
  ASSUME TypeOK, LengthInv, Next
  PROVE  StepsLeft' < StepsLeft
<1>0. /\ Len(ranked) \in Nat /\ Len(listed) \in Nat /\ i \in Nat \ {0} /\ j \in Nat
      /\ Wide \in Nat /\ Wide = Len(listed) + 3 /\ Wide * Wide \in Nat
      /\ Wide' = Wide /\ listed' = listed
  BY DEF TypeOK, Wide, Next, Filter, Filtered, Compare, NextPlace, Truncate, request
<1> HIDE DEF Wide
<1>1. CASE Filter
  <2>1. /\ StepsLeft = Wide * Wide + (Len(listed) + 1 - i)
        /\ StepsLeft' = Wide * Wide + (Len(listed) + 1 - (i + 1))
    BY <1>0, <1>1 DEF Filter, StepsLeft
  <2> QED BY <1>0, <2>1
<1>2. CASE Filtered
  <2>1. /\ StepsLeft = Wide * Wide + (Len(listed) + 1 - i) /\ i = Len(listed) + 1
        /\ StepsLeft' = (Len(ranked) + 1 - 1) * Wide + (Len(ranked) + 2 - 2) + 1
        /\ Len(ranked) <= Len(listed)
    BY <1>0, <1>2 DEF Filtered, StepsLeft, TypeOK, LengthInv
  <2>2. PICK l, k : l = Len(ranked) /\ k = Wide
    OBVIOUS
  <2>3. l * k + l + 1 < k * k /\ (l + 1 - 1) * k = l * k
    <3>1. l \in Nat /\ k \in Nat /\ l + 3 <= k /\ 1 \in 1 .. l + 1 /\ 2 \in Nat /\ 2 <= l + 2
      BY <1>0, <2>1, <2>2
    <3>2. l * k + l + 1 < k * k
      BY <3>1, LoopArithmetic
    <3>3. l + 1 - 1 = l
      BY <3>1
    <3> QED BY <3>2, <3>3
  <2> QED BY <1>0, <2>1, <2>2, <2>3
<1>3. CASE Compare
  <2>1. Len(ranked') = Len(ranked)
    BY <1>3 DEF Compare, Swapped, TypeOK
  <2>2. PICK p : p = (Len(ranked) + 1 - i) * Wide
    OBVIOUS
  <2>3. /\ StepsLeft = p + (Len(ranked) + 2 - j) + 1
        /\ StepsLeft' = p + (Len(ranked) + 2 - (j + 1)) + 1
    BY <1>0, <1>3, <2>1, <2>2 DEF Compare, StepsLeft
  <2>4. p \in Int
    BY <1>0, <2>2
  <2> QED BY <1>0, <2>3, <2>4
<1>4. CASE NextPlace
  <2>1. /\ i <= Len(ranked) /\ j > Len(ranked) /\ j <= Len(ranked) + 2
        /\ Len(ranked) <= Len(listed)
        /\ StepsLeft = (Len(ranked) + 1 - i) * Wide + (Len(ranked) + 2 - j) + 1
        /\ StepsLeft' = (Len(ranked) + 1 - (i + 1)) * Wide + (Len(ranked) + 2 - (i + 2)) + 1
    BY <1>0, <1>4 DEF NextPlace, StepsLeft, TypeOK, LengthInv
  <2>2. PICK l, k, p, q : /\ l = Len(ranked) /\ k = Wide
                          /\ p = (l + 1 - i) * k /\ q = (l + 1 - (i + 1)) * k
    OBVIOUS
  <2>3. p \in Nat /\ q = p - k /\ l \in Nat /\ k \in Nat /\ l + 3 <= k
    <3>1. l \in Nat /\ k \in Nat /\ l + 3 <= k /\ i \in 1 .. l + 1 /\ j \in Nat /\ j <= l + 2
          /\ i <= l
      BY <1>0, <2>1, <2>2
    <3> QED BY <2>2, <3>1, LoopArithmetic
  <2>4. /\ StepsLeft = p + (l + 2 - j) + 1 /\ StepsLeft' = q + (l + 2 - (i + 2)) + 1
        /\ j <= l + 2
    BY <2>1, <2>2
  <2> QED BY <1>0, <2>3, <2>4
<1>5. CASE Truncate
  <2>1. StepsLeft' = 0
    BY <1>5 DEF Truncate, StepsLeft
  <2>2. PICK l, k, p : l = Len(ranked) /\ k = Wide /\ p = (l + 1 - i) * k
    OBVIOUS
  <2>3. /\ StepsLeft = p + (l + 2 - j) + 1 /\ i <= l + 1 /\ j <= l + 2 /\ l + 3 <= k
        /\ l \in Nat /\ k \in Nat
    BY <1>0, <1>5, <2>2 DEF Truncate, StepsLeft, TypeOK, LengthInv
  <2>4. p \in Nat
    <3>1. i \in 1 .. l + 1
      BY <1>0, <2>3
    <3> QED BY <1>0, <2>2, <2>3, <3>1, LoopArithmetic
  <2> QED BY <1>0, <2>1, <2>3, <2>4
<1> QED BY <1>1, <1>2, <1>3, <1>4, <1>5 DEF Next

\* However many capabilities there are and however they score, MatchTask
\* takes at most (n + 3) * (n + 4) iterations for n of them.
THEOREM Bounded ==
  Spec => [](StepsLeft \in 0 .. Wide * Wide + Wide) /\ [][StepsLeft' < StepsLeft]_vars
<1>1. TypeOK /\ LengthInv => StepsLeft \in 0 .. Wide * Wide + Wide
  BY StepsRange
<1>2. TypeOK /\ LengthInv /\ [Next]_vars => [StepsLeft' < StepsLeft]_vars
  BY StepsShrink
<1> QED BY <1>1, <1>2, Types, InitLength, NextLength, PTL DEF Spec
=============================================================================
