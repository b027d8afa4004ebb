---------------------------- MODULE WeightsProofs ----------------------------
(***************************************************************************)
(* Proofs about Weights, for any actors, handlers, outcomes, coefficients  *)
(* and bounds.  IInv is about scores and versions; MeansInv and SerialInv, *)
(* at the end, are about the outcomes a row stands for.                    *)
(***************************************************************************)
EXTENDS Weights, Sums, TLAPS

Positive == (\A o \in Outcomes : o >= 0) /\ (\A c \in Alphas, x \in Components : c[x] >= 0)

Known == {DefaultAlpha} \union {v.alpha : v \in versions}
Scored(r) == \E c \in Known : r.score = Score(c, r.track)
Sound(r) == Positive => r.track.num >= 0

\* The coefficients on their way to the table, and those in it, were posted.
AlphasOK ==
  /\ \A v \in versions : v.alpha \in Alphas
  /\ \A h \in Handlers : pc[h] \in {"alpha.Max", "alpha.Insert"} => cfg[h] \in Alphas

\* The versions are 1 .. n, and what an insert saw is one of them or 0.
VersionsOK ==
  \E n \in Nat : /\ {v.version : v \in versions} = 1 .. n
                 /\ \A h \in Handlers : top[h] <= n

RowsOK == \A a \in Actors : rows[a] # NoRow => Scored(rows[a]) /\ Sound(rows[a])

\* What the position of a handler says of its row; a first row is neutral.
HandlerOK(h) ==
  /\ pc[h] \in {"compute.GetWeight", "outcome.GetWeight", "GetAlpha", "UpsertWeight"} =>
       who[h] \in Actors
  /\ pc[h] = "outcome.GetWeight" => out[h] \in Outcomes
  /\ Sound(w[h])
  /\ pc[h] = "UpsertWeight" => Scored(w[h])
  /\ pc[h] \in {"GetAlpha", "UpsertWeight"} /\ rows[who[h]] = NoRow =>
       w[h].count = 0 /\ w[h].track = DefaultRow.track

IInv == TypeOK /\ AlphasOK /\ VersionsOK /\ RowsOK /\ \A h \in Handlers : HandlerOK(h)
-----------------------------------------------------------------------------
(***************************************************************************)
(* The operators on rows.                                                  *)
(***************************************************************************)
LEMMA HalfType == Half \in Nat /\ 2 * Half = Unit
  BY WeightsAssumption DEF WeightsAssumption, Half

LEMMA DefaultType == DefaultRow \in Row /\ DefaultRow.track.num >= 0
  BY HalfType, WeightsAssumption DEF WeightsAssumption, DefaultRow, Fraction, Row

LEMMA DefaultAlphaType ==
  /\ DefaultAlpha \in [Components -> Int]
  /\ \A x \in Components : DefaultAlpha[x] >= 0
  BY DEF DefaultAlpha, Components

LEMMA ProductType == \A x, y \in Int : x * y \in Int
  OBVIOUS

LEMMA ProductPositive == \A x, y \in Nat \ {0} : x * y \in Nat \ {0}
  OBVIOUS

LEMMA ProductNonNegative == \A x, y \in Nat : x * y \in Nat
  OBVIOUS

\* A score is a fraction that is at most 1.0, and not negative when neither
\* the coefficients nor the track record are.
LEMMA ScoreType ==
  ASSUME NEW a \in [Components -> Int], NEW t \in [num : Int, den : Nat \ {0}]
  PROVE  /\ Score(a, t) \in [num : Int, den : Nat \ {0}]
         /\ Score(a, t).num <= Unit * Score(a, t).den
         /\ (\A x \in Components : a[x] >= 0) /\ t.num >= 0 => Score(a, t).num >= 0
<1> DEFINE p == a.expertise + a.reliability + a.fit + a.principle
           n == p * Half * t.den + a.recency * Unit * t.den + a.track * t.num
           d == 100 * t.den
<1>0. Score(a, t) = IF n > Unit * d THEN Fraction(Unit, 1) ELSE Fraction(n, d)
  BY DEF Score
<1>1. /\ a.expertise \in Int /\ a.reliability \in Int /\ a.fit \in Int /\ a.principle \in Int
      /\ a.recency \in Int /\ a.track \in Int
      /\ t.num \in Int /\ t.den \in Nat \ {0} /\ t.den \in Int
      /\ Half \in Int /\ Half >= 0 /\ Unit \in Nat \ {0} /\ Unit \in Int
  BY HalfType, WeightsAssumption DEF WeightsAssumption, Components
<1>2. p \in Int /\ d \in Nat \ {0}
  BY <1>1
<1>3. /\ p * Half \in Int /\ a.recency * Unit \in Int /\ a.track * t.num \in Int
  BY <1>1, <1>2, ProductType
<1>4. p * Half * t.den \in Int /\ a.recency * Unit * t.den \in Int
  BY <1>1, <1>3, ProductType
<1>5. n \in Int /\ Unit * d \in Int
  BY <1>1, <1>2, <1>3, <1>4, ProductType
<1>6. ASSUME \A x \in Components : a[x] >= 0, t.num >= 0
      PROVE  n >= 0
  <2>1. p \in Nat /\ a.recency \in Nat /\ a.track \in Nat /\ t.num \in Nat
    BY <1>1, <1>6 DEF Components
  <2>2. p * Half \in Nat /\ a.recency * Unit \in Nat /\ a.track * t.num \in Nat
    BY <1>1, <2>1, ProductNonNegative
  <2>3. p * Half * t.den \in Nat /\ a.recency * Unit * t.den \in Nat
    BY <1>1, <2>2, ProductNonNegative
  <2> HIDE DEF p
  <2> QED BY <2>2, <2>3
<1> HIDE DEF n, d
<1>7. CASE n > Unit * d
  BY <1>0, <1>1, <1>7 DEF Fraction
<1>8. CASE ~ (n > Unit * d)
  BY <1>0, <1>2, <1>5, <1>6, <1>8 DEF Fraction
<1> QED BY <1>7, <1>8

\* Adding an outcome keeps a row a row, and a non-negative one non-negative.
LEMMA AddOutcomeType ==
  ASSUME NEW r \in Row, NEW o \in Outcomes
  PROVE  /\ AddOutcome(r, o) \in Row
         /\ o >= 0 /\ r.track.num >= 0 => AddOutcome(r, o).track.num >= 0
<1> DEFINE n == r.count + 1
           num == r.track.num * (n - 1) + o * r.track.den
           den == r.track.den * n
<1>1. /\ r.count \in Nat /\ r.track.num \in Int /\ r.track.den \in Nat \ {0}
      /\ o \in Int /\ n - 1 = r.count /\ n \in Nat \ {0}
  BY WeightsAssumption DEF WeightsAssumption, Row
<1>2. AddOutcome(r, o) = [r EXCEPT !.count = n, !.track = Fraction(num, den)]
  BY DEF AddOutcome
<1>3. r.track.num * (n - 1) \in Int /\ o * r.track.den \in Int
  <2>1. PICK x, y, z, u \in Int : x = r.track.num /\ y = n - 1 /\ z = o /\ u = r.track.den
    BY <1>1
  <2>2. x * y \in Int /\ z * u \in Int
    BY ProductType
  <2> QED BY <2>1, <2>2
<1>4. num \in Int /\ den \in Nat \ {0}
  BY <1>1, <1>3, ProductPositive
<1>5. ASSUME o >= 0, r.track.num >= 0 PROVE num >= 0
  <2>1. r.track.num * (n - 1) \in Nat /\ o * r.track.den \in Nat
    BY <1>1, <1>5, ProductNonNegative
  <2> QED BY <2>1
<1> HIDE DEF n, num, den
<1>6. Fraction(num, den) \in [num : Int, den : Nat \ {0}] /\ Fraction(num, den).num = num
  BY <1>4 DEF Fraction
<1> HIDE DEF Fraction
<1>7. AddOutcome(r, o) \in Row /\ AddOutcome(r, o).track = Fraction(num, den)
  BY <1>1, <1>2, <1>6 DEF Row
<1> QED BY <1>5, <1>6, <1>7

\* MaxVersion is the largest version when the versions have no gap.
LEMMA MaxVersionIs ==
  ASSUME NEW n \in Nat, {v.version : v \in versions} = 1 .. n
  PROVE  MaxVersion = n
<1>1. CASE n = 0
  BY <1>1 DEF MaxVersion
<1>2. CASE n > 0
  <2>1. versions # {} /\ n \in 1 .. n
    BY <1>2
  <2>2. \A m \in 1 .. n : (\A y \in 1 .. n : m >= y) <=> m = n
    BY <2>1
  <2>3. Max(1 .. n) = n
    BY <2>1, <2>2 DEF Max
  <2> QED BY <2>1, <2>3 DEF MaxVersion
<1> QED BY <1>1, <1>2

(***************************************************************************)
(* Type correctness.                                                       *)
(***************************************************************************)
LEMMA InitInv == Init => IInv
<1> SUFFICES ASSUME Init PROVE IInv
  OBVIOUS
<1>1. TypeOK
  BY DefaultType, DefaultAlphaType DEF Init, TypeOK
<1>2. AlphasOK /\ RowsOK
  BY DEF Init, AlphasOK, RowsOK
<1>3. VersionsOK
  <2>1. {v.version : v \in versions} = 1 .. 0 /\ \A h \in Handlers : top[h] <= 0
    BY DEF Init
  <2> QED BY <2>1 DEF VersionsOK
<1>4. \A h \in Handlers : HandlerOK(h)
  BY DefaultType DEF Init, HandlerOK, Sound
<1> QED BY <1>1, <1>2, <1>3, <1>4 DEF IInv

\* The coefficients GetAlpha may use are coefficients, and known.
LEMMA AlphaKnown ==
  ASSUME IInv, NEW a \in Newest \union {DefaultAlpha}
  PROVE  /\ a \in Known /\ a \in [Components -> Int]
         /\ Positive => \A x \in Components : a[x] >= 0
<1>1. CASE a = DefaultAlpha
  BY <1>1, DefaultAlphaType DEF Known
<1>2. CASE a \in Newest
  BY <1>2, WeightsAssumption DEF WeightsAssumption, Newest, Known, IInv, AlphasOK, Positive
<1> QED BY <1>1, <1>2

LEMMA NextTypes ==
  ASSUME IInv, [Next]_vars
  PROVE  TypeOK'
<1> USE DefaultType, DefaultAlphaType, WeightsAssumption DEF TypeOK, IInv, tables, locals, Goto
<1>1. ASSUME NEW h \in Handlers, Begin(h) PROVE TypeOK'
  <2>1. ASSUME NEW a \in Actors, BeginCompute(h, a) PROVE TypeOK'
    BY <2>1 DEF BeginCompute, Accept, Statements
  <2>2. ASSUME NEW a \in Actors, NEW o \in Outcomes, BeginOutcome(h, a, o) PROVE TypeOK'
    BY <2>2 DEF BeginOutcome, Accept, Statements
  <2>3. ASSUME NEW a \in Alphas, BeginAlpha(h, a) PROVE TypeOK'
    <3>1. a \in [Components -> Int]
      BY DEF WeightsAssumption
    <3> QED BY <2>3, <3>1 DEF BeginAlpha, Accept, Statements
  <2> QED BY <1>1, <2>1, <2>2, <2>3 DEF Begin
<1>2. ASSUME NEW h \in Handlers, ReadOrDefault(h) PROVE TypeOK'
  <2>1. who[h] \in Actors
    BY <1>2 DEF ReadOrDefault, HandlerOK
  <2>2. \E r \in Row : w' = [w EXCEPT ![h] = r]
    BY <1>2, <2>1 DEF ReadOrDefault
  <2> QED BY <1>2, <2>2 DEF ReadOrDefault, Statements
<1>3. ASSUME NEW h \in Handlers, ReadAndAdd(h) PROVE TypeOK'
  <2>1. who[h] \in Actors /\ out[h] \in Outcomes
    BY <1>3 DEF ReadAndAdd, HandlerOK
  <2>2. CASE rows[who[h]] = NoRow
    BY <1>3, <2>2 DEF ReadAndAdd, Statements
  <2>3. CASE rows[who[h]] # NoRow
    <3>1. AddOutcome(rows[who[h]], out[h]) \in Row
      BY <2>1, <2>3, AddOutcomeType
    <3>2. w' \in [Handlers -> Row] /\ pc' = [pc EXCEPT ![h] = "GetAlpha"]
      BY <1>3, <2>3, <3>1 DEF ReadAndAdd
    <3>3. UNCHANGED <<rows, versions, recorded, accepted, who, out, cfg, top>>
      BY <1>3 DEF ReadAndAdd
    <3> QED BY <3>2, <3>3 DEF Statements
  <2> QED BY <2>2, <2>3
<1>4. ASSUME NEW h \in Handlers, GetAlpha(h) PROVE TypeOK'
  <2>1. PICK a \in Newest \union {DefaultAlpha} : w' = [w EXCEPT ![h].score = Score(a, w[h].track)]
    BY <1>4 DEF GetAlpha
  <2>2. w[h].track \in [num : Int, den : Nat \ {0}]
    BY DEF Row
  <2>3. Score(a, w[h].track) \in [num : Int, den : Nat \ {0}]
    BY <2>2, AlphaKnown, ScoreType
  <2>4. w' \in [Handlers -> Row]
    BY <2>1, <2>3 DEF Row
  <2> QED BY <1>4, <2>4 DEF GetAlpha, Statements
<1>5. ASSUME NEW h \in Handlers, UpsertWeight(h) PROVE TypeOK'
  <2>1. who[h] \in Actors
    BY <1>5 DEF UpsertWeight, Written, HandlerOK
  <2>2. rows' \in [Actors -> Row \union {NoRow}]
    BY <1>5, <2>1 DEF UpsertWeight
  <2>3. recorded' \in [Actors -> [Outcomes -> Nat]]
    <3>1. CASE out[h] = NoOutcome
      BY <1>5, <3>1 DEF UpsertWeight, Written
    <3>2. CASE out[h] # NoOutcome
      <4>1. PICK a \in Actors, o \in Outcomes : a = who[h] /\ o = out[h]
        BY <2>1, <3>2
      <4>2. recorded' = [recorded EXCEPT ![a][o] = recorded[a][o] + 1]
        BY <1>5, <3>2, <4>1 DEF UpsertWeight, Written
      <4>3. recorded \in [Actors -> [Outcomes -> Nat]]
        OBVIOUS
      <4>4. recorded[a][o] + 1 \in Nat
        BY <4>3
      <4> HIDE DEF TypeOK, IInv
      <4> QED BY <4>2, <4>3, <4>4
    <3> QED BY <3>1, <3>2
  <2> QED BY <1>5, <2>2, <2>3 DEF UpsertWeight, Written, Statements
<1>6. ASSUME NEW h \in Handlers, AlphaMax(h) PROVE TypeOK'
  <2>1. MaxVersion \in Nat
    BY MaxVersionIs DEF VersionsOK
  <2> QED BY <1>6, <2>1 DEF AlphaMax, Statements
<1>7. ASSUME NEW h \in Handlers, AlphaInsert(h) PROVE TypeOK'
  BY <1>7 DEF AlphaInsert, Statements
<1>8. ASSUME NEW h \in Handlers, Respond(h) \/ StatementFails(h) PROVE TypeOK'
  <2>1. CASE Respond(h)
    BY <2>1 DEF Respond
  <2>2. CASE StatementFails(h)
    BY <2>2 DEF StatementFails
  <2> QED BY <1>8, <2>1, <2>2
<1>9. ASSUME Crash PROVE TypeOK'
  BY <1>9 DEF Crash
<1>10. ASSUME UNCHANGED vars PROVE TypeOK'
  BY <1>10 DEF vars
<1> QED BY <1>1, <1>2, <1>3, <1>4, <1>5, <1>6, <1>7, <1>8, <1>9, <1>10 DEF Next, Step

(***************************************************************************)
(* The other conjuncts.                                                    *)
(***************************************************************************)
LEMMA NextAlphas ==
  ASSUME IInv, [Next]_vars
  PROVE  AlphasOK'
<1> USE DEF IInv, TypeOK, AlphasOK, tables, locals, Goto
<1>1. ASSUME NEW h \in Handlers, Begin(h) PROVE AlphasOK'
  BY <1>1 DEF Begin, BeginCompute, BeginOutcome, BeginAlpha, Accept
<1>2. ASSUME NEW h \in Handlers, ReadOrDefault(h) \/ ReadAndAdd(h) PROVE AlphasOK'
  BY <1>2 DEF ReadOrDefault, ReadAndAdd
<1>3. ASSUME NEW h \in Handlers, GetAlpha(h) \/ UpsertWeight(h) PROVE AlphasOK'
  BY <1>3 DEF GetAlpha, UpsertWeight, Written
<1>4. ASSUME NEW h \in Handlers, AlphaMax(h) \/ AlphaInsert(h) PROVE AlphasOK'
  BY <1>4 DEF AlphaMax, AlphaInsert
<1>5. ASSUME NEW h \in Handlers, Respond(h) \/ StatementFails(h) PROVE AlphasOK'
  BY <1>5 DEF Respond, StatementFails
<1>6. ASSUME Crash \/ UNCHANGED vars PROVE AlphasOK'
  BY <1>6 DEF Crash, vars
<1> QED BY <1>1, <1>2, <1>3, <1>4, <1>5, <1>6 DEF Next, Step

LEMMA NextVersions ==
  ASSUME IInv, [Next]_vars
  PROVE  VersionsOK'
<1> USE DEF IInv, TypeOK, tables, locals
<1>1. PICK n \in Nat : /\ {v.version : v \in versions} = 1 .. n
                       /\ \A h \in Handlers : top[h] <= n
  BY DEF VersionsOK
<1>2. MaxVersion = n
  BY <1>1, MaxVersionIs
<1>3. ASSUME UNCHANGED versions, \A h \in Handlers : top'[h] <= n PROVE VersionsOK'
  BY <1>1, <1>3 DEF VersionsOK
<1>4. ASSUME NEW h \in Handlers, AlphaInsert(h) PROVE VersionsOK'
  <2> DEFINE t == top[h]
             m == IF t < n THEN n ELSE n + 1
  <2>1. t \in Nat /\ t <= n /\ UNCHANGED top
    BY <1>1, <1>4 DEF AlphaInsert
  <2>2. versions' = versions \union {[version |-> t + 1, alpha |-> cfg[h]]}
    BY <1>4 DEF AlphaInsert
  <2> HIDE DEF t
  <2>3. {v.version : v \in versions'} = {v.version : v \in versions} \union {t + 1}
    <3>1. PICK u : u = [version |-> t + 1, alpha |-> cfg[h]]
      OBVIOUS
    <3>2. u.version = t + 1 /\ versions' = versions \union {u}
      BY <2>2, <3>1
    <3> HIDE DEF IInv, TypeOK
    <3> QED BY <3>2
  <2>4. m \in Nat /\ n <= m /\ (1 .. n) \union {t + 1} = 1 .. m
    BY <2>1
  <2> HIDE DEF m
  <2>5. \A g \in Handlers : top'[g] <= m
    BY <1>1, <2>1, <2>4
  <2> QED BY <1>1, <2>3, <2>4, <2>5 DEF VersionsOK
<1>5. ASSUME NEW h \in Handlers, AlphaMax(h) PROVE VersionsOK'
  <2>1. UNCHANGED versions /\ top' = [top EXCEPT ![h] = n]
    BY <1>2, <1>5 DEF AlphaMax
  <2> QED BY <1>1, <1>3, <2>1
<1>6. ASSUME NEW h \in Handlers, Begin(h) PROVE VersionsOK'
  <2>1. UNCHANGED <<versions, top>>
    BY <1>6 DEF Begin, BeginCompute, BeginOutcome, BeginAlpha, Accept
  <2> QED BY <1>1, <1>3, <2>1
<1>7. ASSUME NEW h \in Handlers,
             \/ ReadOrDefault(h) \/ ReadAndAdd(h) \/ GetAlpha(h) \/ UpsertWeight(h)
             \/ Respond(h) \/ StatementFails(h)
      PROVE  VersionsOK'
  <2>1. UNCHANGED versions /\ (UNCHANGED top \/ top' = [top EXCEPT ![h] = 0])
    BY <1>7 DEF ReadOrDefault, ReadAndAdd, GetAlpha, UpsertWeight, Written, Respond, StatementFails
  <2> QED BY <1>1, <1>3, <2>1
<1>8. ASSUME Crash \/ UNCHANGED vars PROVE VersionsOK'
  <2>1. UNCHANGED versions /\ (UNCHANGED top \/ top' = [h \in Handlers |-> 0])
    BY <1>8 DEF Crash, vars
  <2> QED BY <1>1, <1>3, <2>1
<1> QED BY <1>4, <1>5, <1>6, <1>7, <1>8 DEF Next, Step

\* Coefficients stay known, so what was scored stays scored.
LEMMA ScoredStays ==
  ASSUME [Next]_vars, NEW r, Scored(r)
  PROVE  Scored(r)'
<1>1. versions \subseteq versions'
  <2>1. ASSUME NEW h \in Handlers, Begin(h) PROVE versions \subseteq versions'
    BY <2>1 DEF Begin, BeginCompute, BeginOutcome, BeginAlpha, Accept, tables
  <2>2. ASSUME NEW h \in Handlers, Step(h) \/ StatementFails(h)
        PROVE  versions \subseteq versions'
    BY <2>2 DEF Step, ReadOrDefault, ReadAndAdd, GetAlpha, UpsertWeight, Written, AlphaMax,
                AlphaInsert, Respond, StatementFails, tables
  <2>3. ASSUME Crash \/ UNCHANGED vars PROVE versions \subseteq versions'
    BY <2>3 DEF Crash, vars, tables
  <2> QED BY <2>1, <2>2, <2>3 DEF Next
<1>2. Known \subseteq Known'
  BY <1>1 DEF Known
<1> QED BY <1>2 DEF Scored

\* A row is never deleted.
LEMMA RowsStay ==
  ASSUME IInv, [Next]_vars, NEW a \in Actors, rows[a] # NoRow
  PROVE  rows'[a] # NoRow
<1> USE DEF IInv, TypeOK, tables
<1>1. ASSUME NEW h \in Handlers, UpsertWeight(h) PROVE rows'[a] # NoRow
  <2>1. rows' = [rows EXCEPT ![who[h]] = w[h]] /\ w[h] \in Row
    BY <1>1 DEF UpsertWeight
  <2> QED BY <2>1, WeightsAssumption DEF WeightsAssumption
<1>2. ASSUME NEW h \in Handlers, Begin(h) PROVE UNCHANGED rows
  BY <1>2 DEF Begin, BeginCompute, BeginOutcome, BeginAlpha, Accept
<1>3. ASSUME NEW h \in Handlers, Step(h) \/ StatementFails(h), ~ UpsertWeight(h)
      PROVE  UNCHANGED rows
  BY <1>3 DEF Step, ReadOrDefault, ReadAndAdd, GetAlpha, AlphaMax, AlphaInsert, Respond, StatementFails
<1>4. ASSUME Crash \/ UNCHANGED vars PROVE UNCHANGED rows
  BY <1>4 DEF Crash, vars
<1> QED BY <1>1, <1>2, <1>3, <1>4 DEF Next

LEMMA NextRows ==
  ASSUME IInv, [Next]_vars
  PROVE  RowsOK'
<1> SUFFICES ASSUME NEW a \in Actors, rows'[a] # NoRow
             PROVE  Scored(rows[a])' /\ Sound(rows[a])'
  BY DEF RowsOK
<1>1. PICK r : r = rows'[a]
  OBVIOUS
<1>2. Scored(r) /\ Sound(r)
  <2>1. CASE r = rows[a]
    BY <1>1, <2>1 DEF IInv, RowsOK
  <2>2. ASSUME NEW h \in Handlers, UpsertWeight(h), r # rows[a] PROVE Scored(r) /\ Sound(r)
    <3>1. r = w[h] /\ pc[h] = "UpsertWeight"
      BY <1>1, <2>2 DEF UpsertWeight, Written, IInv, TypeOK
    <3> QED BY <3>1 DEF IInv, HandlerOK
  <2>3. ASSUME NEW h \in Handlers, Begin(h) PROVE UNCHANGED rows
    BY <2>3 DEF Begin, BeginCompute, BeginOutcome, BeginAlpha, Accept, tables
  <2>4. ASSUME NEW h \in Handlers, Step(h) \/ StatementFails(h), ~ UpsertWeight(h)
        PROVE  UNCHANGED rows
    BY <2>4 DEF Step, ReadOrDefault, ReadAndAdd, GetAlpha, AlphaMax, AlphaInsert, Respond,
                StatementFails, tables
  <2>5. ASSUME Crash \/ UNCHANGED vars PROVE UNCHANGED rows
    BY <2>5 DEF Crash, vars, tables
  <2> QED BY <1>1, <2>1, <2>2, <2>3, <2>4, <2>5 DEF Next
<1>3. Scored(r)'
  BY <1>2, ScoredStays
<1> QED BY <1>1, <1>2, <1>3 DEF Scored, Sound

\* A handler another one's step leaves alone keeps its part of the invariant.
LEMMA HandlerStays ==
  ASSUME IInv, [Next]_vars, NEW g \in Handlers,
         pc'[g] = pc[g] \/ pc'[g] \in {"idle", "ok", "error", "alpha.Max", "alpha.Insert"},
         who'[g] = who[g], out'[g] = out[g], w'[g] = w[g]
  PROVE  HandlerOK(g)'
<1>1. PICK r, a : r = w[g] /\ a = who[g]
  OBVIOUS
<1>2. HandlerOK(g)
  BY DEF IInv
<1>3. Sound(r) /\ (pc[g] = "UpsertWeight" => Scored(r)')
  BY <1>1, <1>2, ScoredStays DEF HandlerOK
<1>4. a \in Actors /\ rows[a] # NoRow => rows'[a] # NoRow
  BY RowsStay
<1> QED BY <1>1, <1>2, <1>3, <1>4 DEF HandlerOK, Scored, Sound

LEMMA NextHandlers ==
  ASSUME IInv, [Next]_vars, NEW g \in Handlers
  PROVE  HandlerOK(g)'
<1> USE DEF tables, locals, Goto
<1>0. HandlerOK(g) /\ pc \in [Handlers -> Statements \union {"idle", "ok", "error"}]
      /\ who \in [Handlers -> Actors \union {NoActor}]
      /\ out \in [Handlers -> Outcomes \union {NoOutcome}] /\ w \in [Handlers -> Row]
      /\ cfg \in [Handlers -> [Components -> Int]]
  BY DEF IInv, TypeOK
<1>1. ASSUME NEW h \in Handlers, Begin(h) PROVE HandlerOK(g)'
  <2>1. CASE g = h
    <3>1. UNCHANGED <<rows, w>>
      BY <1>1 DEF Begin, BeginCompute, BeginOutcome, BeginAlpha, Accept
    <3>2. PICK r : r = w[g]
      OBVIOUS
    <3>3. ASSUME NEW a \in Actors, BeginCompute(h, a) PROVE HandlerOK(g)'
      BY <1>0, <2>1, <3>1, <3>3 DEF BeginCompute, Accept, HandlerOK, Sound
    <3>4. ASSUME NEW a \in Actors, NEW o \in Outcomes, BeginOutcome(h, a, o) PROVE HandlerOK(g)'
      BY <1>0, <2>1, <3>1, <3>4 DEF BeginOutcome, Accept, HandlerOK, Sound
    <3>5. ASSUME NEW a \in Alphas, BeginAlpha(h, a) PROVE HandlerOK(g)'
      BY <1>0, <2>1, <3>5, HandlerStays DEF BeginAlpha, Accept
    <3> QED BY <1>1, <3>3, <3>4, <3>5 DEF Begin
  <2>2. CASE g # h
    BY <1>0, <1>1, <2>2, HandlerStays DEF Begin, BeginCompute, BeginOutcome, BeginAlpha, Accept
  <2> QED BY <2>1, <2>2
<1>2. ASSUME NEW h \in Handlers, ReadOrDefault(h) PROVE HandlerOK(g)'
  <2>1. CASE g = h
    <3>1. PICK a \in Actors : a = who[h]
      BY <1>0, <1>2, <2>1 DEF ReadOrDefault, HandlerOK
    <3>2. PICK r : /\ w'[g] = r
                   /\ (r = rows[a] /\ rows[a] # NoRow) \/ r = DefaultRow
      BY <1>0, <1>2, <2>1, <3>1 DEF ReadOrDefault
    <3>3. Sound(r) /\ (rows[a] = NoRow => r.count = 0 /\ r.track = DefaultRow.track)
      BY <3>2, DefaultType DEF IInv, RowsOK, Sound, DefaultRow
    <3>4. pc'[g] = "GetAlpha" /\ who'[g] = a /\ UNCHANGED rows
      BY <1>0, <1>2, <2>1, <3>1 DEF ReadOrDefault
    <3> QED BY <3>2, <3>3, <3>4 DEF HandlerOK, Sound
  <2>2. CASE g # h
    BY <1>0, <1>2, <2>2, HandlerStays DEF ReadOrDefault
  <2> QED BY <2>1, <2>2
<1>3. ASSUME NEW h \in Handlers, ReadAndAdd(h) PROVE HandlerOK(g)'
  <2>1. PICK a \in Actors, o \in Outcomes : a = who[h] /\ o = out[h]
    BY <1>3 DEF ReadAndAdd, IInv, HandlerOK
  <2>2. CASE g # h \/ rows[a] = NoRow
    BY <1>0, <1>3, <2>1, <2>2, HandlerStays DEF ReadAndAdd
  <2>3. CASE g = h /\ rows[a] # NoRow
    <3>1. PICK r \in Row : r = rows[a] /\ Sound(r)
      BY <2>3 DEF IInv, TypeOK, RowsOK
    <3>2. Sound(AddOutcome(r, o))
      <4>1. Positive => o >= 0
        BY DEF Positive
      <4> QED BY <3>1, <4>1, AddOutcomeType DEF Sound
    <3>3. /\ w'[g] = AddOutcome(r, o) /\ pc'[g] = "GetAlpha" /\ who'[g] = a
          /\ UNCHANGED rows
      BY <1>0, <1>3, <2>1, <2>3, <3>1 DEF ReadAndAdd
    <3> QED BY <2>3, <3>2, <3>3 DEF HandlerOK, Sound
  <2> QED BY <2>2, <2>3
<1>4. ASSUME NEW h \in Handlers, GetAlpha(h) PROVE HandlerOK(g)'
  <2>1. CASE g = h
    <3>1. PICK c \in Newest \union {DefaultAlpha} :
             w' = [w EXCEPT ![h].score = Score(c, w[h].track)]
      BY <1>4 DEF GetAlpha
    <3>2. PICK r \in Row : r = w[h]
      BY <1>0
    <3>3. PICK u : u = [r EXCEPT !.score = Score(c, r.track)]
      OBVIOUS
    <3>4. w'[g] = u /\ u.track = r.track /\ u.count = r.count /\ u.score = Score(c, u.track)
      BY <1>0, <2>1, <3>1, <3>2, <3>3 DEF Row
    <3>5. Scored(u) /\ Sound(u)
      BY <1>0, <2>1, <3>2, <3>4, AlphaKnown DEF Scored, Sound, HandlerOK
    <3>6. Scored(u)'
      BY <3>5, ScoredStays
    <3>7. pc[g] = "GetAlpha" /\ pc'[g] = "UpsertWeight" /\ UNCHANGED <<rows, who>>
      BY <1>0, <1>4, <2>1 DEF GetAlpha
    <3> QED BY <1>0, <2>1, <3>2, <3>4, <3>5, <3>6, <3>7 DEF HandlerOK, Scored, Sound
  <2>2. CASE g # h
    BY <1>0, <1>4, <2>2, HandlerStays DEF GetAlpha
  <2> QED BY <2>1, <2>2
<1>5. ASSUME NEW h \in Handlers, UpsertWeight(h) \/ AlphaMax(h) \/ AlphaInsert(h) \/ StatementFails(h)
      PROVE  HandlerOK(g)'
  BY <1>0, <1>5, HandlerStays DEF UpsertWeight, Written, AlphaMax, AlphaInsert, StatementFails
<1>6. ASSUME NEW h \in Handlers, Respond(h) PROVE HandlerOK(g)'
  <2>1. CASE g = h
    <3>1. pc'[g] = "idle" /\ w'[g] = DefaultRow
      BY <1>0, <1>6, <2>1 DEF Respond
    <3> QED BY <3>1, DefaultType DEF HandlerOK, Sound
  <2>2. CASE g # h
    BY <1>0, <1>6, <2>2, HandlerStays DEF Respond
  <2> QED BY <2>1, <2>2
<1>7. ASSUME Crash PROVE HandlerOK(g)'
  <2>1. pc'[g] = "idle" /\ w'[g] = DefaultRow
    BY <1>7 DEF Crash
  <2> QED BY <2>1, DefaultType DEF HandlerOK, Sound
<1>8. ASSUME UNCHANGED vars PROVE HandlerOK(g)'
  BY <1>8, HandlerStays DEF vars
<1> QED BY <1>1, <1>2, <1>3, <1>4, <1>5, <1>6, <1>7, <1>8 DEF Next, Step
-----------------------------------------------------------------------------
(***************************************************************************)
(* The theorems.                                                           *)
(***************************************************************************)

\* The inductive invariant holds in every reachable state of the decision
\* weights' reads, computations and writes.
THEOREM Invariant == Spec => []IInv
<1>1. ASSUME IInv, [Next]_vars PROVE IInv'
  BY <1>1, NextTypes, NextAlphas, NextVersions, NextRows, NextHandlers DEF IInv
<1> QED BY InitInv, <1>1, PTL DEF Spec

\* Every variable keeps its type.
THEOREM Types == Spec => []TypeOK
<1>1. IInv => TypeOK
  BY DEF IInv
<1> QED BY <1>1, Invariant, PTL

\* A stored score is the score of the stored components, however the
\* handlers' reads and writes interleave.
THEOREM Matches == Spec => []ScoreMatches
<1>1. IInv => ScoreMatches
  BY DEF IInv, RowsOK, Scored, Known, ScoreMatches
<1> QED BY <1>1, Invariant, PTL

\* A stored score is at most 1.0, and not negative without negative inputs.
THEOREM InRange == Spec => []ScoreInRange
<1>1. ASSUME IInv PROVE ScoreInRange
  <2> SUFFICES ASSUME NEW a \in Actors, rows[a] # NoRow
               PROVE  /\ rows[a].score.num <= Unit * rows[a].score.den
                      /\ Positive => rows[a].score.num >= 0
    BY DEF ScoreInRange, Positive
  <2>1. PICK r \in Row : r = rows[a] /\ Scored(r) /\ Sound(r)
    BY <1>1 DEF IInv, TypeOK, RowsOK
  <2>2. PICK c \in Known : r.score = Score(c, r.track)
    BY <2>1 DEF Scored
  <2>3. c \in [Components -> Int] /\ (Positive => \A x \in Components : c[x] >= 0)
    <3>1. CASE c = DefaultAlpha
      BY <3>1, DefaultAlphaType
    <3>2. CASE c \in Alphas
      BY <3>2, WeightsAssumption DEF WeightsAssumption, Positive
    <3> QED BY <1>1, <3>1, <3>2 DEF Known, IInv, AlphasOK
  <2>4. r.track \in [num : Int, den : Nat \ {0}]
    BY DEF Row
  <2> QED BY <2>1, <2>2, <2>3, <2>4, ScoreType DEF Sound
<1> QED BY <1>1, Invariant, PTL

\* Concurrent updates of the coefficients leave no gap in the versions.
THEOREM Dense == Spec => []VersionsDense
<1>1. IInv => VersionsDense
  BY MaxVersionIs DEF IInv, VersionsOK, VersionsDense
<1> QED BY <1>1, Invariant, PTL

(***************************************************************************)
(* Who shares a version.  Once a version has a row, nobody new sees the    *)
(* MAX(version) below it: rows of the version and the inserts about to add *)
(* one never become more, and are at first as many as requests in flight.  *)
(***************************************************************************)
Inserting(n) == {h \in Handlers : pc[h] = "alpha.Insert" /\ top[h] + 1 = n}
OfVersion(n) == {v \in versions : v.version = n}

SharedInv ==
  /\ Cardinality(Busy) <= MaxInFlight
  /\ \A n \in Nat : /\ IsFiniteSet(OfVersion(n))
                    /\ Cardinality(OfVersion(n)) + Cardinality(Inserting(n)) <= MaxInFlight

LEMMA HandlersFinite ==
  /\ IsFiniteSet(Busy) /\ Cardinality(Busy) \in Nat
  /\ \A n : /\ IsFiniteSet(Inserting(n)) /\ Cardinality(Inserting(n)) \in Nat
             /\ Cardinality(Inserting(n)) <= Cardinality(Busy)
<1>1. IsFiniteSet(Busy) /\ Cardinality(Busy) \in Nat
  BY FS_Subset, FS_CardinalityType, WeightsAssumption DEF WeightsAssumption, Busy
<1>2. \A n : Inserting(n) \subseteq Busy
  BY DEF Inserting, Busy
<1> QED BY <1>1, <1>2, FS_Subset, FS_CardinalityType

\* A step that adds no row and no insert.
LEMMA SharedStays ==
  ASSUME SharedInv, UNCHANGED versions, Cardinality(Busy') <= MaxInFlight,
         \A n \in Nat : Inserting(n)' \subseteq Inserting(n)
  PROVE  SharedInv'
<1>1. ASSUME NEW n \in Nat
      PROVE  /\ IsFiniteSet(OfVersion(n))
             /\ Cardinality(OfVersion(n)) + Cardinality(Inserting(n)') <= MaxInFlight
  <2>1. /\ Cardinality(Inserting(n)') \in Nat /\ Cardinality(Inserting(n)) \in Nat
        /\ Cardinality(Inserting(n)') <= Cardinality(Inserting(n))
    BY HandlersFinite, FS_Subset, FS_CardinalityType
  <2>2. /\ IsFiniteSet(OfVersion(n)) /\ Cardinality(OfVersion(n)) \in Nat
        /\ Cardinality(OfVersion(n)) + Cardinality(Inserting(n)) <= MaxInFlight
    BY FS_CardinalityType DEF SharedInv
  <2> QED BY <2>1, <2>2, WeightsAssumption DEF WeightsAssumption
<1>2. \A n : OfVersion(n)' = OfVersion(n)
  BY DEF OfVersion
<1> QED BY <1>1, <1>2 DEF SharedInv

LEMMA InitShared == Init => SharedInv
<1> SUFFICES ASSUME Init PROVE SharedInv
  OBVIOUS
<1>1. Busy = {} /\ \A n : OfVersion(n) = {} /\ Inserting(n) = {}
  BY DEF Init, Busy, OfVersion, Inserting
<1>2. IsFiniteSet({}) /\ Cardinality({}) = 0
  BY FS_EmptySet
<1>3. 0 <= MaxInFlight /\ 0 + 0 <= MaxInFlight
  BY WeightsAssumption DEF WeightsAssumption
<1>4. Cardinality(Busy) <= MaxInFlight
  BY <1>1, <1>2, <1>3
<1>5. \A n \in Nat : /\ IsFiniteSet(OfVersion(n))
                    /\ Cardinality(OfVersion(n)) + Cardinality(Inserting(n)) <= MaxInFlight
  BY <1>1, <1>2, <1>3
<1> QED BY <1>4, <1>5 DEF SharedInv

LEMMA NextBusy ==
  ASSUME IInv, SharedInv, [Next]_vars
  PROVE  Cardinality(Busy') <= MaxInFlight
<1> USE DEF Goto
<1>0. pc \in [Handlers -> Statements \union {"idle", "ok", "error"}] /\ MaxInFlight \in Nat
  BY WeightsAssumption DEF WeightsAssumption, IInv, TypeOK
<1>1. ASSUME NEW h \in Handlers, NEW l, Accept(h, l) PROVE Cardinality(Busy') <= MaxInFlight
  <2>1. Busy' \subseteq Busy \union {h} /\ Cardinality(Busy) < MaxInFlight
    BY <1>0, <1>1 DEF Accept, Busy
  <2>2. /\ IsFiniteSet(Busy \union {h}) /\ Cardinality(Busy \union {h}) \in Nat
        /\ Cardinality(Busy \union {h}) <= Cardinality(Busy) + 1
    BY HandlersFinite, FS_AddElement, FS_CardinalityType
  <2>3. Cardinality(Busy') \in Nat /\ Cardinality(Busy') <= Cardinality(Busy \union {h})
    BY <2>1, <2>2, FS_Subset, FS_CardinalityType
  <2> QED BY <1>0, <2>1, <2>2, <2>3, HandlersFinite
<1>2. ASSUME Busy' \subseteq Busy PROVE Cardinality(Busy') <= MaxInFlight
  <2>1. /\ Cardinality(Busy') \in Nat /\ Cardinality(Busy) \in Nat
        /\ Cardinality(Busy') <= Cardinality(Busy)
    BY <1>2, HandlersFinite, FS_Subset, FS_CardinalityType
  <2> QED BY <1>0, <2>1 DEF SharedInv
<1>3. ASSUME NEW h \in Handlers, pc[h] # "idle", NEW l, pc' = [pc EXCEPT ![h] = l]
      PROVE  Busy' \subseteq Busy
  BY <1>0, <1>3 DEF Busy
<1>4. ASSUME NEW h \in Handlers, Step(h) \/ StatementFails(h) PROVE Busy' \subseteq Busy
  BY <1>3, <1>4 DEF Step, ReadOrDefault, ReadAndAdd, GetAlpha, UpsertWeight, Written, AlphaMax,
                    AlphaInsert, Respond, StatementFails, Statements
<1>5. ASSUME NEW h \in Handlers, Begin(h) PROVE Cardinality(Busy') <= MaxInFlight
  BY <1>1, <1>5 DEF Begin, BeginCompute, BeginOutcome, BeginAlpha
<1>6. ASSUME Crash \/ UNCHANGED vars PROVE Busy' \subseteq Busy
  BY <1>6 DEF Crash, vars, Busy
<1> QED BY <1>2, <1>4, <1>5, <1>6 DEF Next

LEMMA NextShared ==
  ASSUME IInv, SharedInv, [Next]_vars
  PROVE  SharedInv'
<1> USE DEF Goto
<1>0. /\ Cardinality(Busy') <= MaxInFlight
      /\ pc \in [Handlers -> Statements \union {"idle", "ok", "error"}]
      /\ top \in [Handlers -> Nat] /\ MaxInFlight \in Nat
  BY NextBusy, WeightsAssumption DEF WeightsAssumption, IInv, TypeOK
<1>1. ASSUME UNCHANGED versions, \A n \in Nat : Inserting(n)' \subseteq Inserting(n)
      PROVE  SharedInv'
  BY <1>0, <1>1, SharedStays
<1>2. ASSUME NEW h \in Handlers, Begin(h) PROVE SharedInv'
  <2>1. UNCHANGED <<versions, top>> /\ \E l : l # "alpha.Insert" /\ pc' = [pc EXCEPT ![h] = l]
    BY <1>2 DEF Begin, BeginCompute, BeginOutcome, BeginAlpha, Accept, tables
  <2> QED BY <1>0, <1>1, <2>1 DEF Inserting
<1>3. ASSUME NEW h \in Handlers,
             \/ ReadOrDefault(h) \/ ReadAndAdd(h) \/ GetAlpha(h) \/ UpsertWeight(h)
             \/ Respond(h) \/ StatementFails(h)
      PROVE  SharedInv'
  <2>1. /\ UNCHANGED versions /\ \E l : l # "alpha.Insert" /\ pc' = [pc EXCEPT ![h] = l]
        /\ UNCHANGED top \/ top' = [top EXCEPT ![h] = 0]
    BY <1>3 DEF ReadOrDefault, ReadAndAdd, GetAlpha, UpsertWeight, Written, Respond,
                StatementFails, tables, locals
  <2>2. \A n \in Nat : Inserting(n)' \subseteq Inserting(n)
    BY <1>0, <2>1 DEF Inserting
  <2> QED BY <1>1, <2>1, <2>2
<1>4. ASSUME NEW h \in Handlers, AlphaMax(h) PROVE SharedInv'
  <2>1. PICK m \in Nat : {v.version : v \in versions} = 1 .. m
    BY DEF IInv, VersionsOK
  <2>2. /\ UNCHANGED versions /\ pc[h] = "alpha.Max"
        /\ pc' = [pc EXCEPT ![h] = "alpha.Insert"] /\ top' = [top EXCEPT ![h] = m]
    BY <1>4, <2>1, MaxVersionIs DEF AlphaMax, tables
  <2>3. ASSUME NEW n \in Nat
        PROVE  /\ IsFiniteSet(OfVersion(n))
               /\ Cardinality(OfVersion(n)) + Cardinality(Inserting(n)') <= MaxInFlight
    <3>1. CASE n = m + 1
      <4>1. OfVersion(n) = {}
        BY <2>1, <3>1 DEF OfVersion
      <4>2. /\ Cardinality(Inserting(n)') \in Nat /\ Cardinality(Busy') \in Nat
            /\ Cardinality(Inserting(n)') <= Cardinality(Busy')
        <5>1. Inserting(n)' \subseteq Busy' /\ Busy' \subseteq Handlers
          BY DEF Inserting, Busy
        <5> QED BY <5>1, FS_Subset, FS_CardinalityType, WeightsAssumption DEF WeightsAssumption
      <4> QED BY <1>0, <4>1, <4>2, FS_EmptySet
    <3>2. CASE n # m + 1
      <4>1. Inserting(n)' = Inserting(n)
        BY <1>0, <2>2, <3>2 DEF Inserting
      <4> QED BY <4>1 DEF SharedInv
    <3> QED BY <3>1, <3>2
  <2>4. \A n : OfVersion(n)' = OfVersion(n)
    BY <2>2 DEF OfVersion
  <2> QED BY <1>0, <2>3, <2>4 DEF SharedInv
<1>5. ASSUME NEW h \in Handlers, AlphaInsert(h) PROVE SharedInv'
  <2> DEFINE k == top[h] + 1
  <2>1. PICK u : u = [version |-> k, alpha |-> cfg[h]]
    OBVIOUS
  <2>2. /\ versions' = versions \union {u} /\ u.version = k /\ k \in Nat
        /\ pc[h] = "alpha.Insert" /\ pc' = [pc EXCEPT ![h] = "ok"] /\ UNCHANGED top
    BY <1>0, <1>5, <2>1 DEF AlphaInsert, locals
  <2> HIDE DEF k
  <2>3. ASSUME NEW n \in Nat
        PROVE  /\ IsFiniteSet(OfVersion(n)')
               /\ Cardinality(OfVersion(n)') + Cardinality(Inserting(n)') <= MaxInFlight
    <3>0. /\ IsFiniteSet(OfVersion(n)) /\ Cardinality(OfVersion(n)) \in Nat
          /\ IsFiniteSet(Inserting(n)) /\ Cardinality(Inserting(n)) \in Nat
          /\ Cardinality(OfVersion(n)) + Cardinality(Inserting(n)) <= MaxInFlight
      BY HandlersFinite, FS_CardinalityType DEF SharedInv
    <3>1. CASE n = k
      <4>1. /\ OfVersion(n)' = OfVersion(n) \union {u}
            /\ Inserting(n)' = Inserting(n) \ {h} /\ h \in Inserting(n)
        BY <1>0, <2>2, <3>1 DEF OfVersion, Inserting, k
      <4>2. IsFiniteSet(OfVersion(n)') /\ Cardinality(OfVersion(n)') \in Nat
            /\ Cardinality(OfVersion(n)') <= Cardinality(OfVersion(n)) + 1
        <5> DEFINE P == OfVersion(n)
        <5>1. P' = P \union {u} /\ IsFiniteSet(P) /\ Cardinality(P) \in Nat
          BY <3>0, <4>1
        <5> HIDE DEF P
        <5>2. /\ IsFiniteSet(P \union {u})
              /\ Cardinality(P \union {u}) \in {Cardinality(P), Cardinality(P) + 1}
          BY <5>1, FS_AddElement
        <5>3. IsFiniteSet(P') /\ Cardinality(P') \in Nat /\ Cardinality(P') <= Cardinality(P) + 1
          BY <5>1, <5>2
        <5> QED BY <5>3 DEF P
      <4>3. Cardinality(Inserting(n)') = Cardinality(Inserting(n)) - 1
        BY <3>0, <4>1, FS_RemoveElement
      <4> QED BY <1>0, <3>0, <4>2, <4>3
    <3>2. CASE n # k
      <4>1. OfVersion(n)' = OfVersion(n) /\ Inserting(n)' = Inserting(n)
        BY <1>0, <2>2, <3>2 DEF OfVersion, Inserting, k
      <4> QED BY <3>0, <4>1
    <3> QED BY <3>1, <3>2
  <2> QED BY <1>0, <2>3 DEF SharedInv
<1>6. ASSUME Crash PROVE SharedInv'
  <2>1. UNCHANGED versions /\ \A n : Inserting(n)' = {}
    BY <1>6 DEF Crash, tables, Inserting
  <2> QED BY <1>1, <2>1
<1>7. ASSUME UNCHANGED vars PROVE SharedInv'
  BY <1>1, <1>7 DEF vars, tables, locals, Inserting
<1> QED BY <1>2, <1>3, <1>4, <1>5, <1>6, <1>7 DEF Next, Step

\* Only requests in flight together share a version of the coefficients, for
\* any number of handlers, failures and crashes.
THEOREM Shared == Spec => []VersionsShared
<1>1. IInv /\ SharedInv /\ [Next]_vars => SharedInv'
  BY NextShared
<1>2. IInv /\ SharedInv => VersionsShared
  <2> SUFFICES ASSUME IInv, SharedInv, NEW v \in versions
               PROVE  Cardinality({u \in versions : u.version = v.version}) <= MaxInFlight
    BY DEF VersionsShared
  <2> DEFINE n == v.version
  <2>1. n \in Nat
    BY DEF IInv, TypeOK
  <2> HIDE DEF n
  <2>2. /\ Cardinality(OfVersion(n)) \in Nat /\ Cardinality(Inserting(n)) \in Nat
        /\ Cardinality(OfVersion(n)) + Cardinality(Inserting(n)) <= MaxInFlight
    BY <2>1, HandlersFinite, FS_CardinalityType DEF SharedInv
  <2>3. Cardinality(OfVersion(n)) <= MaxInFlight
    BY <2>2, WeightsAssumption DEF WeightsAssumption
  <2> QED BY <2>3 DEF OfVersion, n
<1> QED BY InitShared, Invariant, <1>1, <1>2, PTL DEF Spec

\* The first row of an actor is the neutral one of ComputeWeight: outcomes
\* of unknown actors are refused.
THEOREM First == Spec => FirstIsNeutral
<1> DEFINE Neutral ==
      \A a \in Actors : rows[a] = NoRow /\ rows'[a] # NoRow =>
        rows'[a].count = 0 /\ rows'[a].track = DefaultRow.track
<1>1. ASSUME IInv, [Next]_vars PROVE [Neutral]_vars
  <2> SUFFICES ASSUME NEW a \in Actors, rows[a] = NoRow, rows'[a] # NoRow
               PROVE  rows'[a].count = 0 /\ rows'[a].track = DefaultRow.track
    OBVIOUS
  <2>1. ASSUME NEW h \in Handlers, UpsertWeight(h)
        PROVE  rows'[a].count = 0 /\ rows'[a].track = DefaultRow.track
    <3>1. a = who[h] /\ rows'[a] = w[h] /\ pc[h] = "UpsertWeight"
      BY <1>1, <2>1 DEF UpsertWeight, Written, IInv, TypeOK
    <3> QED BY <1>1, <3>1 DEF IInv, HandlerOK
  <2>2. ASSUME NEW h \in Handlers, Begin(h) PROVE UNCHANGED rows
    BY <2>2 DEF Begin, BeginCompute, BeginOutcome, BeginAlpha, Accept, tables
  <2>3. ASSUME NEW h \in Handlers, Step(h) \/ StatementFails(h), ~ UpsertWeight(h)
        PROVE  UNCHANGED rows
    BY <2>3 DEF Step, ReadOrDefault, ReadAndAdd, GetAlpha, AlphaMax, AlphaInsert, Respond,
                StatementFails, tables
  <2>4. ASSUME Crash \/ UNCHANGED vars PROVE UNCHANGED rows
    BY <2>4 DEF Crash, vars, tables
  <2> QED BY <1>1, <2>1, <2>2, <2>3, <2>4 DEF Next
<1>2. [][Neutral]_vars => FirstIsNeutral
  BY PTL DEF FirstIsNeutral
<1> QED BY <1>1, <1>2, Invariant, PTL DEF Spec
-----------------------------------------------------------------------------
(***************************************************************************)
(* The outcomes a row stands for.                                          *)
(***************************************************************************)
Bags == [Outcomes -> Nat]
Plus(f, o) == [f EXCEPT ![o] = @ + 1]
Weighted(f) == [o \in Outcomes |-> o * f[o]]

LEMMA SumOfAllIs == \A f : SumOfAll(f) = SumOver(f, Outcomes)
  BY DEF SumOfAll, SumOver

LEMMA BagSums ==
  ASSUME NEW f \in Bags
  PROVE  /\ SumOfAll(f) \in Nat /\ SumOfAll(Weighted(f)) \in Int
         /\ SumOfAll(f) = 0 => SumOfAll(Weighted(f)) = 0
<1>1. IsFiniteSet(Outcomes) /\ Outcomes \subseteq Int /\ \A o \in Outcomes : f[o] \in Nat
  BY WeightsAssumption DEF WeightsAssumption, Bags
<1>2. SumOver(f, Outcomes) \in Nat /\ (SumOver(f, Outcomes) = 0 <=> \A o \in Outcomes : f[o] = 0)
  BY <1>1, SumNatural
<1>3. \A o \in Outcomes : Weighted(f)[o] \in Int
  BY <1>1, ProductType DEF Weighted
<1>4. SumOver(Weighted(f), Outcomes) \in Int
  BY <1>1, <1>3, SumType
<1>5. ASSUME SumOver(f, Outcomes) = 0 PROVE SumOver(Weighted(f), Outcomes) = 0
  <2>1. \A o \in Outcomes : f[o] = 0
    BY <1>2, <1>5
  <2>2. \A o \in Outcomes : Weighted(f)[o] = 0
    BY <1>1, <2>1 DEF Weighted
  <2>3. \A o \in Outcomes : Weighted(f)[o] \in Nat
    BY <2>2
  <2> QED BY <1>1, <2>2, <2>3, SumNatural
<1> QED BY <1>2, <1>4, <1>5, SumOfAllIs

LEMMA PlusSums ==
  ASSUME NEW f \in Bags, NEW o \in Outcomes
  PROVE  /\ Plus(f, o) \in Bags
         /\ SumOfAll(Plus(f, o)) = SumOfAll(f) + 1
         /\ SumOfAll(Weighted(Plus(f, o))) = SumOfAll(Weighted(f)) + o
<1>1. /\ IsFiniteSet(Outcomes) /\ Outcomes \subseteq Int /\ o \in Int
      /\ \A p \in Outcomes : f[p] \in Nat
  BY WeightsAssumption DEF WeightsAssumption, Bags
<1>2. /\ Plus(f, o) \in Bags /\ Plus(f, o)[o] = f[o] + 1
      /\ \A p \in Outcomes \ {o} : Plus(f, o)[p] = f[p]
  BY <1>1 DEF Plus, Bags
<1>3. SumOver(Plus(f, o), Outcomes) = SumOver(f, Outcomes) + 1
  <2>1. 1 \in Int /\ \A p \in Outcomes : f[p] \in Int
    BY <1>1
  <2> QED BY <1>1, <1>2, <2>1, SumAdd, Zenon
<1>4. /\ \A p \in Outcomes : Weighted(f)[p] \in Int
      /\ Weighted(Plus(f, o))[o] = Weighted(f)[o] + o
      /\ \A p \in Outcomes \ {o} : Weighted(Plus(f, o))[p] = Weighted(f)[p]
  <2>1. \A p \in Outcomes : p * f[p] \in Int
    BY <1>1, ProductType
  <2>2. o * (f[o] + 1) = o * f[o] + o
    BY <1>1
  <2> QED BY <1>2, <2>1, <2>2 DEF Weighted
<1>5. SumOver(Weighted(Plus(f, o)), Outcomes) = SumOver(Weighted(f), Outcomes) + o
  BY <1>1, <1>4, SumAdd
<1> QED BY <1>2, <1>3, <1>5, SumOfAllIs

\* The mean of the outcomes and one more is the mean RecordOutcome computes.
LEMMA MeanStep ==
  ASSUME NEW n \in Nat, NEW x \in Int, NEW d \in Nat \ {0}, NEW t \in Int, NEW o \in Int,
         x * n = d * t
  PROVE  (x * n + o * d) * (n + 1) = (d * (n + 1)) * (t + o)
<1>1. x * n + o * d = d * (t + o)
  <2>1. d * (t + o) = d * t + d * o /\ d * o = o * d
    OBVIOUS
  <2> QED BY <2>1
<1>2. \A u, v, z \in Int : (u * v) * z = (u * z) * v
  OBVIOUS
<1> QED BY <1>1, <1>2

LEMMA ExplainsNext ==
  ASSUME NEW r \in Row, NEW f \in Bags, NEW o \in Outcomes, Explains(f, r)
  PROVE  Explains(Plus(f, o), AddOutcome(r, o))
<1> DEFINE n == r.count
           x == r.track.num
           d == r.track.den
           t == SumOfAll(Weighted(f))
           q == AddOutcome(r, o)
<1>1. n \in Nat /\ x \in Int /\ d \in Nat \ {0} /\ t \in Int /\ o \in Int
  BY BagSums, WeightsAssumption DEF WeightsAssumption, Row
<1>2. n = SumOfAll(f) /\ (n # 0 => x * n = d * t)
  BY DEF Explains, Weighted
<1>3. x * n = d * t
  <2>1. CASE n = 0
    <3>1. t = 0
      BY <1>2, <2>1, BagSums
    <3>2. x * 0 = 0 /\ d * 0 = 0
      BY <1>1
    <3> QED BY <2>1, <3>1, <3>2
  <2> QED BY <1>2, <2>1
<1>4. q.count = n + 1 /\ q.track.num = x * n + o * d /\ q.track.den = d * (n + 1)
  <2>1. (n + 1) - 1 = n
    BY <1>1
  <2> QED BY <1>1, <2>1 DEF AddOutcome, Fraction, Row
<1>5. SumOfAll(Plus(f, o)) = n + 1 /\ SumOfAll(Weighted(Plus(f, o))) = t + o
  BY <1>2, PlusSums
<1>6. n + 1 # 0
  BY <1>1
<1>7. (x * n + o * d) * (n + 1) = (d * (n + 1)) * (t + o)
  BY <1>1, <1>3, MeanStep
<1> HIDE DEF n, x, d, t, q
<1>8. q.track.num * q.count = q.track.den * SumOfAll(Weighted(Plus(f, o)))
  BY <1>4, <1>5, <1>7
<1> QED BY <1>4, <1>5, <1>6, <1>8 DEF Explains, Weighted, q

\* A row without outcomes is the default one.
NoneYet == [o \in Outcomes |-> 0]

LEMMA ExplainsNone ==
  ASSUME NEW r, r.count = 0, r.track = DefaultRow.track, NEW f \in Bags,
         \A o \in Outcomes : f[o] = 0
  PROVE  Explains(f, r)
<1>1. IsFiniteSet(Outcomes) /\ \A o \in Outcomes : f[o] \in Nat
  BY WeightsAssumption DEF WeightsAssumption, Bags
<1>2. SumOfAll(f) = 0
  BY <1>1, SumNatural, SumOfAllIs
<1> QED BY <1>2 DEF Explains

(***************************************************************************)
(* MeansInv: every row, stored or in memory, stands for reported outcomes. *)
(* The row of a handler that records an outcome stands for one more.       *)
(***************************************************************************)
InMemory(h) == pc[h] \in {"GetAlpha", "UpsertWeight"}

Carries(h, f) == Explains(IF out[h] = NoOutcome THEN f ELSE Plus(f, out[h]), w[h])

OutOK(h) ==
  pc[h] \in {"idle", "compute.GetWeight", "alpha.Max", "alpha.Insert"} => out[h] = NoOutcome

MeansOK(h) == InMemory(h) => \E f \in SubBags(recorded[who[h]]) : Carries(h, f)

MeansInv == RowExplained /\ \A h \in Handlers : OutOK(h) /\ MeansOK(h)

LEMMA SubBagsAre ==
  ASSUME NEW b \in Bags
  PROVE  SubBags(b) = {f \in Bags : \A o \in Outcomes : f[o] <= b[o]}
<1>1. \A o \in Outcomes : b[o] \in Nat
  BY DEF Bags
<1>2. ASSUME NEW f \in SubBags(b) PROVE f \in Bags
  BY <1>1, <1>2 DEF SubBags, Bags
<1>3. ASSUME NEW f \in Bags, \A o \in Outcomes : f[o] <= b[o] PROVE f \in SubBags(b)
  <2>1. \A o \in Outcomes : f[o] \in 0 .. b[o]
    BY <1>1, <1>3 DEF Bags
  <2>2. f \in [Outcomes -> UNION {0 .. b[o] : o \in Outcomes}]
    BY <2>1 DEF Bags
  <2> QED BY <1>3, <2>2 DEF SubBags
<1> QED BY <1>2, <1>3 DEF SubBags

LEMMA NoneIsSub ==
  ASSUME NEW b \in Bags
  PROVE  NoneYet \in SubBags(b) /\ NoneYet \in Bags
<1>1. NoneYet \in Bags /\ \A o \in Outcomes : NoneYet[o] <= b[o]
  BY DEF NoneYet, Bags
<1> QED BY <1>1, SubBagsAre

\* What is explained by a bag's part is explained by a larger bag's.
LEMMA SubBagsGrow ==
  ASSUME NEW b \in Bags, NEW c \in Bags, \A o \in Outcomes : b[o] <= c[o]
  PROVE  SubBags(b) \subseteq SubBags(c)
<1> SUFFICES ASSUME NEW f \in Bags, \A o \in Outcomes : f[o] <= b[o],
                    NEW o \in Outcomes
             PROVE  f[o] <= c[o]
  BY SubBagsAre
<1>1. f[o] \in Nat /\ b[o] \in Nat /\ c[o] \in Nat /\ f[o] <= b[o] /\ b[o] <= c[o]
  BY DEF Bags
<1> QED BY <1>1

\* The only step that writes rows and records outcomes.
LEMMA OutcomeSteps ==
  ASSUME IInv, [Next]_vars
  PROVE  \/ UNCHANGED <<rows, recorded>>
         \/ \E h \in Handlers, a \in Actors :
              /\ UpsertWeight(h) /\ a = who[h]
              /\ rows' = [rows EXCEPT ![a] = w[h]]
              /\ recorded' = IF out[h] = NoOutcome THEN recorded
                             ELSE [recorded EXCEPT ![a] = Plus(recorded[a], out[h])]
<1>1. ASSUME NEW h \in Handlers, Begin(h) PROVE UNCHANGED <<rows, recorded>>
  BY <1>1 DEF Begin, BeginCompute, BeginOutcome, BeginAlpha, Accept, tables
<1>2. ASSUME NEW h \in Handlers, Step(h) \/ StatementFails(h), ~ UpsertWeight(h)
      PROVE  UNCHANGED <<rows, recorded>>
  BY <1>2 DEF Step, ReadOrDefault, ReadAndAdd, GetAlpha, AlphaMax, AlphaInsert, Respond,
              StatementFails, tables
<1>3. ASSUME Crash \/ UNCHANGED vars PROVE UNCHANGED <<rows, recorded>>
  BY <1>3 DEF Crash, vars, tables
<1>4. ASSUME NEW h \in Handlers, UpsertWeight(h)
      PROVE  \E a \in Actors :
               /\ UpsertWeight(h) /\ a = who[h]
               /\ rows' = [rows EXCEPT ![a] = w[h]]
               /\ recorded' = IF out[h] = NoOutcome THEN recorded
                              ELSE [recorded EXCEPT ![a] = Plus(recorded[a], out[h])]
  <2>1. who[h] \in Actors
    BY <1>4 DEF UpsertWeight, Written, IInv, HandlerOK
  <2> QED BY <1>4, <2>1 DEF UpsertWeight, Written, Plus
<1> QED BY <1>1, <1>2, <1>3, <1>4 DEF Next

LEMMA RecordedGrows ==
  ASSUME IInv, TypeOK', [Next]_vars, NEW a \in Actors
  PROVE  recorded[a] \in Bags /\ recorded'[a] \in Bags /\ SubBags(recorded[a]) \subseteq SubBags(recorded'[a])
<1>1. recorded \in [Actors -> Bags] /\ recorded' \in [Actors -> Bags]
  BY DEF IInv, TypeOK, Bags
<1>2. CASE UNCHANGED recorded
  BY <1>1, <1>2
<1>3. ASSUME NEW h \in Handlers, NEW b \in Actors, out[h] \in Outcomes,
             recorded' = [recorded EXCEPT ![b] = Plus(recorded[b], out[h])]
      PROVE  SubBags(recorded[a]) \subseteq SubBags(recorded'[a])
  <2>1. \A o \in Outcomes : recorded[a][o] <= recorded'[a][o]
    <3> SUFFICES ASSUME NEW o \in Outcomes PROVE recorded[a][o] <= recorded'[a][o]
      OBVIOUS
    <3>1. recorded[a][o] \in Nat
      BY <1>1 DEF Bags
    <3>2. recorded'[a][o] = recorded[a][o] \/ recorded'[a][o] = recorded[a][o] + 1
      BY <1>1, <1>3 DEF Plus, Bags
    <3> QED BY <3>1, <3>2
  <2> QED BY <1>1, <2>1, SubBagsGrow
<1>4. \A h \in Handlers : out[h] = NoOutcome \/ out[h] \in Outcomes
  BY DEF IInv, TypeOK
<1> QED BY <1>1, <1>2, <1>3, <1>4, OutcomeSteps

LEMMA InitMeans == Init => MeansInv
  BY DEF Init, MeansInv, RowExplained, OutOK, MeansOK, InMemory

\* Only the number of outcomes and their mean matter.
LEMMA ExplainsSame ==
  ASSUME NEW f, NEW r, NEW q, q.count = r.count, q.track = r.track, Explains(f, r)
  PROVE  Explains(f, q)
  BY DEF Explains

\* The types the steps below start from.
LEMMA MeansTypes ==
  ASSUME IInv
  PROVE  /\ pc \in [Handlers -> Statements \union {"idle", "ok", "error"}]
         /\ who \in [Handlers -> Actors \union {NoActor}]
         /\ out \in [Handlers -> Outcomes \union {NoOutcome}] /\ w \in [Handlers -> Row]
         /\ rows \in [Actors -> Row \union {NoRow}] /\ recorded \in [Actors -> Bags]
         /\ \A h \in Handlers : HandlerOK(h)
         /\ \A h \in Handlers : InMemory(h) => who[h] \in Actors
  BY DEF IInv, TypeOK, HandlerOK, InMemory, Bags

\* A step after which a handler carries what it carried, or nothing.
LEMMA MeansStay ==
  ASSUME IInv, TypeOK', [Next]_vars, MeansInv, NEW g \in Handlers,
         OutOK(g)',
         InMemory(g)' => /\ InMemory(g) /\ who'[g] = who[g] /\ out'[g] = out[g]
                         /\ w'[g].count = w[g].count /\ w'[g].track = w[g].track
  PROVE  OutOK(g)' /\ MeansOK(g)'
<1> SUFFICES ASSUME InMemory(g)'
             PROVE  \E f \in SubBags(recorded'[who[g]]) : Carries(g, f)'
  BY DEF MeansOK
<1>1. who[g] \in Actors
  BY MeansTypes
<1>2. PICK f \in SubBags(recorded[who[g]]) : Carries(g, f)
  BY DEF MeansInv, MeansOK
<1>3. f \in SubBags(recorded'[who[g]])
  BY <1>1, <1>2, RecordedGrows
<1>4. Carries(g, f)'
  <2>1. PICK b : b = IF out[g] = NoOutcome THEN f ELSE Plus(f, out[g])
    OBVIOUS
  <2>2. Explains(b, w[g])
    BY <1>2, <2>1 DEF Carries
  <2>3. PICK r, q : r = w[g] /\ q = w'[g]
    OBVIOUS
  <2>4. Explains(b, q)
    BY <2>2, <2>3, ExplainsSame
  <2>5. Explains(b, w[g])'
    BY <2>3, <2>4
  <2> QED BY <2>1, <2>5 DEF Carries, Plus
<1> QED BY <1>3, <1>4

\* The reading steps put into memory what the table stands for.
LEMMA MeansRead ==
  ASSUME IInv, MeansInv, NEW h \in Handlers, ReadOrDefault(h) \/ ReadAndAdd(h)
  PROVE  OutOK(h)' /\ MeansOK(h)'
<1> USE MeansTypes DEF tables, Goto
<1>0. UNCHANGED <<rows, recorded, who, out>>
  BY DEF ReadOrDefault, ReadAndAdd
<1>1. CASE ReadOrDefault(h)
  <2>1. PICK a \in Actors : a = who[h] /\ out[h] = NoOutcome
    BY <1>1 DEF ReadOrDefault, HandlerOK, MeansInv, OutOK
  <2>2. PICK r \in Row : w' = [w EXCEPT ![h] = r] /\ (r = DefaultRow \/ (r = rows[a] /\ rows[a] # NoRow))
    BY <1>1, <2>1, DefaultType DEF ReadOrDefault
  <2>3. \E f \in SubBags(recorded[a]) : Explains(f, r)
    <3>1. CASE r = DefaultRow
      <4>1. recorded[a] \in Bags /\ r.count = 0 /\ r.track = DefaultRow.track
        BY <3>1 DEF DefaultRow
      <4>2. NoneYet \in SubBags(recorded[a]) /\ NoneYet \in Bags /\ \A o \in Outcomes : NoneYet[o] = 0
        BY <4>1, NoneIsSub DEF NoneYet
      <4> QED BY <4>1, <4>2, ExplainsNone
    <3>2. CASE r = rows[a] /\ rows[a] # NoRow
      BY <3>2 DEF MeansInv, RowExplained
    <3> QED BY <2>2, <3>1, <3>2
  <2>4. pc'[h] = "GetAlpha" /\ w'[h] = r
    BY <1>1, <2>2 DEF ReadOrDefault
  <2> QED BY <1>0, <2>1, <2>3, <2>4 DEF OutOK, MeansOK, InMemory, Carries
<1>2. CASE ReadAndAdd(h)
  <2>1. PICK a \in Actors, o \in Outcomes : a = who[h] /\ o = out[h]
    BY <1>2 DEF ReadAndAdd, HandlerOK
  <2>2. CASE rows[a] = NoRow
    BY <1>2, <2>1, <2>2 DEF ReadAndAdd, OutOK, MeansOK, InMemory
  <2>3. CASE rows[a] # NoRow
    <3>1. PICK r \in Row : r = rows[a]
      BY <2>3
    <3>2. PICK f \in SubBags(recorded[a]) : Explains(f, r)
      BY <2>3, <3>1 DEF MeansInv, RowExplained
    <3>3. f \in Bags
      BY <3>2, SubBagsAre
    <3>4. Explains(Plus(f, o), AddOutcome(r, o))
      BY <3>2, <3>3, ExplainsNext
    <3>5. pc'[h] = "GetAlpha" /\ w'[h] = AddOutcome(r, o)
      BY <1>2, <2>1, <2>3, <3>1 DEF ReadAndAdd
    <3>6. o # NoOutcome
      BY WeightsAssumption DEF WeightsAssumption
    <3>7. PICK q : q = AddOutcome(r, o)
      OBVIOUS
    <3> QED BY <1>0, <2>1, <3>2, <3>4, <3>5, <3>6, <3>7
            DEF OutOK, MeansOK, InMemory, Carries, Plus
  <2> QED BY <2>2, <2>3
<1> QED BY <1>1, <1>2

LEMMA NextMeansHandlers ==
  ASSUME IInv, TypeOK', [Next]_vars, MeansInv, NEW g \in Handlers
  PROVE  OutOK(g)' /\ MeansOK(g)'
<1> USE MeansTypes DEF tables, locals, Goto
<1>0. OutOK(g)
  BY DEF MeansInv
<1>1. ASSUME NEW h \in Handlers, Begin(h) PROVE OutOK(g)' /\ MeansOK(g)'
  <2>1. OutOK(g)' /\ (InMemory(g)' => g # h)
    <3>1. ASSUME NEW a \in Actors, BeginCompute(h, a) PROVE OutOK(g)' /\ (InMemory(g)' => g # h)
      BY <1>0, <3>1 DEF BeginCompute, Accept, OutOK, InMemory
    <3>2. ASSUME NEW a \in Actors, NEW o \in Outcomes, BeginOutcome(h, a, o)
          PROVE  OutOK(g)' /\ (InMemory(g)' => g # h)
      BY <1>0, <3>2 DEF BeginOutcome, Accept, OutOK, InMemory
    <3>3. ASSUME NEW a \in Alphas, BeginAlpha(h, a) PROVE OutOK(g)' /\ (InMemory(g)' => g # h)
      BY <1>0, <3>3 DEF BeginAlpha, Accept, OutOK, InMemory
    <3> QED BY <1>1, <3>1, <3>2, <3>3 DEF Begin
  <2>2. g # h => /\ pc'[g] = pc[g] /\ who'[g] = who[g] /\ out'[g] = out[g] /\ w'[g] = w[g]
    BY <1>1 DEF Begin, BeginCompute, BeginOutcome, BeginAlpha, Accept
  <2> QED BY <2>1, <2>2, MeansStay DEF InMemory
<1>2. ASSUME NEW h \in Handlers, ReadOrDefault(h) \/ ReadAndAdd(h)
      PROVE  OutOK(g)' /\ MeansOK(g)'
  <2>1. CASE g = h
    BY <1>2, <2>1, MeansRead
  <2>2. CASE g # h
    <3>1. pc'[g] = pc[g] /\ who'[g] = who[g] /\ out'[g] = out[g] /\ w'[g] = w[g]
      BY <1>2, <2>2 DEF ReadOrDefault, ReadAndAdd
    <3> QED BY <1>0, <3>1, MeansStay DEF OutOK, InMemory
  <2> QED BY <2>1, <2>2
<1>3. ASSUME NEW h \in Handlers, GetAlpha(h) PROVE OutOK(g)' /\ MeansOK(g)'
  <2>1. PICK c : w' = [w EXCEPT ![h].score = Score(c, w[h].track)]
    BY <1>3 DEF GetAlpha
  <2>2. w'[g].count = w[g].count /\ w'[g].track = w[g].track
    BY <2>1 DEF Row
  <2>3. /\ who' = who /\ out' = out /\ pc[h] = "GetAlpha" /\ pc' = [pc EXCEPT ![h] = "UpsertWeight"]
    BY <1>3 DEF GetAlpha
  <2> QED BY <1>0, <2>2, <2>3, MeansStay DEF OutOK, InMemory
<1>4. ASSUME NEW h \in Handlers,
             UpsertWeight(h) \/ AlphaMax(h) \/ AlphaInsert(h) \/ StatementFails(h)
      PROVE  OutOK(g)' /\ MeansOK(g)'
  <2>1. /\ who' = who /\ out' = out /\ w' = w
        /\ pc'[g] = pc[g] \/ pc'[g] \in {"ok", "error"} \/ (pc[g] = "alpha.Max" /\ pc'[g] = "alpha.Insert")
    BY <1>4 DEF UpsertWeight, Written, AlphaMax, AlphaInsert, StatementFails
  <2> QED BY <1>0, <2>1, MeansStay DEF OutOK, InMemory
<1>5. ASSUME NEW h \in Handlers, Respond(h) PROVE OutOK(g)' /\ MeansOK(g)'
  <2>1. CASE g = h
    BY <1>5, <2>1 DEF Respond, OutOK, MeansOK, InMemory
  <2>2. CASE g # h
    <3>1. pc'[g] = pc[g] /\ who'[g] = who[g] /\ out'[g] = out[g] /\ w'[g] = w[g]
      BY <1>5, <2>2 DEF Respond
    <3> QED BY <1>0, <3>1, MeansStay DEF OutOK, InMemory
  <2> QED BY <2>1, <2>2
<1>6. ASSUME Crash PROVE OutOK(g)' /\ MeansOK(g)'
  BY <1>6 DEF Crash, OutOK, MeansOK, InMemory
<1>7. ASSUME UNCHANGED vars PROVE OutOK(g)' /\ MeansOK(g)'
  <2>1. pc' = pc /\ who' = who /\ out' = out /\ w' = w
    BY <1>7 DEF vars
  <2> QED BY <1>0, <2>1, MeansStay DEF OutOK, InMemory
<1> QED BY <1>1, <1>2, <1>3, <1>4, <1>5, <1>6, <1>7 DEF Next, Step

LEMMA NextMeansRows ==
  ASSUME IInv, TypeOK', [Next]_vars, MeansInv
  PROVE  RowExplained'
<1> SUFFICES ASSUME NEW b \in Actors, rows'[b] # NoRow
             PROVE  \E f \in SubBags(recorded'[b]) : Explains(f, rows'[b])
  BY DEF RowExplained
<1>1. CASE rows'[b] = rows[b]
  <2>1. PICK f \in SubBags(recorded[b]) : Explains(f, rows[b])
    BY <1>1 DEF MeansInv, RowExplained
  <2>2. f \in SubBags(recorded'[b])
    BY RecordedGrows
  <2> QED BY <1>1, <2>1, <2>2
<1>2. ASSUME NEW h \in Handlers, UpsertWeight(h), b = who[h],
             rows' = [rows EXCEPT ![b] = w[h]],
             recorded' = IF out[h] = NoOutcome THEN recorded
                         ELSE [recorded EXCEPT ![b] = Plus(recorded[b], out[h])]
      PROVE  \E f \in SubBags(recorded'[b]) : Explains(f, rows'[b])
  <2>1. PICK f \in SubBags(recorded[b]) : Carries(h, f)
    BY <1>2 DEF UpsertWeight, Written, MeansInv, MeansOK, InMemory
  <2>2. rows'[b] = w[h]
    BY <1>2, MeansTypes
  <2>3. CASE out[h] = NoOutcome
    BY <1>2, <2>1, <2>2, <2>3 DEF Carries
  <2>4. CASE out[h] # NoOutcome
    <3>1. PICK o \in Outcomes : o = out[h]
      BY <2>4, MeansTypes
    <3>2. recorded[b] \in Bags /\ recorded'[b] = Plus(recorded[b], o)
      BY <1>2, <2>4, <3>1, MeansTypes
    <3>3. f \in Bags /\ \A p \in Outcomes : f[p] <= recorded[b][p]
      BY <2>1, <3>2, SubBagsAre
    <3>4. Plus(f, o) \in Bags /\ Plus(recorded[b], o) \in Bags
      BY <3>2, <3>3, PlusSums
    <3>5. \A p \in Outcomes : Plus(f, o)[p] <= Plus(recorded[b], o)[p]
      <4> SUFFICES ASSUME NEW p \in Outcomes PROVE Plus(f, o)[p] <= Plus(recorded[b], o)[p]
        OBVIOUS
      <4>1. f[p] \in Nat /\ recorded[b][p] \in Nat /\ f[p] <= recorded[b][p]
        BY <3>2, <3>3 DEF Bags
      <4>2. /\ Plus(f, o)[p] = IF p = o THEN f[p] + 1 ELSE f[p]
            /\ Plus(recorded[b], o)[p] = IF p = o THEN recorded[b][p] + 1 ELSE recorded[b][p]
        BY <3>2, <3>3 DEF Plus, Bags
      <4> QED BY <4>1, <4>2
    <3>6. Plus(f, o) \in SubBags(recorded'[b])
      BY <3>2, <3>4, <3>5, SubBagsAre
    <3>7. Explains(Plus(f, o), rows'[b])
      BY <2>1, <2>2, <2>4, <3>1 DEF Carries
    <3> QED BY <3>6, <3>7
  <2> QED BY <2>3, <2>4
<1>3. \/ rows'[b] = rows[b]
      \/ \E h \in Handlers : /\ UpsertWeight(h) /\ b = who[h]
                             /\ rows' = [rows EXCEPT ![b] = w[h]]
                             /\ recorded' = IF out[h] = NoOutcome THEN recorded
                                            ELSE [recorded EXCEPT ![b] = Plus(recorded[b], out[h])]
  BY OutcomeSteps, MeansTypes
<1> QED BY <1>1, <1>2, <1>3

(***************************************************************************)
(* SerialInv: with one request at a time and no failures, a row stands for *)
(* all the outcomes that were recorded.                                    *)
(***************************************************************************)
Serial == MaxInFlight = 1 /\ ~ Faults

OneBusy == \A g, h \in Busy : g = h

SerialRow(a) ==
  IF rows[a] = NoRow THEN recorded[a] = NoneYet ELSE Explains(recorded[a], rows[a])

SerialOK(h) ==
  InMemory(h) => /\ Carries(h, recorded[who[h]])
                 /\ out[h] # NoOutcome => rows[who[h]] # NoRow

SerialInv ==
  OneBusy /\ (\A a \in Actors : SerialRow(a)) /\ (\A h \in Handlers : SerialOK(h))

LEMMA InitSerial == Init => SerialInv
  BY DEF Init, SerialInv, OneBusy, Busy, SerialRow, SerialOK, InMemory, NoneYet

\* Requests are accepted one at a time, and no step but an accepting one
\* makes a handler busy.
LEMMA NextOneBusy ==
  ASSUME IInv, [Next]_vars, Serial, OneBusy
  PROVE  OneBusy'
<1> USE MeansTypes DEF Goto
<1>1. ASSUME NEW h \in Handlers, NEW l, Accept(h, l) PROVE OneBusy'
  <2>1. IsFiniteSet(Busy)
    BY FS_Subset, WeightsAssumption DEF WeightsAssumption, Busy
  <2>2. Cardinality(Busy) \in Nat /\ Cardinality(Busy) < 1
    BY <1>1, <2>1, FS_CardinalityType DEF Accept, Serial
  <2>3. Busy = {}
    BY <2>1, <2>2, FS_EmptySet
  <2>4. pc' = [pc EXCEPT ![h] = l]
    BY <1>1 DEF Accept
  <2> QED BY <2>3, <2>4 DEF OneBusy, Busy
<1>2. ASSUME NEW h \in Handlers, Begin(h) PROVE OneBusy'
  BY <1>1, <1>2 DEF Begin, BeginCompute, BeginOutcome, BeginAlpha
<1>3. ASSUME NEW h \in Handlers, pc[h] # "idle", NEW l, pc' = [pc EXCEPT ![h] = l] PROVE OneBusy'
  BY <1>3 DEF OneBusy, Busy
<1>4. ASSUME NEW h \in Handlers, Step(h) PROVE OneBusy'
  BY <1>3, <1>4 DEF Step, ReadOrDefault, ReadAndAdd, GetAlpha, UpsertWeight, Written, AlphaMax,
                    AlphaInsert, Respond
<1>5. CASE UNCHANGED vars
  BY <1>5 DEF vars, OneBusy, Busy
<1> QED BY <1>2, <1>4, <1>5 DEF Next, Serial, StatementFails, Crash

\* A step that leaves the tables alone and puts no new row into memory.
LEMMA SerialStay ==
  ASSUME SerialInv, OneBusy', UNCHANGED <<rows, recorded>>,
         \A g \in Handlers :
           InMemory(g)' => /\ InMemory(g) /\ who'[g] = who[g] /\ out'[g] = out[g]
                           /\ w'[g].count = w[g].count /\ w'[g].track = w[g].track
  PROVE  SerialInv'
<1>1. \A a \in Actors : SerialRow(a)'
  BY DEF SerialInv, SerialRow
<1>2. ASSUME NEW g \in Handlers, InMemory(g)' PROVE SerialOK(g)'
  <2>1. PICK b : b = IF out[g] = NoOutcome THEN recorded[who[g]] ELSE Plus(recorded[who[g]], out[g])
    OBVIOUS
  <2>2. Explains(b, w[g]) /\ (out[g] # NoOutcome => rows[who[g]] # NoRow)
    BY <1>2, <2>1 DEF SerialInv, SerialOK, Carries
  <2>3. PICK r, q : r = w[g] /\ q = w'[g]
    OBVIOUS
  <2>4. Explains(b, q)
    BY <1>2, <2>2, <2>3, ExplainsSame
  <2>5. Explains(b, w[g])'
    BY <2>3, <2>4
  <2> QED BY <1>2, <2>1, <2>2, <2>5 DEF SerialOK, Carries, Plus
<1> QED BY <1>1, <1>2 DEF SerialInv, SerialOK

\* A step of h that leaves the tables alone: all others are idle.
LEMMA SerialAlone ==
  ASSUME IInv, SerialInv, OneBusy', UNCHANGED <<rows, recorded>>, NEW h \in Handlers,
         pc[h] # "idle", \A g \in Handlers : g # h => pc'[g] = pc[g], SerialOK(h)'
  PROVE  SerialInv'
<1>1. \A a \in Actors : SerialRow(a)'
  BY DEF SerialInv, SerialRow
<1>2. \A g \in Handlers : g # h => ~ InMemory(g)'
  BY DEF SerialInv, OneBusy, Busy, InMemory
<1> QED BY <1>1, <1>2 DEF SerialInv, SerialOK

LEMMA NextSerial ==
  ASSUME IInv, TypeOK', [Next]_vars, MeansInv, Serial, SerialInv
  PROVE  SerialInv'
<1> USE MeansTypes DEF tables, locals, Goto
<1>0. OneBusy'
  BY NextOneBusy DEF SerialInv
<1>1. ASSUME NEW h \in Handlers, Begin(h) PROVE SerialInv'
  <2>1. UNCHANGED <<rows, recorded, w>>
    BY <1>1 DEF Begin, BeginCompute, BeginOutcome, BeginAlpha, Accept
  <2>2. PICK l : /\ pc' = [pc EXCEPT ![h] = l]
                 /\ l \in {"compute.GetWeight", "outcome.GetWeight", "alpha.Max", "error"}
    BY <1>1 DEF Begin, BeginCompute, BeginOutcome, BeginAlpha, Accept
  <2>3. \A g \in Handlers : InMemory(g)' => InMemory(g) /\ g # h
    BY <2>2 DEF InMemory
  <2>4. \A g \in Handlers : g # h => who'[g] = who[g] /\ out'[g] = out[g]
    BY <1>1 DEF Begin, BeginCompute, BeginOutcome, BeginAlpha
  <2> QED BY <1>0, <2>1, <2>3, <2>4, SerialStay
<1>2. ASSUME NEW h \in Handlers, ReadOrDefault(h) PROVE SerialInv'
  <2>1. PICK a \in Actors : a = who[h] /\ out[h] = NoOutcome
    BY <1>2 DEF ReadOrDefault, HandlerOK, MeansInv, OutOK
  <2>2. PICK r \in Row : /\ w' = [w EXCEPT ![h] = r]
                         /\ r = IF rows[a] = NoRow THEN DefaultRow ELSE rows[a]
    BY <1>2, <2>1, DefaultType DEF ReadOrDefault, Serial
  <2>3. Explains(recorded[a], r)
    <3>1. CASE rows[a] = NoRow
      <4>1. recorded[a] \in Bags /\ recorded[a] = NoneYet /\ r.count = 0 /\ r.track = DefaultRow.track
        BY <2>2, <3>1 DEF SerialInv, SerialRow, DefaultRow
      <4> QED BY <4>1, ExplainsNone DEF NoneYet
    <3>2. CASE rows[a] # NoRow
      BY <2>2, <3>2 DEF SerialInv, SerialRow
    <3> QED BY <3>1, <3>2
  <2>4. /\ pc[h] # "idle" /\ w'[h] = r /\ UNCHANGED <<rows, recorded, who, out>>
        /\ \A g \in Handlers : g # h => pc'[g] = pc[g]
    BY <1>2, <2>2 DEF ReadOrDefault
  <2>5. SerialOK(h)'
    BY <2>1, <2>3, <2>4 DEF SerialOK, Carries
  <2> QED BY <1>0, <2>4, <2>5, SerialAlone
<1>3. ASSUME NEW h \in Handlers, ReadAndAdd(h) PROVE SerialInv'
  <2>1. PICK a \in Actors, o \in Outcomes : a = who[h] /\ o = out[h]
    BY <1>3 DEF ReadAndAdd, HandlerOK
  <2>2. /\ pc[h] # "idle" /\ UNCHANGED <<rows, recorded, who, out>>
        /\ \A g \in Handlers : g # h => pc'[g] = pc[g]
    BY <1>3 DEF ReadAndAdd
  <2>3. SerialOK(h)'
    <3>1. CASE rows[a] = NoRow
      BY <1>3, <2>1, <3>1 DEF ReadAndAdd, SerialOK, InMemory
    <3>2. CASE rows[a] # NoRow
      <4>1. PICK r \in Row : r = rows[a]
        BY <3>2
      <4>2. Explains(Plus(recorded[a], o), AddOutcome(r, o))
        BY <3>2, <4>1, ExplainsNext DEF SerialInv, SerialRow
      <4>3. w'[h] = AddOutcome(r, o) /\ o # NoOutcome
        BY <1>3, <2>1, <3>2, <4>1, WeightsAssumption DEF ReadAndAdd, WeightsAssumption
      <4>4. PICK q : q = AddOutcome(r, o)
        OBVIOUS
      <4> QED BY <2>1, <2>2, <3>2, <4>2, <4>3, <4>4 DEF SerialOK, Carries, Plus
    <3> QED BY <3>1, <3>2
  <2> QED BY <1>0, <2>2, <2>3, SerialAlone
<1>4. ASSUME NEW h \in Handlers, GetAlpha(h) PROVE SerialInv'
  <2>1. PICK c : w' = [w EXCEPT ![h].score = Score(c, w[h].track)]
    BY <1>4 DEF GetAlpha
  <2>2. \A g \in Handlers : w'[g].count = w[g].count /\ w'[g].track = w[g].track
    BY <2>1 DEF Row
  <2>3. /\ UNCHANGED <<rows, recorded, who, out>> /\ pc[h] = "GetAlpha"
        /\ pc' = [pc EXCEPT ![h] = "UpsertWeight"]
    BY <1>4 DEF GetAlpha
  <2> QED BY <1>0, <2>2, <2>3, SerialStay DEF InMemory
<1>5. ASSUME NEW h \in Handlers, UpsertWeight(h) PROVE SerialInv'
  <2>1. PICK a \in Actors : a = who[h]
    BY <1>5 DEF UpsertWeight, Written, InMemory
  <2>2. /\ pc[h] = "UpsertWeight" /\ pc' = [pc EXCEPT ![h] = "ok"]
        /\ rows' = [rows EXCEPT ![a] = w[h]] /\ w[h] \in Row /\ w[h] # NoRow
        /\ recorded' = IF out[h] = NoOutcome THEN recorded
                       ELSE [recorded EXCEPT ![a] = Plus(recorded[a], out[h])]
    BY <1>5, <2>1, WeightsAssumption DEF UpsertWeight, Written, Plus, WeightsAssumption
  <2>3. Explains(recorded'[a], rows'[a])
    BY <2>1, <2>2 DEF SerialInv, SerialOK, InMemory, Carries
  <2>4. SerialRow(a)'
    <3>1. rows'[a] # NoRow
      BY <2>2
    <3>2. Explains(recorded[a], rows[a])'
      BY <2>3
    <3> QED BY <3>1, <3>2 DEF SerialRow
  <2>5. ASSUME NEW b \in Actors, b # a PROVE SerialRow(b)'
    <3>1. rows'[b] = rows[b] /\ recorded'[b] = recorded[b]
      BY <2>2, <2>5
    <3> QED BY <3>1 DEF SerialInv, SerialRow
  <2>6. \A g \in Handlers : ~ InMemory(g)'
    BY <2>2 DEF SerialInv, OneBusy, Busy, InMemory
  <2> QED BY <1>0, <2>4, <2>5, <2>6 DEF SerialInv, SerialOK
<1>6. ASSUME NEW h \in Handlers, AlphaMax(h) \/ AlphaInsert(h) PROVE SerialInv'
  <2>1. /\ UNCHANGED <<rows, recorded, who, out, w>>
        /\ \A g \in Handlers : pc'[g] = pc[g] \/ pc'[g] \in {"alpha.Insert", "ok"}
    BY <1>6 DEF AlphaMax, AlphaInsert
  <2> QED BY <1>0, <2>1, SerialStay DEF InMemory
<1>7. ASSUME NEW h \in Handlers, Respond(h) PROVE SerialInv'
  <2>1. /\ UNCHANGED <<rows, recorded>> /\ pc' = [pc EXCEPT ![h] = "idle"]
        /\ \A g \in Handlers : g # h => who'[g] = who[g] /\ out'[g] = out[g] /\ w'[g] = w[g]
    BY <1>7 DEF Respond
  <2> QED BY <1>0, <2>1, SerialStay DEF InMemory
<1>8. CASE UNCHANGED vars
  BY <1>0, <1>8, SerialStay DEF vars, InMemory
<1> QED
  BY <1>1, <1>2, <1>3, <1>4, <1>5, <1>6, <1>7, <1>8 DEF Next, Step, Serial, StatementFails, Crash
-----------------------------------------------------------------------------
\* Both invariants hold in every reachable state.
THEOREM MeansInvariant == Spec => [](MeansInv /\ (Serial => SerialInv))
<1>1. IInv /\ [Next]_vars => TypeOK'
  BY NextTypes
<1>2. IInv /\ TypeOK' /\ MeansInv /\ [Next]_vars => MeansInv'
  BY NextMeansRows, NextMeansHandlers DEF MeansInv
<1>3. Serial' = Serial
  BY DEF Serial
<1>4. IInv /\ TypeOK' /\ MeansInv /\ (Serial => SerialInv) /\ [Next]_vars => (Serial => SerialInv)'
  BY <1>3, NextSerial
<1> QED BY <1>1, <1>2, <1>4, InitMeans, InitSerial, Invariant, PTL DEF Spec

\* A row is the mean of outcomes that were recorded for its actor, each
\* counted at most once, however calls interleave, fail or are repeated.
THEOREM Explained == Spec => []RowExplained
<1>1. MeansInv => RowExplained
  BY DEF MeansInv
<1> QED BY <1>1, MeansInvariant, PTL

\* Served one at a time, no outcome is lost: a row stands for all of them.
THEOREM Exact == Spec => []SerialExact
<1>1. (Serial => SerialInv) => SerialExact
  BY DEF SerialInv, SerialRow, SerialExact, AllRecorded, Serial
<1> QED BY <1>1, MeansInvariant, PTL
=============================================================================
