------------------------------- MODULE Weights -------------------------------
(***************************************************************************)
(* Decision weights (internal/domain/evolution): ComputeWeight and         *)
(* RecordOutcome read the row of an actor, change it in memory and write   *)
(* the whole row back; UpdateAlpha adds a version of the coefficients.     *)
(* Handlers and statements are as in Workflow.                             *)
(*                                                                         *)
(* Scores are multiples of 1/Unit.  Of the six components only the track   *)
(* record ever moves: expertise, reliability and principle keep their      *)
(* default 0.5, context fit is (0.5 + 0.5) / 2 = 0.5 after every outcome   *)
(* and recency 1.  The track record is an exact fraction here and a float  *)
(* in the code.                                                            *)
(***************************************************************************)
EXTENDS Integers, FiniteSets, FiniteSetsExt

CONSTANTS
  Actors,         \* pairs of actor id and type
  Handlers,       \* goroutines that serve requests
  Unit,           \* the integer that stands for a score of 1.0
  Outcomes,       \* outcome scores clients post: any float64, finitely many
  Alphas,         \* coefficients clients post, in hundredths
  Faults,         \* may statements fail and processes crash?
  MaxInFlight,    \* requests served at the same time
  MaxRequests,    \* bound on the requests ever accepted
  NoRow, NoOutcome, NoActor

Components == {"expertise", "track", "reliability", "recency", "fit", "principle"}
DefaultAlpha == [expertise |-> 25, track |-> 20, reliability |-> 15,
                 recency |-> 10, fit |-> 10, principle |-> 20]

\* The columns of weight_scores that vary.
Row == [count : Nat,
        track : [num : Int, den : Nat \ {0}],
        score : [num : Int, den : Nat \ {0}]]

ASSUME WeightsAssumption ==
  /\ Unit \in Nat \ {0} /\ Unit % 2 = 0
  /\ Outcomes \subseteq Int /\ IsFiniteSet(Outcomes) /\ NoOutcome \notin Outcomes
  /\ Alphas \subseteq [Components -> Int]
  /\ Faults \in BOOLEAN
  /\ IsFiniteSet(Handlers) /\ MaxInFlight \in Nat /\ MaxRequests \in Nat
  /\ NoActor \notin Actors /\ NoRow \notin Row

VARIABLES
  rows,        \* weight_scores: the row of each actor
  versions,    \* weight_alphas: records [version, alpha]
  recorded,    \* history: how often each outcome was committed for an actor
  accepted,    \* requests accepted so far
  pc,          \* next statement of each handler
  who, out,    \* actor and outcome of the request
  w,           \* the row in memory
  cfg, top     \* coefficients to store; the MAX(version) their insert saw

tables == <<rows, versions, recorded>>
locals == <<who, out, w, cfg, top>>
vars == <<tables, accepted, pc, locals>>

Half == Unit \div 2
Fraction(n, d) == [num |-> n, den |-> d]

\* What ComputeWeight starts from when the read returns an error.
DefaultRow == [count |-> 0, track |-> Fraction(Half, 1), score |-> Fraction(Unit, 1)]

\* Mutant: the weighted sum is not capped.
ScoreUncapped(a, t) ==
  Fraction((a.expertise + a.reliability + a.fit + a.principle) * Half * t.den
             + a.recency * Unit * t.den + a.track * t.num,
           100 * t.den)

\* The weighted sum of the six components, capped at 1.0.
Score(a, t) ==
  LET n == (a.expertise + a.reliability + a.fit + a.principle) * Half * t.den
             + a.recency * Unit * t.den + a.track * t.num
      d == 100 * t.den
  IN  IF n > Unit * d THEN Fraction(Unit, 1) ELSE Fraction(n, d)

\* Mutant: the old mean is weighted with the new count.
AddOutcomeLate(r, o) ==
  LET n == r.count + 1
  IN  [r EXCEPT !.count = n, !.track = Fraction(@.num * n + o * @.den, @.den * n)]

\* RecordOutcome's running mean: (track * (n - 1) + outcome) / n.
AddOutcome(r, o) ==
  LET n == r.count + 1
  IN  [r EXCEPT !.count = n, !.track = Fraction(@.num * (n - 1) + o * @.den, @.den * n)]

Total(a) == a.expertise + a.track + a.reliability + a.recency + a.fit + a.principle
Valid(a) == 95 <= Total(a) /\ Total(a) <= 105

MaxVersion == IF versions = {} THEN 0 ELSE Max({v.version : v \in versions})
Newest == {v.alpha : v \in {u \in versions : u.version = MaxVersion}}

Statements == {"compute.GetWeight", "outcome.GetWeight", "GetAlpha", "UpsertWeight",
               "alpha.Max", "alpha.Insert"}

Goto(h, l) == pc' = [pc EXCEPT ![h] = l]
Busy == {h \in Handlers : pc[h] # "idle"}

(***************************************************************************)
(* Requests arrive and are answered.                                       *)
(***************************************************************************)
Accept(h, l) ==
  /\ pc[h] = "idle"
  /\ accepted < MaxRequests
  /\ Cardinality(Busy) < MaxInFlight
  /\ accepted' = accepted + 1
  /\ Goto(h, l)
  /\ UNCHANGED tables

BeginCompute(h, a) ==
  /\ Accept(h, "compute.GetWeight")
  /\ who' = [who EXCEPT ![h] = a]
  /\ UNCHANGED <<out, w, cfg, top>>

BeginOutcome(h, a, o) ==
  /\ Accept(h, "outcome.GetWeight")
  /\ who' = [who EXCEPT ![h] = a]
  /\ out' = [out EXCEPT ![h] = o]
  /\ UNCHANGED <<w, cfg, top>>

\* UpdateAlpha looks at the sum only.
BeginAlpha(h, a) ==
  /\ Accept(h, IF Valid(a) THEN "alpha.Max" ELSE "error")
  /\ cfg' = [cfg EXCEPT ![h] = a]
  /\ UNCHANGED <<who, out, w, top>>

Respond(h) ==
  /\ pc[h] \in {"ok", "error"}
  /\ Goto(h, "idle")
  /\ who' = [who EXCEPT ![h] = NoActor]
  /\ out' = [out EXCEPT ![h] = NoOutcome]
  /\ w' = [w EXCEPT ![h] = DefaultRow]
  /\ cfg' = [cfg EXCEPT ![h] = DefaultAlpha]
  /\ top' = [top EXCEPT ![h] = 0]
  /\ UNCHANGED <<tables, accepted>>

(***************************************************************************)
(* ComputeWeight and RecordOutcome.                                        *)
(***************************************************************************)
\* Mutant: the row that was read is not used.
ReadDefault(h) ==
  /\ pc[h] = "compute.GetWeight"
  /\ w' = [w EXCEPT ![h] = DefaultRow]
  /\ Goto(h, "GetAlpha")
  /\ UNCHANGED <<tables, accepted, who, out, cfg, top>>

\* Any error counts as "no row yet", also that of a statement that failed.
ReadOrDefault(h) ==
  /\ pc[h] = "compute.GetWeight"
  /\ \/ rows[who[h]] # NoRow /\ w' = [w EXCEPT ![h] = rows[who[h]]]
     \/ (rows[who[h]] = NoRow \/ Faults) /\ w' = [w EXCEPT ![h] = DefaultRow]
  /\ Goto(h, "GetAlpha")
  /\ UNCHANGED <<tables, accepted, who, out, cfg, top>>

\* Mutant: an actor without a row gets the default row, as in ComputeWeight.
ReadAndAddAnyway(h) ==
  LET r == rows[who[h]]
  IN  /\ pc[h] = "outcome.GetWeight"
      /\ w' = [w EXCEPT ![h] = AddOutcome(IF r = NoRow THEN DefaultRow ELSE r, out[h])]
      /\ Goto(h, "GetAlpha")
      /\ UNCHANGED <<tables, accepted, who, out, cfg, top>>

ReadAndAdd(h) ==
  LET r == rows[who[h]]
  IN  /\ pc[h] = "outcome.GetWeight"
      /\ \/ r = NoRow /\ Goto(h, "error") /\ UNCHANGED w
         \/ r # NoRow /\ Goto(h, "GetAlpha") /\ w' = [w EXCEPT ![h] = AddOutcome(r, out[h])]
      /\ UNCHANGED <<tables, accepted, who, out, cfg, top>>

\* The newest coefficients - any of them when several rows have the highest
\* version - or the default ones when there is no row or the read fails.
GetAlpha(h) ==
  /\ pc[h] = "GetAlpha"
  /\ \E a \in Newest \union (IF versions = {} \/ Faults THEN {DefaultAlpha} ELSE {}) :
       w' = [w EXCEPT ![h].score = Score(a, w[h].track)]
  /\ Goto(h, "UpsertWeight")
  /\ UNCHANGED <<tables, accepted, who, out, cfg, top>>

Written(h) ==
  /\ pc[h] = "UpsertWeight"
  /\ recorded' = IF out[h] = NoOutcome THEN recorded
                                       ELSE [recorded EXCEPT ![who[h]][out[h]] = @ + 1]
  /\ Goto(h, "ok")
  /\ UNCHANGED <<versions, accepted, locals>>

\* Mutant: DO UPDATE SET forgets overall_score.
UpsertKeepsScore(h) ==
  /\ Written(h)
  /\ rows' = [rows EXCEPT ![who[h]] =
                IF @ = NoRow THEN w[h] ELSE [w[h] EXCEPT !.score = rows[who[h]].score]]

UpsertWeight(h) ==
  /\ Written(h)
  /\ rows' = [rows EXCEPT ![who[h]] = w[h]]

(***************************************************************************)
(* UpdateAlpha is one statement, but its subquery reads a snapshot that    *)
(* other statements may overtake before the row is inserted.               *)
(***************************************************************************)
AlphaMax(h) ==
  /\ pc[h] = "alpha.Max"
  /\ top' = [top EXCEPT ![h] = MaxVersion]
  /\ Goto(h, "alpha.Insert")
  /\ UNCHANGED <<tables, accepted, who, out, w, cfg>>

\* Mutant: the version is MAX(version), not MAX(version) + 1.
InsertSameVersion(h) ==
  /\ pc[h] = "alpha.Insert"
  /\ versions' = versions \union {[version |-> top[h], alpha |-> cfg[h]]}
  /\ Goto(h, "ok")
  /\ UNCHANGED <<rows, recorded, accepted, locals>>

\* Mutant: the version is taken from the number of calls.
InsertByCount(h) ==
  /\ pc[h] = "alpha.Insert"
  /\ versions' = versions \union {[version |-> accepted, alpha |-> cfg[h]]}
  /\ Goto(h, "ok")
  /\ UNCHANGED <<rows, recorded, accepted, locals>>

AlphaInsert(h) ==
  /\ pc[h] = "alpha.Insert"
  /\ versions' = versions \union {[version |-> top[h] + 1, alpha |-> cfg[h]]}
  /\ Goto(h, "ok")
  /\ UNCHANGED <<rows, recorded, accepted, locals>>

(***************************************************************************)
(* Failures, as in Workflow; the reads whose error the service swallows    *)
(* are not among them.                                                     *)
(***************************************************************************)
StatementFails(h) ==
  /\ Faults
  /\ pc[h] \in (Statements \ {"compute.GetWeight", "GetAlpha"}) \union {"ok"}
  /\ Goto(h, "error")
  /\ UNCHANGED <<tables, accepted, locals>>

Crash ==
  /\ Faults /\ Busy # {}
  /\ pc' = [h \in Handlers |-> "idle"]
  /\ who' = [h \in Handlers |-> NoActor]
  /\ out' = [h \in Handlers |-> NoOutcome]
  /\ w' = [h \in Handlers |-> DefaultRow]
  /\ cfg' = [h \in Handlers |-> DefaultAlpha]
  /\ top' = [h \in Handlers |-> 0]
  /\ UNCHANGED <<tables, accepted>>

Init ==
  /\ rows = [a \in Actors |-> NoRow]
  /\ versions = {}
  /\ recorded = [a \in Actors |-> [o \in Outcomes |-> 0]]
  /\ accepted = 0
  /\ pc = [h \in Handlers |-> "idle"]
  /\ who = [h \in Handlers |-> NoActor]
  /\ out = [h \in Handlers |-> NoOutcome]
  /\ w = [h \in Handlers |-> DefaultRow]
  /\ cfg = [h \in Handlers |-> DefaultAlpha]
  /\ top = [h \in Handlers |-> 0]

Begin(h) ==
  \/ \E a \in Actors : BeginCompute(h, a) \/ \E o \in Outcomes : BeginOutcome(h, a, o)
  \/ \E a \in Alphas : BeginAlpha(h, a)

Step(h) ==
  \/ ReadOrDefault(h) \/ ReadAndAdd(h) \/ GetAlpha(h) \/ UpsertWeight(h)
  \/ AlphaMax(h) \/ AlphaInsert(h) \/ Respond(h)

Next ==
  \/ \E h \in Handlers : Begin(h) \/ Step(h) \/ StatementFails(h)
  \/ Crash

Spec == Init /\ [][Next]_vars
-----------------------------------------------------------------------------
(***************************************************************************)
(* Properties.                                                             *)
(***************************************************************************)
\* Every variable has its type; versions start at 1.
TypeOK ==
  /\ rows \in [Actors -> Row \union {NoRow}]
  /\ versions \subseteq [version : Nat \ {0}, alpha : [Components -> Int]]
  /\ recorded \in [Actors -> [Outcomes -> Nat]]
  /\ accepted \in Nat
  /\ pc \in [Handlers -> Statements \union {"idle", "ok", "error"}]
  /\ who \in [Handlers -> Actors \union {NoActor}]
  /\ out \in [Handlers -> Outcomes \union {NoOutcome}]
  /\ w \in [Handlers -> Row]
  /\ cfg \in [Handlers -> [Components -> Int]]
  /\ top \in [Handlers -> Nat]

SumOfAll(f) == MapThenSumSet(LAMBDA o : f[o], Outcomes)

\* Row r is what RecordOutcome makes of f[o] outcomes o: their number, and
\* their mean.
Explains(f, r) ==
  /\ r.count = SumOfAll(f)
  /\ IF r.count = 0
       THEN r.track = DefaultRow.track
       ELSE r.track.num * r.count = r.track.den * SumOfAll([o \in Outcomes |-> o * f[o]])

SubBags(b) ==
  {f \in [Outcomes -> UNION {0 .. b[o] : o \in Outcomes}] : \A o \in Outcomes : f[o] <= b[o]}

\* The record of an actor is the mean of outcomes that were reported for it,
\* each counted at most once: concurrent, failed and repeated calls may lose
\* outcomes but never count one twice or mix two means.
RowExplained ==
  \A a \in Actors : rows[a] # NoRow => \E f \in SubBags(recorded[a]) : Explains(f, rows[a])

\* The stored score is the score of the stored components, under some
\* coefficients that were in force: a row is never half of one write and
\* half of another.
ScoreMatches ==
  \A a \in Actors : rows[a] # NoRow =>
    \E c \in {DefaultAlpha} \union {v.alpha : v \in versions} :
      rows[a].score = Score(c, rows[a].track)

\* A stored score never exceeds 1.0, though the coefficients may add up to
\* 1.05 and outcomes are not checked; it is not negative as long as clients
\* post nothing negative.
ScoreInRange ==
  \A a \in Actors : rows[a] # NoRow =>
    /\ rows[a].score.num <= Unit * rows[a].score.den
    /\ (\A o \in Outcomes : o >= 0) /\ (\A c \in Alphas, x \in Components : c[x] >= 0) =>
         rows[a].score.num >= 0

\* Concurrent updates of the coefficients may share a version, but leave no
\* gap: there is a row for every version up to the newest.
VersionsDense == {v.version : v \in versions} = 1 .. MaxVersion

\* Only requests that are in flight together share a version (the subquery of
\* UpdateAlpha reads MAX(version), and no constraint refuses a second row): a
\* version never stands for more coefficients than requests are served at the
\* same time, and served one at a time each update has a version of its own.
VersionsShared ==
  \A n \in {v.version : v \in versions} :
    Cardinality({v \in versions : v.version = n}) <= MaxInFlight

\* Only ComputeWeight makes an actor known, with an empty record: an outcome
\* for an actor without a row is refused.
FirstIsNeutral ==
  [][\A a \in Actors : rows[a] = NoRow /\ rows'[a] # NoRow =>
       rows'[a].count = 0 /\ rows'[a].track = DefaultRow.track]_vars

\* Between requests, a row stands for every outcome reported for its actor.
AllRecorded ==
  Busy = {} => \A a \in Actors : rows[a] # NoRow => Explains(recorded[a], rows[a])

\* Served one at a time and without failures, no outcome is lost.
SerialExact == MaxInFlight = 1 /\ ~ Faults => AllRecorded
=============================================================================
