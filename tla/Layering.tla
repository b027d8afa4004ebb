------------------------------ MODULE Layering ------------------------------
(***************************************************************************)
(* How a task is assigned to a layer (internal/domain/layer, Classify):    *)
(* three scores, given by the caller or estimated from the description,    *)
(* are weighted .3, .4, .3 and compared with .7 and .4.                    *)
(*                                                                         *)
(* Scores count in hundredths and the weighted sum in thousandths, exactly;*)
(* the code adds floats, so a sum that meets a threshold may be rounded to *)
(* the other side of it.  A description is what the estimates see of it:   *)
(* its length and how many of the listed words it contains.                *)
(***************************************************************************)
EXTENDS Integers, TLAPS

Descriptions == [length : Nat, riskWords : 0 .. 8, stratWords : 0 .. 8]
\* No score a caller gives is checked.
Scores == [complexity : Int, risk : Int, strategic : Int]

\* The layers, from the one of routine work up.
Operational == 0
Tactical == 1
Strategic == 2

estimateComplexity(desc) ==
  IF desc.length > 500 THEN 90 ELSE IF desc.length > 200 THEN 60
  ELSE IF desc.length > 50 THEN 30 ELSE 10

\* A fifth per word, capped at one.
Capped(n) == IF n > 5 THEN 100 ELSE 20 * n

estimateRisk(desc) == Capped(desc.riskWords)
estimateStrategic(desc) == Capped(desc.stratWords)

Combined(s) == 3 * s.complexity + 4 * s.risk + 3 * s.strategic

determineLayer(s) ==
  IF Combined(s) >= 700 THEN Strategic ELSE IF Combined(s) >= 400 THEN Tactical
  ELSE Operational

\* Three zeros are taken for no scores.
Unscored == [complexity |-> 0, risk |-> 0, strategic |-> 0]

Estimated(desc) == [complexity |-> estimateComplexity(desc), risk |-> estimateRisk(desc),
                    strategic |-> estimateStrategic(desc)]

Classify(given, desc) == determineLayer(IF given = Unscored THEN Estimated(desc) ELSE given)
-----------------------------------------------------------------------------
\* Raising a score never lowers the layer determineLayer answers.
THEOREM Monotone ==
  ASSUME NEW s \in Scores, NEW t \in Scores,
         s.complexity <= t.complexity, s.risk <= t.risk, s.strategic <= t.strategic
  PROVE  determineLayer(s) <= determineLayer(t)
BY DEF Scores, determineLayer, Combined, Strategic, Tactical, Operational

\* The thresholds are within reach of a single score only for risk, and not
\* the upper one: with the other two at zero, a score of at most one (100)
\* makes a task tactical at best, and only if the score is its risk.
THEOREM OneScore ==
  ASSUME NEW s \in Scores, s.complexity <= 100, s.risk <= 100, s.strategic <= 100
  PROVE  /\ s.risk = 0 /\ s.strategic = 0 => determineLayer(s) = Operational
         /\ s.complexity = 0 /\ s.risk = 0 => determineLayer(s) = Operational
         /\ s.complexity = 0 /\ s.strategic = 0 => determineLayer(s) \in {Operational, Tactical}
BY DEF Scores, determineLayer, Combined, Strategic, Tactical, Operational

\* A caller that gives no scores never gets the strategic layer for a task
\* whose description lacks the words of one kind, however long it is and
\* however many of the other kind it has; and with one word of either kind at
\* most the task is operational.
THEOREM EstimateNeedsWords ==
  ASSUME NEW desc \in Descriptions
  PROVE  /\ desc.riskWords = 0 \/ desc.stratWords = 0 => Classify(Unscored, desc) # Strategic
         /\ desc.riskWords + desc.stratWords <= 1 => Classify(Unscored, desc) = Operational
<1>1. /\ estimateComplexity(desc) \in {10, 30, 60, 90}
      /\ estimateRisk(desc) \in 0 .. 100 /\ estimateStrategic(desc) \in 0 .. 100
      /\ desc.riskWords = 0 => estimateRisk(desc) = 0
      /\ desc.stratWords = 0 => estimateStrategic(desc) = 0
      /\ desc.riskWords + desc.stratWords <= 1 =>
           estimateRisk(desc) + estimateStrategic(desc) <= 20
  BY DEF Descriptions, estimateComplexity, estimateRisk, estimateStrategic, Capped
<1> HIDE DEF estimateComplexity, estimateRisk, estimateStrategic
<1>2. Classify(Unscored, desc) = determineLayer(Estimated(desc))
  BY DEF Classify
<1>3. QED
  BY <1>1, <1>2 DEF Estimated, determineLayer, Combined, Strategic, Tactical, Operational

\* Zero is not a score a caller can give three times: the same call with a
\* little of one score is operational, the one with none can be strategic.
THEOREM ZeroesAreEstimated ==
  \E desc \in Descriptions :
    /\ Classify(Unscored, desc) = Strategic
    /\ Classify([Unscored EXCEPT !.complexity = 1], desc) = Operational
<1> DEFINE d == [length |-> 501, riskWords |-> 5, stratWords |-> 5]
<1>1. d \in Descriptions
  BY DEF Descriptions
<1>2. Classify(Unscored, d) = Strategic
  BY DEF Classify, Estimated, estimateComplexity, estimateRisk, estimateStrategic, Capped,
         determineLayer, Combined, Strategic
<1>3. Classify([Unscored EXCEPT !.complexity = 1], d) = Operational
  <2>1. [Unscored EXCEPT !.complexity = 1] = [complexity |-> 1, risk |-> 0, strategic |-> 0]
    BY DEF Unscored
  <2>2. [Unscored EXCEPT !.complexity = 1] # Unscored
    BY <2>1 DEF Unscored
  <2>3. QED
    BY <2>1, <2>2 DEF Classify, determineLayer, Combined, Strategic, Tactical, Operational
<1>4. QED
  BY <1>1, <1>2, <1>3
=============================================================================
