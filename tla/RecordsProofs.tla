---------------------------- MODULE RecordsProofs ---------------------------
(***************************************************************************)
(* Proofs about Records.  The inductive invariant has a part per domain,   *)
(* over the domain's own tables and what clients were told of them.  A     *)
(* step of one domain tells only rows of its own tables, so it leaves the  *)
(* parts of the other domains as they are.                                 *)
(***************************************************************************)
EXTENDS Records, TLAPS, SequenceTheorems

\* The part of Verification.
UntoldVerification ==
  /\ \A k \in DOMAIN reports \ ToldReports : ReviewsOf(k) = {}
  /\ \A v \in DOMAIN reviews \ ToldReviews : reviews[v].status = "pending"

\* A read that is under way, or answered: what AnswersAreWhole needs of it.
ViewInv ==
  view.pc # "idle" =>
    /\ view.report \in DOMAIN reports
    /\ view.overall \in {NULL, reports[view.report].overall}
    /\ view.since \subseteq ReviewsOf(view.report)
    /\ view.pc = "answered" => /\ view.since \subseteq view.shown
                               /\ view.shown \subseteq ReviewsOf(view.report)

VInv == VerificationTypeOK /\ AnnouncedIsScored /\ UntoldVerification /\ ViewInv

\* The part of EvolutionRecords.
UntoldEvolution == \A s \in DOMAIN signals : Row("signal", s) \notin told => ~signals[s].acknowledged

Proposed == [status |-> "proposed", conclusion |-> NULL, done |-> FALSE]

ExperimentsUntold ==
  \A x \in DOMAIN experiments : Row("experiment", x) \notin told /\ experiments[x] = Proposed

EInv == EvolutionTypeOK /\ UntoldEvolution /\ ExperimentsUntold

\* The part of Traces.
UntoldTraces ==
  /\ \A t \in DOMAIN traces \ ToldTraces :
       SpansOf(t) = {} /\ traces[t] = [status |-> "active", ended |-> FALSE]
  /\ \A p \in DOMAIN spans \ ToldSpans : \A s \in DOMAIN spans : spans[s].parent # p

TraceInv ==
  trace.pc # "idle" =>
    /\ trace.since \subseteq SpansOf(trace.trace)
    /\ trace.pc = "answered" => /\ trace.since \subseteq trace.shown
                                /\ trace.shown \subseteq SpansOf(trace.trace)
                                /\ \A s \in trace.shown : spans[s].parent \in
                                     trace.shown \cup (DOMAIN spans \ SpansOf(trace.trace)) \cup {0}

TInv == TracesTypeOK /\ UntoldTraces /\ TraceInv

\* Clients were told only of rows that are there.
VRows == RowsOf("report", reports) \cup RowsOf("review", reviews)
ERows == RowsOf("experiment", experiments) \cup RowsOf("signal", signals)
TRows == RowsOf("trace", traces) \cup RowsOf("span", spans)

ToldInv == told \subseteq VRows \cup ERows \cup TRows

IInv == rows \in 0 .. MaxRows /\ ToldInv /\ VInv /\ EInv /\ TInv

-----------------------------------------------------------------------------
\* Appending a row to a table, or changing one, gives a table of the same type.
LEMMA Appended ==
  ASSUME NEW S, NEW s \in Seq(S), NEW e \in S
  PROVE  /\ Append(s, e) \in Seq(S)
         /\ DOMAIN s = 1 .. Len(s) /\ Len(s) \in Nat
         /\ DOMAIN Append(s, e) = 1 .. (Len(s) + 1)
         /\ \A i \in DOMAIN s : Append(s, e)[i] = s[i]
         /\ Append(s, e)[Len(s) + 1] = e
OBVIOUS

LEMMA Changed ==
  ASSUME NEW S, NEW s \in Seq(S), NEW i \in DOMAIN s, NEW e \in S
  PROVE  /\ [s EXCEPT ![i] = e] \in Seq(S)
         /\ DOMAIN [s EXCEPT ![i] = e] = DOMAIN s
         /\ DOMAIN s = 1 .. Len(s) /\ Len(s) \in Nat /\ s[i] \in S
         /\ \A j \in DOMAIN s : [s EXCEPT ![i] = e][j] = IF j = i THEN e ELSE s[j]
OBVIOUS

\* What a step touches of one table that it appends to, or changes in one place.
LEMMA TouchesNone ==
  ASSUME NEW table, NEW old, NEW new,
         DOMAIN old \subseteq DOMAIN new, \A i \in DOMAIN old : new[i] = old[i]
  PROVE  Touched(table, old, new) = {}
BY DEF Touched

LEMMA TouchesPlace ==
  ASSUME NEW table, NEW old, NEW new, NEW k,
         DOMAIN old \subseteq DOMAIN new, \A i \in DOMAIN old : i # k => new[i] = old[i]
  PROVE  Touched(table, old, new) \subseteq {Row(table, k)}
BY DEF Touched

\* What a step may touch of some tables.
OneAtMost(touched) == (\A a, b \in touched : a = b) /\ (rows' # rows => touched = {})

LEMMA NoneIsAtMostOne == OneAtMost({})
BY DEF OneAtMost

LEMMA OnePlace ==
  ASSUME NEW a, NEW touched, touched \subseteq {a}, rows' = rows
  PROVE  OneAtMost(touched)
BY DEF OneAtMost

\* The overall score is none or a number.
LEMMA ScoreType ==
  ASSUME NEW scores \in GivenScores
  PROVE  calculateOverallScore(scores) \in {NULL} \cup Int
<1>1. \A i \in 1 .. 3 : scores[i] = NULL \/ scores[i] \in Int
  <2>1. PICK a \in {NULL} \cup Int, b \in {NULL} \cup Int, c \in {NULL} \cup Int : scores = <<a, b, c>>
    BY VerificationAssumption
  <2>2. QED
    BY <2>1
<1>2. QED
  BY <1>1 DEF calculateOverallScore
-----------------------------------------------------------------------------
\* The steps of Verification.
ReportRows == [workflow : {NULL} \cup Workflows, scores : GivenScores, overall : {NULL} \cup Int,
               request : {"open", "answered", "failed"}]
ReviewRows == [report : Nat, status : {"pending", "completed"}, result : {NULL} \cup Results]

VTells == told \subseteq told' /\ told' \subseteq told \cup VRows'

VTouched == Touched("report", reports, reports') \cup Touched("review", reviews, reviews')

VKept == VerificationStays /\ OneAtMost(VTouched)

LEMMA VCreateReport ==
  ASSUME VInv, ToldInv, CreateReport
  PROVE  VInv' /\ VTells /\ VKept
<1>0. PICK workflow \in {NULL} \cup Workflows, scores \in GivenScores :
        reports' = Append(reports, [workflow |-> workflow, scores |-> scores,
                                    overall |-> NULL, request |-> "open"])
  BY DEF CreateReport
<1> DEFINE e == [workflow |-> workflow, scores |-> scores, overall |-> NULL, request |-> "open"]
<1>1. reports' = Append(reports, e)
  BY <1>0
<1>2. told' = told /\ reviews' = reviews /\ view' = view
  BY DEF CreateReport
<1>3. reports \in Seq(ReportRows) /\ e \in ReportRows
  BY DEF VInv, VerificationTypeOK, ReportRows
<1>4. /\ reports' \in Seq(ReportRows)
      /\ DOMAIN reports = 1 .. Len(reports) /\ Len(reports) \in Nat
      /\ DOMAIN reports' = 1 .. (Len(reports) + 1)
      /\ \A i \in DOMAIN reports : reports'[i] = reports[i]
      /\ reports'[Len(reports) + 1] = e
  <2> HIDE DEF e
  <2> QED BY <1>1, <1>3, Appended, SMT
<1>5. VerificationTypeOK'
  BY <1>2, <1>4 DEF VInv, VerificationTypeOK, ReportRows
<1>6. AnnouncedIsScored'
  BY <1>4 DEF VInv, AnnouncedIsScored, Scored
<1>7. UntoldVerification'
  BY <1>2, <1>4 DEF VInv, VerificationTypeOK, UntoldVerification, ToldReports, ToldReviews, ReviewsOf
<1>8. ViewInv'
  BY <1>2, <1>4 DEF VInv, ViewInv, ReviewsOf
<1>9. VKept
  <2>1. VTouched = {}
    BY <1>2, <1>4, TouchesNone DEF VTouched
  <2>2. VerificationStays
    BY <1>2, <1>4 DEF VerificationStays
  <2>3. QED
    BY <2>1, <2>2, NoneIsAtMostOne DEF VKept
<1>10. QED
  BY <1>2, <1>5, <1>6, <1>7, <1>8, <1>9 DEF VInv, VTells

\* The three steps that change one report of a request that is open.
LEMMA VOpenReport ==
  ASSUME VInv, NEW k \in DOMAIN reports, Open(k), NEW e \in ReportRows,
         reports' = [reports EXCEPT ![k] = e], UNCHANGED <<rows, reviews, view>>,
         e.workflow = reports[k].workflow, e.scores = reports[k].scores,
         e.overall \in {reports[k].overall, calculateOverallScore(reports[k].scores)},
         e.request = "answered" => e.overall = calculateOverallScore(e.scores),
         told' \in {told, told \cup {Row("report", k)}}
  PROVE  VInv' /\ VTells /\ VKept
<1>1. reports \in Seq(ReportRows)
  BY DEF VInv, VerificationTypeOK, ReportRows
<1>2. /\ reports' \in Seq(ReportRows)
      /\ DOMAIN reports' = DOMAIN reports
      /\ \A j \in DOMAIN reports : reports'[j] = IF j = k THEN e ELSE reports[j]
  BY <1>1, Changed, Zenon
<1>3. VerificationTypeOK'
  BY <1>2 DEF VInv, VerificationTypeOK, ReportRows
<1>4. AnnouncedIsScored'
  BY <1>2 DEF VInv, AnnouncedIsScored, Scored, Open
<1>5. UntoldVerification'
  BY <1>2 DEF VInv, UntoldVerification, ToldReports, ToldReviews, ReviewsOf
<1>6. ViewInv'
  BY <1>2 DEF VInv, ViewInv, ReviewsOf, AnnouncedIsScored
<1>7. VTells
  BY <1>2 DEF VTells, VRows, RowsOf
<1>8. VKept
  <2>1. VTouched \subseteq {Row("report", k)}
    BY <1>2, TouchesNone, TouchesPlace DEF VTouched
  <2>2. VerificationStays
    BY <1>2 DEF VInv, AnnouncedIsScored, VerificationStays
  <2>3. QED
    BY <2>1, <2>2, OnePlace DEF VKept
<1>9. QED
  BY <1>3, <1>4, <1>5, <1>6, <1>7, <1>8 DEF VInv

LEMMA VSettleReport ==
  ASSUME VInv, ToldInv, UpdateOverallScore \/ createReport \/ CreateReportFails
  PROVE  VInv' /\ VTells /\ VKept
<1>1. \A k \in DOMAIN reports : reports[k] \in ReportRows /\ reports[k].scores \in GivenScores
  <2>1. reports \in Seq(ReportRows)
    BY DEF VInv, VerificationTypeOK, ReportRows
  <2>2. \A k \in DOMAIN reports : reports[k] \in ReportRows
    BY <2>1
  <2>3. QED
    BY <2>2 DEF ReportRows
<1>2. CASE UpdateOverallScore
  <2>1. PICK k \in DOMAIN reports :
          /\ Open(k)
          /\ reports' = [reports EXCEPT ![k].overall = calculateOverallScore(reports[k].scores)]
          /\ UNCHANGED <<shared, reviews, view>>
    BY <1>2 DEF UpdateOverallScore
  <2> DEFINE e == [reports[k] EXCEPT !.overall = calculateOverallScore(reports[k].scores)]
  <2>2. e \in ReportRows /\ e.workflow = reports[k].workflow /\ e.scores = reports[k].scores /\ e.request = "open"
        /\ e.overall = calculateOverallScore(reports[k].scores)
    BY <1>1, <2>1, ScoreType DEF ReportRows, Open
  <2>3. reports' = [reports EXCEPT ![k] = e]
    BY <2>1
  <2>4. QED
    <3> HIDE DEF e
    <3> QED BY <2>1, <2>2, <2>3, VOpenReport DEF shared
<1>3. CASE createReport
  <2>1. PICK k \in DOMAIN reports :
          /\ Created(k)
          /\ reports' = [reports EXCEPT ![k].request = "answered"]
          /\ Answered({Row("report", k)})
          /\ UNCHANGED <<rows, reviews, view>>
    BY <1>3 DEF createReport
  <2> DEFINE e == [reports[k] EXCEPT !.request = "answered"]
  <2>2. e \in ReportRows /\ e.workflow = reports[k].workflow /\ e.scores = reports[k].scores
        /\ e.overall = reports[k].overall /\ e.overall = calculateOverallScore(e.scores)
    BY <1>1, <2>1 DEF ReportRows, Created, Scored
  <2>3. reports' = [reports EXCEPT ![k] = e]
    BY <2>1
  <2>4. QED
    <3> HIDE DEF e
    <3> QED BY <2>1, <2>2, <2>3, VOpenReport DEF Created, Answered
<1>4. CASE CreateReportFails
  <2>1. PICK k \in DOMAIN reports :
          /\ Open(k)
          /\ reports' = [reports EXCEPT ![k].request = "failed"]
          /\ UNCHANGED <<shared, reviews, view>>
    BY <1>4 DEF CreateReportFails
  <2> DEFINE e == [reports[k] EXCEPT !.request = "failed"]
  <2>2. e \in ReportRows /\ e.workflow = reports[k].workflow /\ e.scores = reports[k].scores
        /\ e.overall = reports[k].overall /\ e.request = "failed"
    BY <1>1, <2>1 DEF ReportRows
  <2>3. reports' = [reports EXCEPT ![k] = e]
    BY <2>1
  <2>4. QED
    <3> HIDE DEF e
    <3> QED BY <2>1, <2>2, <2>3, VOpenReport DEF shared
<1>5. QED
  BY <1>2, <1>3, <1>4

LEMMA VReviews ==
  ASSUME VInv, ToldInv, assignReview \/ completeReview
  PROVE  VInv' /\ VTells /\ VKept
<1>1. reviews \in Seq(ReviewRows) /\ reports' = reports /\ view' = view
  BY DEF VInv, VerificationTypeOK, ReviewRows, assignReview, completeReview
<1>2. CASE assignReview
  <2>1. PICK k \in ToldReports : AssignReview(k)
    BY <1>2 DEF assignReview
  <2> DEFINE e == [report |-> k, status |-> "pending", result |-> NULL]
             n == Len(reviews) + 1
  <2>2. k \in DOMAIN reports /\ Row("report", k) \in told /\ k \in Nat
    BY <2>1 DEF ToldReports, VInv, VerificationTypeOK
  <2>3. e \in ReviewRows
    BY <2>2 DEF ReviewRows
  <2>4. reviews' = Append(reviews, e) /\ told' \in {told, told \cup {Row("review", n)}}
    BY <2>1 DEF AssignReview, Answered
  <2>5. /\ reviews' \in Seq(ReviewRows)
        /\ DOMAIN reviews = 1 .. Len(reviews) /\ Len(reviews) \in Nat
        /\ DOMAIN reviews' = 1 .. n
        /\ \A i \in DOMAIN reviews : reviews'[i] = reviews[i]
        /\ reviews'[n] = e
    <3> HIDE DEF e
    <3> QED BY <1>1, <2>3, <2>4, Appended, SMT
  <2>6. VerificationTypeOK'
    <3>1. \A v \in DOMAIN reviews' :
            /\ reviews'[v].report \in DOMAIN reports
            /\ (reviews'[v].status = "completed") = (reviews'[v].result # NULL)
      BY <2>2, <2>5, SMTT(30) DEF VInv, VerificationTypeOK
    <3>2. view' \in [pc : {"idle", "reviews", "answered"}, report : Nat,
                     overall : {NULL} \cup Int, since : SUBSET (DOMAIN reviews'),
                     shown : SUBSET (DOMAIN reviews')]
      BY <1>1, <2>5 DEF VInv, VerificationTypeOK
    <3>3. QED
      BY <1>1, <2>5, <3>1, <3>2 DEF VInv, VerificationTypeOK, ReviewRows
  <2>7. AnnouncedIsScored'
    BY <1>1 DEF VInv, AnnouncedIsScored, Scored
  <2>8. UntoldVerification'
    BY <1>1, <2>2, <2>4, <2>5 DEF VInv, UntoldVerification, ToldReports, ToldReviews, ReviewsOf
  <2>9. ViewInv'
    BY <1>1, <2>5 DEF VInv, ViewInv, ReviewsOf
  <2>10. VTells
    BY <2>4, <2>5 DEF VTells, VRows, RowsOf
  <2>11. VKept
    <3>1. VTouched = {}
      BY <1>1, <2>5, TouchesNone DEF VTouched
    <3>2. VerificationStays
      BY <1>1, <2>5 DEF VerificationStays
    <3>3. QED
      BY <3>1, <3>2, NoneIsAtMostOne DEF VKept
  <2>12. QED
    BY <2>6, <2>7, <2>8, <2>9, <2>10, <2>11 DEF VInv
<1>3. CASE completeReview
  <2>1. PICK v \in ToldReviews, result \in Results : reviews' = CompleteReview(v, result)
    BY <1>3 DEF completeReview
  <2> DEFINE e == [reviews[v] EXCEPT !.status = "completed", !.result = result]
  <2>2. v \in DOMAIN reviews /\ Row("review", v) \in told /\ told' = told
    BY <1>3, <2>1 DEF ToldReviews, completeReview, shared
  <2>3. e \in ReviewRows /\ e.status = "completed" /\ e.result = result
        /\ e.report = reviews[v].report
    <3>1. reviews[v] \in ReviewRows
      BY <1>1, <2>2
    <3>2. QED
      BY <2>1, <3>1 DEF ReviewRows
  <2>4. reviews' = [reviews EXCEPT ![v] = e]
    BY <2>1 DEF CompleteReview
  <2>5. /\ reviews' \in Seq(ReviewRows)
        /\ DOMAIN reviews' = DOMAIN reviews
        /\ \A j \in DOMAIN reviews : reviews'[j] = IF j = v THEN e ELSE reviews[j]
    <3> HIDE DEF e
    <3> QED BY <1>1, <2>2, <2>3, <2>4, Changed, Zenon
  <2> HIDE DEF e
  <2>6. VerificationTypeOK'
    <3>1. \A w \in DOMAIN reviews' :
            /\ reviews'[w].report \in DOMAIN reports
            /\ (reviews'[w].status = "completed") = (reviews'[w].result # NULL)
      <4>1. result # NULL
        BY <2>1, VerificationAssumption
      <4>2. TAKE w \in DOMAIN reviews'
      <4>3. CASE w = v
        BY <2>2, <2>3, <2>5, <4>1, <4>3 DEF VInv, VerificationTypeOK
      <4>4. CASE w # v
        BY <2>5, <4>4 DEF VInv, VerificationTypeOK
      <4>5. QED
        BY <4>3, <4>4
    <3>2. QED
      BY <1>1, <2>5, <3>1 DEF VInv, VerificationTypeOK, ReviewRows
  <2>7. AnnouncedIsScored'
    BY <1>1 DEF VInv, AnnouncedIsScored, Scored
  <2>8. UntoldVerification'
    BY <1>1, <2>2, <2>3, <2>5 DEF VInv, UntoldVerification, ToldReports, ToldReviews, ReviewsOf
  <2>9. ViewInv'
    BY <1>1, <2>3, <2>5 DEF VInv, ViewInv, ReviewsOf
  <2>10. VKept
    <3>1. VTouched \subseteq {Row("review", v)}
      BY <1>1, <2>5, TouchesNone, TouchesPlace DEF VTouched
    <3>2. VerificationStays
      BY <1>1, <2>3, <2>5 DEF VerificationStays
    <3>3. rows' = rows
      BY <1>3 DEF completeReview, shared
    <3>4. QED
      BY <3>1, <3>2, <3>3, OnePlace DEF VKept
  <2>11. QED
    BY <2>2, <2>6, <2>7, <2>8, <2>9, <2>10 DEF VInv, VTells
<1>4. QED
  BY <1>2, <1>3

LEMMA VReads ==
  ASSUME VInv, ToldInv, listReports \/ GetReport \/ getReport
  PROVE  VInv' /\ VTells /\ VKept
<1>1. reports' = reports /\ reviews' = reviews
  BY DEF listReports, GetReport, getReport, verification
<1>2. VTells
  <2>1. CASE listReports
    <3>1. PICK workflow \in {NULL} \cup Workflows, limit \in Limits :
            Answered(ListReports(workflow, limit))
      BY <2>1 DEF listReports
    <3>2. ListReports(workflow, limit) \subseteq VRows
      BY DEF ListReports, Newest, VRows, RowsOf
    <3>3. QED
      BY <1>1, <3>1, <3>2 DEF VTells, Answered, VRows
  <2>2. CASE GetReport
    BY <2>2 DEF GetReport, shared, VTells
  <2>3. CASE getReport
    BY <1>1, <2>3 DEF getReport, VTells, Answered, VRows, RowsOf, GetReviewsByReport, ReviewsOf
  <2>4. QED
    BY <2>1, <2>2, <2>3
<1>3. VerificationTypeOK' /\ ViewInv'
  <2>1. CASE listReports
    BY <1>1, <2>1 DEF listReports, verification, VInv, VerificationTypeOK, ViewInv, ReviewsOf
  <2>2. CASE GetReport
    <3>1. PICK k \in ToldReports :
            view' = [pc |-> "reviews", report |-> k, overall |-> reports[k].overall,
                     since |-> ReviewsOf(k), shown |-> {}]
      BY <2>2 DEF GetReport
    <3>2. k \in DOMAIN reports /\ k \in Nat /\ reports[k].overall \in {NULL} \cup Int
      <4>1. reports \in Seq(ReportRows) /\ k \in DOMAIN reports
        BY DEF ToldReports, VInv, VerificationTypeOK, ReportRows
      <4>2. reports[k] \in ReportRows /\ k \in Nat
        BY <4>1
      <4>3. QED
        BY <4>1, <4>2 DEF ReportRows
    <3>3. QED
      BY <1>1, <3>1, <3>2 DEF VInv, VerificationTypeOK, ViewInv, ReviewsOf
  <2>3. CASE getReport
    <3> DEFINE shown == ReviewsOf(view.report)
    <3>1. view.pc = "reviews" /\ view' = [view EXCEPT !.pc = "answered", !.shown = shown]
      BY <2>3 DEF getReport, GetReviewsByReport
    <3>2. view \in [pc : {"idle", "reviews", "answered"}, report : Nat, overall : {NULL} \cup Int,
                    since : SUBSET (DOMAIN reviews), shown : SUBSET (DOMAIN reviews)]
      BY DEF VInv, VerificationTypeOK
    <3>3. shown \subseteq DOMAIN reviews
      BY DEF ReviewsOf
    <3>4. /\ view'.pc = "answered" /\ view'.report = view.report
          /\ view'.overall = view.overall /\ view'.since = view.since /\ view'.shown = shown
      <4> HIDE DEF shown
      <4> QED BY <3>1, <3>2
    <3>5. VerificationTypeOK'
      <4> HIDE DEF shown
      <4> QED BY <1>1, <3>1, <3>2, <3>3 DEF VInv, VerificationTypeOK
    <3>6. ViewInv'
      BY <1>1, <3>1, <3>4 DEF VInv, ViewInv, ReviewsOf
    <3>7. QED
      BY <3>5, <3>6
  <2>4. QED
    BY <2>1, <2>2, <2>3
<1>4. AnnouncedIsScored' /\ UntoldVerification'
  BY <1>1, <1>2 DEF VInv, AnnouncedIsScored, Scored, UntoldVerification, ToldReports, ToldReviews,
                    ReviewsOf, VTells
<1>5. VKept
  <2>1. VTouched = {}
    BY <1>1, TouchesNone DEF VTouched
  <2>2. VerificationStays
    BY <1>1 DEF VerificationStays
  <2>3. QED
    BY <2>1, <2>2, NoneIsAtMostOne DEF VKept
<1>6. QED
  BY <1>2, <1>3, <1>4, <1>5 DEF VInv

LEMMA VStep ==
  ASSUME VInv, ToldInv, VerificationNext
  PROVE  VInv' /\ VTells /\ VKept
BY VCreateReport, VSettleReport, VReviews, VReads DEF VerificationNext
-----------------------------------------------------------------------------
\* The steps of EvolutionRecords.
ExperimentRows == [status : {"proposed", "running", "completed", "rolled_back"},
                   conclusion : {NULL} \cup Conclusions, done : BOOLEAN]
SignalRows == [priority : Priorities, acknowledged : BOOLEAN]

ETells == told \subseteq told' /\ told' \subseteq told \cup ERows'

ETouched == Touched("experiment", experiments, experiments')
              \cup Touched("knowledge", knowledge, knowledge')
              \cup Touched("signal", signals, signals')

EKept == EvolutionStays /\ OneAtMost(ETouched)

\* Rows that are there stay as they are.
LEMMA EKeeps ==
  ASSUME \A x \in DOMAIN experiments : x \in DOMAIN experiments' /\ experiments'[x] = experiments[x],
         \A e \in DOMAIN knowledge : e \in DOMAIN knowledge' /\ knowledge'[e] = knowledge[e],
         \A s \in DOMAIN signals : s \in DOMAIN signals' /\ signals'[s] = signals[s]
  PROVE  EKept /\ ETouched = {}
<1>1. ETouched = {}
  BY TouchesNone DEF ETouched
<1>2. EvolutionStays
  BY DEF EvolutionStays
<1>3. QED
  BY <1>1, <1>2, NoneIsAtMostOne DEF EKept

\* A NULL conclusion cannot be scanned, so no row is ever shown.
LEMMA NeverShown == ~Tells(Proposed)
BY DEF Tells, Scans, Proposed

LEMMA EExperiments ==
  ASSUME EInv, ToldInv, createExperiment \/ listExperiments \/ updateExperimentStatus
  PROVE  EInv' /\ ETells /\ EKept
<1>1. CASE createExperiment
  <2> DEFINE n == Len(experiments) + 1
  <2>1. /\ experiments' = Append(experiments, Proposed)
        /\ told' = told /\ knowledge' = knowledge /\ signals' = signals
    BY <1>1, NeverShown DEF createExperiment, CreateExperiment, Answered, Proposed
  <2>2. experiments \in Seq(ExperimentRows) /\ Proposed \in ExperimentRows
    BY DEF EInv, EvolutionTypeOK, ExperimentRows, Proposed
  <2>3. /\ experiments' \in Seq(ExperimentRows)
        /\ DOMAIN experiments = 1 .. Len(experiments) /\ Len(experiments) \in Nat
        /\ DOMAIN experiments' = 1 .. n
        /\ \A i \in DOMAIN experiments : experiments'[i] = experiments[i]
        /\ experiments'[n] = Proposed
    <3> HIDE DEF Proposed
    <3> QED BY <2>1, <2>2, Appended, SMT
  <2>4. Row("experiment", n) \notin told
    BY <2>3 DEF ToldInv, VRows, ERows, TRows, RowsOf, Row
  <2>5. ExperimentsUntold'
    BY <2>1, <2>3, <2>4 DEF EInv, ExperimentsUntold
  <2>6. EvolutionTypeOK' /\ UntoldEvolution'
    BY <2>1, <2>3 DEF EInv, EvolutionTypeOK, ExperimentRows, UntoldEvolution
  <2>7. EKept
    BY <2>1, <2>3, EKeeps
  <2>8. QED
    BY <2>1, <2>5, <2>6, <2>7 DEF EInv, ETells
<1>2. CASE listExperiments
  <2>1. ListExperiments = {}
    <3>1. CASE experiments = <<>>
      BY <3>1 DEF ListExperiments, RowsOf
    <3>2. CASE experiments # <<>>
      <4>1. 1 \in DOMAIN experiments
        BY <3>2 DEF EInv, EvolutionTypeOK
      <4>2. QED
        BY <4>1, NeverShown DEF ListExperiments, EInv, ExperimentsUntold
    <3>3. QED
      BY <3>1, <3>2
  <2>2. told' = told /\ UNCHANGED evolution
    BY <1>2, <2>1 DEF listExperiments, Answered
  <2>3. EKept
    BY <2>2, EKeeps DEF evolution
  <2>4. QED
    BY <2>2, <2>3 DEF evolution, EInv, EvolutionTypeOK, UntoldEvolution, ExperimentsUntold, ETells
<1>3. CASE updateExperimentStatus
  <2>1. experiments' = experiments
    <3>1. PICK x \in {0} \cup {n \in DOMAIN experiments : Row("experiment", n) \in told},
               status \in {"running", "completed", "rolled_back"}, conclusion \in Conclusions :
            experiments' = UpdateExperimentStatus(x, status, conclusion)
      BY <1>3 DEF updateExperimentStatus
    <3>2. x \notin DOMAIN experiments
      BY DEF EInv, EvolutionTypeOK, ExperimentsUntold
    <3>3. QED
      BY <3>1, <3>2 DEF UpdateExperimentStatus
  <2>2. told' = told /\ knowledge' = knowledge /\ signals' = signals
    BY <1>3 DEF updateExperimentStatus, shared
  <2>3. EKept
    BY <2>1, <2>2, EKeeps
  <2>4. QED
    BY <2>1, <2>2, <2>3 DEF EInv, EvolutionTypeOK, UntoldEvolution, ExperimentsUntold, ETells
<1>4. QED
  BY <1>1, <1>2, <1>3

LEMMA EKnowledge ==
  ASSUME EInv, ToldInv, createKnowledge
  PROVE  EInv' /\ ETells /\ EKept
<1>1. PICK source \in {"manual", "workflow"} : knowledge' = Append(knowledge, source)
  BY DEF createKnowledge, CreateKnowledge
<1>2. /\ knowledge' \in Seq({"manual", "workflow"})
      /\ \A e \in DOMAIN knowledge : e \in DOMAIN knowledge' /\ knowledge'[e] = knowledge[e]
  <2>1. knowledge \in Seq({"manual", "workflow"})
    BY DEF EInv, EvolutionTypeOK
  <2>2. QED
    BY <1>1, <2>1, Appended
<1>3. EKept
  BY <1>2, EKeeps DEF createKnowledge
<1>4. QED
  BY <1>2, <1>3 DEF createKnowledge, EInv, EvolutionTypeOK, UntoldEvolution, ExperimentsUntold,
                     ETells

\* Told of more signals, no experiment among them.
LEMMA ESignalsTold ==
  ASSUME ExperimentsUntold, told' \subseteq told \cup RowsOf("signal", signals'),
         experiments' = experiments
  PROVE  ExperimentsUntold'
BY DEF ExperimentsUntold, RowsOf, Row

LEMMA ESignals ==
  ASSUME EInv, ToldInv, createSignal \/ listSignals \/ acknowledgeSignal
  PROVE  EInv' /\ ETells /\ EKept
<1>1. signals \in Seq(SignalRows) /\ UNCHANGED <<experiments, knowledge>>
  BY DEF EInv, EvolutionTypeOK, SignalRows, createSignal, listSignals, acknowledgeSignal, evolution
<1>2. CASE createSignal
  <2>1. PICK priority \in Priorities : CreateSignal(priority)
    BY <1>2 DEF createSignal
  <2> DEFINE e == [priority |-> priority, acknowledged |-> FALSE]
             n == Len(signals) + 1
  <2>2. signals' = Append(signals, e) /\ told' \in {told, told \cup {Row("signal", n)}}
    BY <2>1 DEF CreateSignal, Answered
  <2>3. e \in SignalRows /\ ~e.acknowledged
    BY DEF SignalRows
  <2>4. /\ signals' \in Seq(SignalRows)
        /\ DOMAIN signals = 1 .. Len(signals) /\ Len(signals) \in Nat
        /\ DOMAIN signals' = 1 .. n
        /\ \A i \in DOMAIN signals : signals'[i] = signals[i]
        /\ signals'[n] = e
    <3> HIDE DEF e
    <3> QED BY <1>1, <2>2, <2>3, Appended, SMT
  <2> HIDE DEF e
  <2>5. told \subseteq told' /\ told' \subseteq told \cup RowsOf("signal", signals')
    BY <2>2, <2>4 DEF RowsOf
  <2>6. UntoldEvolution'
    BY <2>3, <2>4, <2>5 DEF EInv, UntoldEvolution
  <2>7. EKept
    BY <1>1, <2>4, EKeeps
  <2>8. QED
    BY <1>1, <2>4, <2>5, <2>6, <2>7, ESignalsTold
       DEF EInv, EvolutionTypeOK, SignalRows, ETells, ERows
<1>3. CASE listSignals
  <2>1. PICK wanted \in {{TRUE}, {FALSE}, BOOLEAN}, limit \in Limits :
          Answered(ListSignals(wanted, limit))
    BY <1>3 DEF listSignals
  <2>2. ListSignals(wanted, limit) \subseteq RowsOf("signal", signals) /\ signals' = signals
    BY <1>3 DEF ListSignals, RowsOf, listSignals, evolution
  <2>3. told \subseteq told' /\ told' \subseteq told \cup RowsOf("signal", signals')
    BY <2>1, <2>2 DEF Answered
  <2>4. EKept
    BY <1>1, <2>2, EKeeps
  <2>5. QED
    BY <1>1, <2>2, <2>3, <2>4, ESignalsTold
       DEF EInv, EvolutionTypeOK, UntoldEvolution, ETells, ERows
<1>4. CASE acknowledgeSignal
  <2>1. PICK s \in DOMAIN signals : Row("signal", s) \in told /\ signals' = AcknowledgeSignal(s)
    BY <1>4 DEF acknowledgeSignal
  <2> DEFINE e == [signals[s] EXCEPT !.acknowledged = TRUE]
  <2>2. signals' = [signals EXCEPT ![s] = e] /\ told' = told
    BY <1>4, <2>1 DEF AcknowledgeSignal, acknowledgeSignal, shared
  <2>3. e \in SignalRows /\ e.priority = signals[s].priority /\ e.acknowledged
    <3>1. signals[s] \in SignalRows
      BY <1>1
    <3>2. QED
      BY <3>1 DEF SignalRows
  <2>4. /\ signals' \in Seq(SignalRows)
        /\ DOMAIN signals' = DOMAIN signals
        /\ \A j \in DOMAIN signals : signals'[j] = IF j = s THEN e ELSE signals[j]
    <3> HIDE DEF e
    <3> QED BY <1>1, <2>1, <2>2, <2>3, Changed, SMT
  <2>5. UntoldEvolution'
    BY <2>1, <2>2, <2>4 DEF EInv, UntoldEvolution
  <2>6. EKept
    <3>1. ETouched \subseteq {Row("signal", s)}
      BY <1>1, <2>4, TouchesNone, TouchesPlace DEF ETouched
    <3>2. EvolutionStays
      <4> HIDE DEF e
      <4> QED BY <1>1, <2>3, <2>4 DEF EvolutionStays
    <3>3. rows' = rows
      BY <1>4 DEF acknowledgeSignal, shared
    <3>4. QED
      BY <3>1, <3>2, <3>3, OnePlace DEF EKept
  <2>7. QED
    BY <1>1, <2>2, <2>4, <2>5, <2>6
       DEF EInv, EvolutionTypeOK, SignalRows, ExperimentsUntold, ETells
<1>5. QED
  BY <1>2, <1>3, <1>4

LEMMA EStep ==
  ASSUME EInv, ToldInv, EvolutionNext
  PROVE  EInv' /\ ETells /\ EKept
BY EExperiments, EKnowledge, ESignals DEF EvolutionNext
-----------------------------------------------------------------------------
\* The steps of Traces.
TraceRows == [status : {"active", "completed", "failed"}, ended : BOOLEAN]
SpanRows == [trace : Nat, parent : Nat]

TTells == told \subseteq told' /\ told' \subseteq told \cup TRows'

TTouched == Touched("trace", traces, traces') \cup Touched("span", spans, spans')

TKept == TracesStay /\ OneAtMost(TTouched)

\* Rows that are there stay as they are.
LEMMA TKeeps ==
  ASSUME \A t \in DOMAIN traces : t \in DOMAIN traces' /\ traces'[t] = traces[t],
         \A s \in DOMAIN spans : s \in DOMAIN spans' /\ spans'[s] = spans[s],
         metrics' >= metrics
  PROVE  TKept /\ TTouched = {}
<1>1. TTouched = {}
  BY TouchesNone DEF TTouched
<1>2. TracesStay
  BY DEF TracesStay
<1>3. QED
  BY <1>1, <1>2, NoneIsAtMostOne DEF TKept

\* What a span refers to.
LEMMA SpanRefers ==
  ASSUME TInv
  PROVE  \A s \in DOMAIN spans :
           /\ spans[s].trace \in DOMAIN traces
           /\ spans[s].parent \in Nat /\ spans[s].parent < s
           /\ spans[s].parent \in {0} \cup DOMAIN spans
<1>1. spans \in Seq(SpanRows)
  BY DEF TInv, TracesTypeOK, SpanRows
<1>2. \A s \in DOMAIN spans : spans[s] \in SpanRows
  BY <1>1
<1>3. \A s \in DOMAIN spans : spans[s].parent \in Nat
  BY <1>2 DEF SpanRows
<1>4. \A s \in DOMAIN spans : spans[s].trace \in DOMAIN traces /\ spans[s].parent < s
  BY DEF TInv, TracesTypeOK
<1>5. \A s \in DOMAIN spans : spans[s].parent \in {0} \cup DOMAIN spans
  BY <1>1, <1>3, <1>4
<1>6. QED
  BY <1>3, <1>4, <1>5

LEMMA TTraces ==
  ASSUME TInv, ToldInv, startTrace \/ completeTrace
  PROVE  TInv' /\ TTells /\ TKept
<1>1. traces \in Seq(TraceRows) /\ UNCHANGED <<spans, metrics, trace>>
  BY DEF TInv, TracesTypeOK, TraceRows, startTrace, completeTrace
<1>2. CASE startTrace
  <2> DEFINE e == [status |-> "active", ended |-> FALSE]
             n == Len(traces) + 1
  <2>1. traces' = Append(traces, e) /\ told' \in {told, told \cup {Row("trace", n)}}
    BY <1>2 DEF startTrace, CreateTrace, Answered
  <2>2. e \in TraceRows
    BY DEF TraceRows
  <2>3. /\ traces' \in Seq(TraceRows)
        /\ DOMAIN traces = 1 .. Len(traces) /\ Len(traces) \in Nat
        /\ DOMAIN traces' = 1 .. n
        /\ \A i \in DOMAIN traces : traces'[i] = traces[i]
        /\ traces'[n] = e
    <3> HIDE DEF e
    <3> QED BY <1>1, <2>1, <2>2, Appended, SMT
  <2>4. TTells
    BY <2>1, <2>3 DEF TTells, TRows, RowsOf
  <2>5. TracesTypeOK'
    BY <1>1, <2>3 DEF TInv, TracesTypeOK, TraceRows
  <2>6. UntoldTraces'
    <3>1. \A k \in DOMAIN traces' \ ToldTraces' :
            SpansOf(k) = {} /\ traces'[k] = [status |-> "active", ended |-> FALSE]
      <4>1. TAKE k \in DOMAIN traces' \ ToldTraces'
      <4>2. CASE k = n
        BY <2>3, <4>2, SpanRefers DEF SpansOf
      <4>3. CASE k # n
        BY <2>3, <2>4, <4>3 DEF TInv, UntoldTraces, ToldTraces, TTells
      <4>4. QED
        BY <4>2, <4>3
    <3>2. QED
      BY <1>1, <2>4, <3>1 DEF TInv, UntoldTraces, ToldTraces, ToldSpans, SpansOf, TTells
  <2>7. TraceInv'
    BY <1>1 DEF TInv, TraceInv, SpansOf
  <2>8. TKept
    BY <1>1, <2>3, TKeeps DEF TInv, TracesTypeOK
  <2>9. QED
    BY <2>4, <2>5, <2>6, <2>7, <2>8 DEF TInv
<1>3. CASE completeTrace
  <2>1. PICK t \in ToldTraces, status \in {"active", "completed", "failed"} :
          traces' = CompleteTrace(t, status)
    BY <1>3 DEF completeTrace
  <2> DEFINE e == [status |-> status, ended |-> TRUE]
  <2>2. t \in DOMAIN traces /\ Row("trace", t) \in told /\ told' = told
    BY <1>3, <2>1 DEF ToldTraces, completeTrace, shared
  <2>3. e \in TraceRows
    BY <2>1 DEF TraceRows
  <2>4. /\ traces' \in Seq(TraceRows)
        /\ DOMAIN traces' = DOMAIN traces
        /\ \A j \in DOMAIN traces : traces'[j] = IF j = t THEN e ELSE traces[j]
    <3>1. traces' = [traces EXCEPT ![t] = e]
      BY <2>1 DEF CompleteTrace
    <3> HIDE DEF e
    <3> QED BY <1>1, <2>2, <2>3, <3>1, Changed, SMT
  <2>5. TracesTypeOK'
    BY <1>1, <2>4 DEF TInv, TracesTypeOK, TraceRows
  <2>6. UntoldTraces'
    BY <1>1, <2>2, <2>4 DEF TInv, UntoldTraces, ToldTraces, ToldSpans, SpansOf
  <2>7. TraceInv'
    BY <1>1 DEF TInv, TraceInv, SpansOf
  <2>8. TKept
    <3>1. TTouched \subseteq {Row("trace", t)}
      BY <1>1, <2>4, TouchesNone, TouchesPlace DEF TTouched
    <3>2. TracesStay
      BY <1>1, <2>4 DEF TracesStay, TInv, TracesTypeOK
    <3>3. rows' = rows
      BY <1>3 DEF completeTrace, shared
    <3>4. QED
      BY <3>1, <3>2, <3>3, OnePlace DEF TKept
  <2>9. QED
    BY <2>2, <2>5, <2>6, <2>7, <2>8 DEF TInv, TTells
<1>4. QED
  BY <1>2, <1>3

LEMMA TSpans ==
  ASSUME TInv, ToldInv, recordSpan
  PROVE  TInv' /\ TTells /\ TKept
<1>1. PICK t \in ToldTraces, parent \in {0} \cup ToldSpans : RecordSpan(t, parent)
  BY DEF recordSpan
<1> DEFINE e == [trace |-> t, parent |-> parent]
           n == Len(spans) + 1
<1>2. UNCHANGED <<traces, metrics, trace>>
  BY DEF recordSpan
<1>3. /\ spans \in Seq(SpanRows) /\ DOMAIN spans = 1 .. Len(spans) /\ Len(spans) \in Nat
      /\ t \in DOMAIN traces /\ t \in Nat /\ Row("trace", t) \in told
      /\ parent \in Nat /\ parent < n
      /\ parent # 0 => parent \in DOMAIN spans /\ Row("span", parent) \in told
  BY <1>1 DEF TInv, TracesTypeOK, SpanRows, ToldTraces, ToldSpans
<1>4. spans' = Append(spans, e) /\ told' \in {told, told \cup {Row("span", n)}}
  BY <1>1 DEF RecordSpan, Answered
<1>5. e \in SpanRows /\ e.trace = t /\ e.parent = parent
  BY <1>3 DEF SpanRows
<1>6. /\ spans' \in Seq(SpanRows)
      /\ DOMAIN spans' = 1 .. n
      /\ \A i \in DOMAIN spans : spans'[i] = spans[i]
      /\ spans'[n] = e
  <2> HIDE DEF e
  <2> QED BY <1>3, <1>4, <1>5, Appended, SMT
<1> HIDE DEF e
<1>7. TTells
  BY <1>2, <1>4, <1>6 DEF TTells, TRows, RowsOf
<1>8. TracesTypeOK'
  <2>1. \A s \in DOMAIN spans' : spans'[s].trace \in DOMAIN traces' /\ spans'[s].parent < s
    BY <1>2, <1>3, <1>5, <1>6, SMTT(30) DEF TInv, TracesTypeOK
  <2>2. trace' \in [pc : {"idle", "spans", "answered"}, trace : Nat,
                    since : SUBSET (DOMAIN spans'), shown : SUBSET (DOMAIN spans')]
    BY <1>2, <1>3, <1>6 DEF TInv, TracesTypeOK
  <2>3. QED
    BY <1>2, <1>6, <2>1, <2>2 DEF TInv, TracesTypeOK, SpanRows
<1>9. UntoldTraces'
  <2>1. \A s \in DOMAIN spans : spans[s].parent < s /\ spans[s].parent \in Nat
    BY SpanRefers
  <2>2. \A k \in DOMAIN traces \ ToldTraces' :
          SpansOf(k)' = {} /\ traces[k] = [status |-> "active", ended |-> FALSE]
    BY <1>2, <1>3, <1>5, <1>6, <1>7 DEF TInv, UntoldTraces, ToldTraces, SpansOf, TTells
  <2>3. \A p \in DOMAIN spans' \ ToldSpans' : \A s \in DOMAIN spans' : spans'[s].parent # p
    BY <1>3, <1>5, <1>6, <1>7, <2>1 DEF TInv, UntoldTraces, ToldSpans, TTells
  <2>4. QED
    BY <1>2, <2>2, <2>3 DEF UntoldTraces, ToldTraces
<1>10. TraceInv'
  <2>1. \A s \in SpansOf(trace.trace) : s \in DOMAIN spans /\ s \in SpansOf(trace.trace)'
    BY <1>2, <1>3, <1>6 DEF SpansOf
  <2>2. \A s \in DOMAIN spans : s \notin SpansOf(trace.trace) =>
          s \in DOMAIN spans' \ SpansOf(trace.trace)'
    BY <1>2, <1>3, <1>6 DEF SpansOf
  <2>3. \A s \in SpansOf(trace.trace) : spans'[s] = spans[s]
    BY <1>6, <2>1
  <2>4. QED
    BY <1>2, <2>1, <2>2, <2>3 DEF TInv, TraceInv
<1>11. TKept
  BY <1>2, <1>3, <1>6, TKeeps DEF TInv, TracesTypeOK
<1>12. QED
  BY <1>7, <1>8, <1>9, <1>10, <1>11 DEF TInv

LEMMA TReads ==
  ASSUME TInv, ToldInv, listTraces \/ recordMetric \/ GetTrace \/ getTrace
  PROVE  TInv' /\ TTells /\ TKept
<1>1. traces' = traces /\ spans' = spans
  BY DEF listTraces, recordMetric, RecordMetric, GetTrace, getTrace, observability
<1>2. TTells
  <2>1. CASE listTraces
    <3>1. PICK limit \in Limits : Answered(Newest("trace", DOMAIN traces, Clamped(limit)))
      BY <2>1 DEF listTraces
    <3>2. Newest("trace", DOMAIN traces, Clamped(limit)) \subseteq TRows
      BY DEF Newest, TRows, RowsOf
    <3>3. QED
      BY <1>1, <3>1, <3>2 DEF TTells, Answered, TRows
  <2>2. CASE recordMetric \/ GetTrace
    BY <2>2 DEF recordMetric, GetTrace, shared, TTells
  <2>3. CASE getTrace
    BY <1>1, <2>3 DEF getTrace, TTells, Answered, TRows, RowsOf, GetSpansByTrace, SpansOf
  <2>4. QED
    BY <2>1, <2>2, <2>3
<1>3. TracesTypeOK' /\ TraceInv'
  <2>1. CASE listTraces \/ recordMetric
    <3>1. trace' = trace /\ metrics' \in Nat
      BY <2>1 DEF listTraces, recordMetric, RecordMetric, observability, TInv, TracesTypeOK
    <3>2. TracesTypeOK'
      BY <1>1, <3>1 DEF TInv, TracesTypeOK
    <3>3. QED
      BY <1>1, <3>1, <3>2 DEF TInv, TraceInv, SpansOf
  <2>2. CASE GetTrace
    <3>1. PICK t \in ToldTraces :
            trace' = [pc |-> "spans", trace |-> t, since |-> SpansOf(t), shown |-> {}]
      BY <2>2 DEF GetTrace
    <3>2. t \in Nat /\ metrics' = metrics
      BY <2>2 DEF ToldTraces, TInv, TracesTypeOK, GetTrace
    <3>3. QED
      BY <1>1, <3>1, <3>2 DEF TInv, TracesTypeOK, TraceInv, SpansOf
  <2>3. CASE getTrace
    <3>1. trace.pc = "spans" /\ metrics' = metrics
          /\ trace' = [trace EXCEPT !.pc = "answered", !.shown = SpansOf(trace.trace)]
      BY <2>3 DEF getTrace, GetSpansByTrace
    <3>2. \A s \in DOMAIN spans : spans[s].parent \in {0} \cup DOMAIN spans
      BY SpanRefers
    <3>3. QED
      BY <1>1, <3>1, <3>2 DEF TInv, TracesTypeOK, TraceInv, SpansOf
  <2>4. QED
    BY <2>1, <2>2, <2>3
<1>4. UntoldTraces'
  BY <1>1, <1>2 DEF TInv, UntoldTraces, ToldTraces, ToldSpans, SpansOf, TTells
<1>5. TKept
  <2>1. metrics' >= metrics
    BY DEF TInv, TracesTypeOK, listTraces, recordMetric, RecordMetric, GetTrace, getTrace, observability
  <2>2. QED
    BY <1>1, <2>1, TKeeps
<1>6. QED
  BY <1>2, <1>3, <1>4, <1>5 DEF TInv

LEMMA TStep ==
  ASSUME TInv, ToldInv, TracesNext
  PROVE  TInv' /\ TTells /\ TKept
BY TTraces, TSpans, TReads DEF TracesNext
-----------------------------------------------------------------------------
\* What a step leaves alone: a domain whose variables do not change keeps its
\* part, since told only grows, and by rows of another domain.
LEMMA VFrame ==
  ASSUME VInv, UNCHANGED verification, told \subseteq told'
  PROVE  VInv' /\ VKept /\ VTouched = {}
<1>1. VInv'
  BY DEF verification, VInv, VerificationTypeOK, AnnouncedIsScored, Scored, UntoldVerification,
         ToldReports, ToldReviews, ReviewsOf, ViewInv
<1>2. VTouched = {}
  BY TouchesNone DEF VTouched, verification
<1>3. VerificationStays
  BY DEF VerificationStays, verification
<1>4. QED
  BY <1>1, <1>2, <1>3, NoneIsAtMostOne DEF VKept

LEMMA EFrame ==
  ASSUME EInv, UNCHANGED evolution, told \subseteq told',
         told' \subseteq told \cup VRows' \cup TRows'
  PROVE  EInv' /\ EKept /\ ETouched = {}
<1>1. ExperimentsUntold'
  BY DEF evolution, EInv, ExperimentsUntold, VRows, TRows, RowsOf, Row
<1>2. EKept /\ ETouched = {}
  BY EKeeps DEF evolution
<1>3. QED
  BY <1>1, <1>2 DEF evolution, EInv, EvolutionTypeOK, UntoldEvolution

LEMMA TFrame ==
  ASSUME TInv, UNCHANGED observability, told \subseteq told'
  PROVE  TInv' /\ TKept /\ TTouched = {}
<1>1. TInv'
  BY DEF observability, TInv, TracesTypeOK, UntoldTraces, ToldTraces, ToldSpans, SpansOf, TraceInv
<1>2. TKept /\ TTouched = {}
  BY TKeeps DEF observability, TInv, TracesTypeOK
<1>3. QED
  BY <1>1, <1>2

\* No table loses a row, so what was told of stays there.
LEMMA ToldStays ==
  ASSUME ToldInv, VKept, EKept, TKept, ExperimentsUntold,
         told' \subseteq told \cup VRows' \cup ERows' \cup TRows'
  PROVE  ToldInv'
<1>1. told \cap RowsOf("experiment", experiments) = {}
  BY DEF ExperimentsUntold, RowsOf
<1>2. /\ RowsOf("report", reports) \subseteq RowsOf("report", reports')
      /\ RowsOf("review", reviews) \subseteq RowsOf("review", reviews')
  BY DEF RowsOf, VKept, VerificationStays
<1>3. RowsOf("signal", signals) \subseteq RowsOf("signal", signals')
  BY DEF RowsOf, EKept, EvolutionStays
<1>4. TRows \subseteq TRows'
  BY DEF TRows, RowsOf, TKept, TracesStay
<1>5. QED
  BY <1>1, <1>2, <1>3, <1>4 DEF ToldInv, ERows, VRows
-----------------------------------------------------------------------------
\* Only an INSERT counts, and only up to the bound.
LEMMA RowsStep ==
  ASSUME rows \in 0 .. MaxRows, Next
  PROVE  rows' \in 0 .. MaxRows
<1>1. rows' = rows \/ Insert
  <2>1. CASE VerificationNext
    BY <2>1 DEF VerificationNext, CreateReport, UpdateOverallScore, createReport,
       CreateReportFails, listReports, assignReview, AssignReview, completeReview, GetReport,
       getReport, shared
  <2>2. CASE EvolutionNext
    BY <2>2 DEF EvolutionNext, createExperiment, CreateExperiment, listExperiments,
       updateExperimentStatus, createKnowledge, CreateKnowledge, createSignal, CreateSignal,
       listSignals, acknowledgeSignal, shared
  <2>3. CASE TracesNext
    BY <2>3 DEF TracesNext, startTrace, CreateTrace, listTraces, recordSpan, RecordSpan,
       completeTrace, recordMetric, RecordMetric, GetTrace, getTrace, shared
  <2>4. QED
    BY <2>1, <2>2, <2>3 DEF Next
<1>2. QED
  BY <1>1, RowsAssumption DEF Insert

LEMMA Initial == Init => IInv
<1> SUFFICES ASSUME Init PROVE IInv
  OBVIOUS
<1> USE DEF Init, RowsInit, VerificationInit, EvolutionInit, TracesInit
<1>1. rows \in 0 .. MaxRows /\ ToldInv
  BY RowsAssumption DEF ToldInv
<1>2. VInv
  <2>1. VerificationTypeOK
    BY DEF VerificationTypeOK, noView
  <2>2. AnnouncedIsScored /\ UntoldVerification /\ ViewInv
    BY DEF AnnouncedIsScored, UntoldVerification, ViewInv, noView
  <2>3. QED
    BY <2>1, <2>2 DEF VInv
<1>3. EInv
  BY DEF EInv, EvolutionTypeOK, UntoldEvolution, ExperimentsUntold
<1>4. TInv
  <2>1. TracesTypeOK
    BY DEF TracesTypeOK, noTrace
  <2>2. UntoldTraces /\ TraceInv
    BY DEF UntoldTraces, TraceInv, noTrace
  <2>3. QED
    BY <2>1, <2>2 DEF TInv
<1>5. QED
  BY <1>1, <1>2, <1>3, <1>4 DEF IInv

\* A step keeps the invariant, and what was written down.
LEMMA Step ==
  ASSUME IInv, [Next]_vars
  PROVE  IInv' /\ VKept /\ EKept /\ TKept /\ OneAtMost(VTouched \cup ETouched \cup TTouched)
<1> USE DEF IInv
<1>1. CASE VerificationNext /\ UNCHANGED <<evolution, observability>> /\ Next
  <2>1. VInv' /\ VTells /\ VKept
    BY <1>1, VStep
  <2>2. EInv' /\ EKept /\ ETouched = {} /\ TInv' /\ TKept /\ TTouched = {}
    BY <1>1, <2>1, EFrame, TFrame DEF VTells
  <2>3. ToldInv'
    BY <2>1, <2>2, ToldStays DEF VTells, EInv
  <2>4. VTouched \cup ETouched \cup TTouched = VTouched
    BY <2>2
  <2>5. QED
    BY <1>1, <2>1, <2>2, <2>3, <2>4, RowsStep DEF VKept
<1>2. CASE EvolutionNext /\ UNCHANGED <<verification, observability>> /\ Next
  <2>1. EInv' /\ ETells /\ EKept
    BY <1>2, EStep
  <2>2. VInv' /\ VKept /\ VTouched = {} /\ TInv' /\ TKept /\ TTouched = {}
    BY <1>2, <2>1, VFrame, TFrame DEF ETells
  <2>3. ToldInv'
    BY <2>1, <2>2, ToldStays DEF ETells, EInv
  <2>4. VTouched \cup ETouched \cup TTouched = ETouched
    BY <2>2
  <2>5. QED
    BY <1>2, <2>1, <2>2, <2>3, <2>4, RowsStep DEF EKept
<1>3. CASE TracesNext /\ UNCHANGED <<verification, evolution>> /\ Next
  <2>1. TInv' /\ TTells /\ TKept
    BY <1>3, TStep
  <2>2. VInv' /\ VKept /\ VTouched = {} /\ EInv' /\ EKept /\ ETouched = {}
    BY <1>3, <2>1, VFrame, EFrame DEF TTells
  <2>3. ToldInv'
    BY <2>1, <2>2, ToldStays DEF TTells, EInv
  <2>4. VTouched \cup ETouched \cup TTouched = TTouched
    BY <2>2
  <2>5. QED
    BY <1>3, <2>1, <2>2, <2>3, <2>4, RowsStep DEF TKept
<1>4. CASE UNCHANGED vars
  <2>1. UNCHANGED <<verification, evolution, observability>> /\ told' = told /\ rows' = rows
    BY <1>4 DEF vars, shared
  <2>2. /\ VInv' /\ VKept /\ EInv' /\ EKept /\ TInv' /\ TKept
        /\ VTouched \cup ETouched \cup TTouched = {}
    BY <2>1, VFrame, EFrame, TFrame
  <2>3. ToldInv'
    BY <2>1, <2>2, ToldStays DEF EInv
  <2>4. QED
    BY <2>1, <2>2, <2>3, NoneIsAtMostOne
<1>5. QED
  BY <1>1, <1>2, <1>3, <1>4 DEF Next

\* The inductive invariant holds in every state of every behaviour.
THEOREM Invariant == Spec => []IInv
<1>1. IInv /\ [Next]_vars => IInv'
  BY Step
<1>2. QED
  BY Initial, <1>1, PTL DEF Spec

\* Type correctness, for any scores, results, limits and bound.
THEOREM Types == Spec => []TypeOK
<1>1. IInv => TypeOK
  BY DEF IInv, VInv, EInv, TInv, ToldInv, VRows, ERows, TRows, TypeOK
<1>2. QED
  BY Invariant, <1>1, PTL

\* A report whose creation was answered has its overall score, and no report
\* ever another.
THEOREM Announced == Spec => []AnnouncedIsScored
<1>1. IInv => AnnouncedIsScored
  BY DEF IInv, VInv
<1>2. QED
  BY Invariant, <1>1, PTL

\* What nobody was told of is as it was inserted.
THEOREM Untouched == Spec => []UntoldIsUntouched
<1>1. IInv => UntoldIsUntouched
  BY DEF IInv, VInv, EInv, TInv, UntoldVerification, UntoldEvolution, UntoldTraces,
         UntoldIsUntouched
<1>2. QED
  BY Invariant, <1>1, PTL

\* How far the finding about experiments (ExperimentsListed) goes: no order of
\* requests helps.  No client ever learns the id of an experiment, each stays
\* as its INSERT left it, and once there is one every list fails.
ExperimentsUnreachable ==
  /\ \A x \in DOMAIN experiments :
       /\ Row("experiment", x) \notin told
       /\ experiments[x] = [status |-> "proposed", conclusion |-> NULL, done |-> FALSE]
  /\ experiments # <<>> => ListExperiments = {}

\* No client can ever list, name or change an experiment.
THEOREM Unreachable == Spec => []ExperimentsUnreachable
<1>1. ASSUME IInv PROVE ExperimentsUnreachable
  <2>1. experiments # <<>> => ListExperiments = {}
    <3> SUFFICES ASSUME experiments # <<>> PROVE ListExperiments = {}
      OBVIOUS
    <3>1. 1 \in DOMAIN experiments
      BY <1>1 DEF IInv, EInv, EvolutionTypeOK
    <3>2. ~Tells(experiments[1])
      BY <1>1, <3>1, NeverShown DEF IInv, EInv, ExperimentsUntold
    <3>3. QED
      BY <3>1, <3>2 DEF ListExperiments
  <2>2. QED
    BY <1>1, <2>1 DEF IInv, EInv, ExperimentsUntold, Proposed, ExperimentsUnreachable
<1>2. QED
  BY Invariant, <1>1, PTL

\* An answer made of two reads misses nothing that was there at its start and
\* mixes in nothing of another report or trace.
THEOREM Whole == Spec => []AnswersAreWhole
<1>1. IInv => AnswersAreWhole
  BY DEF IInv, VInv, TInv, ViewInv, TraceInv, AnswersAreWhole
<1>2. QED
  BY Invariant, <1>1, PTL

\* Nothing that was written down is undone, in any table and whatever requests
\* come after it: no row goes, what is settled stays, and of all tables
\* together a statement touches at most one row, and none when it inserts one.
THEOREM Kept == Spec => RecordsKept
<1>1. IInv /\ [Next]_vars => VerificationStays /\ EvolutionStays /\ TracesStay
  BY Step DEF VKept, EKept, TKept
<1>2. IInv /\ [Next]_vars => TouchesOneRow
  <2>1. IInv /\ [Next]_vars => OneAtMost(VTouched \cup ETouched \cup TTouched)
    BY Step
  <2>2. QED
    BY <2>1 DEF OneAtMost, VTouched, ETouched, TTouched, TouchesOneRow
<1>3. QED
  BY Invariant, <1>1, <1>2, PTL DEF Spec, RecordsKept
=============================================================================
