---------------------------- MODULE Verification ----------------------------
(***************************************************************************)
(* Verification reports and their reviews (internal/domain/verification).  *)
(*                                                                         *)
(* Creating a report takes two statements, an INSERT and an UPDATE of its  *)
(* overall score; reading one takes two as well.  Scores count in units in *)
(* which the weights .4, .35 and .25 are 8, 7 and 5 twentieths, so sums    *)
(* are exact.  Level, reviewer and suggestions are stored as given.        *)
(***************************************************************************)
EXTENDS Pages

CONSTANTS
  GivenScores,  \* triples <<result, path, environment>>, NULL for none
  Workflows,    \* the workflow instances a report may be about
  Results       \* results of reviews

ASSUME VerificationAssumption ==
  /\ GivenScores \subseteq ({NULL} \cup Int) \X ({NULL} \cup Int) \X ({NULL} \cup Int)
  /\ NULL \notin Int /\ NULL \notin Results /\ NULL \notin Workflows

VARIABLES
  reports,      \* rows [workflow, scores, overall, request]; the request creates it
  reviews,      \* rows [report, status, result]
  view          \* one GET /reports/{id}: [pc, report, overall, since, shown]

verification == <<reports, reviews, view>>

noView == [pc |-> "idle", report |-> 0, overall |-> NULL, since |-> {}, shown |-> {}]

VerificationInit == reports = <<>> /\ reviews = <<>> /\ view = noView

-----------------------------------------------------------------------------
\* A score that was not given counts 0; without any there is no overall score.
calculateOverallScore(scores) ==
  LET given(i) == IF scores[i] = NULL THEN 0 ELSE scores[i]
  IN  IF \A i \in 1 .. 3 : scores[i] = NULL THEN NULL
      ELSE 8 * given(1) + 7 * given(2) + 5 * given(3)

CreateReport ==
  \E workflow \in {NULL} \cup Workflows, scores \in GivenScores :
    /\ Insert
    /\ reports' = Append(reports, [workflow |-> workflow, scores |-> scores,
                                  overall |-> NULL, request |-> "open"])
    /\ UNCHANGED <<told, reviews, view>>

\* The request that is creating report k has not ended.
Open(k) == k \in DOMAIN reports /\ reports[k].request = "open"

Scored(k) == reports[k].overall = calculateOverallScore(reports[k].scores)

UpdateOverallScore ==
  \E k \in DOMAIN reports :
    /\ Open(k) /\ ~Scored(k)
    /\ reports' = [reports EXCEPT ![k].overall = calculateOverallScore(reports[k].scores)]
    /\ UNCHANGED <<shared, reviews, view>>

\* Mutant: the answer does not wait for the second statement.
CreatedAtOnce(k) == Open(k)

\* The second statement is done, or there is nothing for it to do.
Created(k) == Open(k) /\ Scored(k)

createReport ==
  \E k \in DOMAIN reports :
    /\ Created(k)
    /\ reports' = [reports EXCEPT ![k].request = "answered"]
    /\ Answered({Row("report", k)})
    /\ UNCHANGED <<rows, reviews, view>>

\* The second statement fails, its outcome is not heard, the client goes away
\* (which cancels it) or the process dies.
CreateReportFails ==
  \E k \in DOMAIN reports :
    /\ Open(k)
    /\ reports' = [reports EXCEPT ![k].request = "failed"]
    /\ UNCHANGED <<shared, reviews, view>>

\* Every report, or those about one workflow.
ListReports(workflow, limit) ==
  LET wanted == {k \in DOMAIN reports : workflow \in {NULL, reports[k].workflow}}
  IN  Newest("report", wanted, ClampedOrDefault(limit))

listReports ==
  /\ \E workflow \in {NULL} \cup Workflows, limit \in Limits :
       Answered(ListReports(workflow, limit))
  /\ UNCHANGED <<rows, verification>>

ToldReports == {k \in DOMAIN reports : Row("report", k) \in told}
ToldReviews == {v \in DOMAIN reviews : Row("review", v) \in told}

\* The foreign key: a report can be reviewed before it has its score.
AssignReview(k) ==
  /\ Insert
  /\ reviews' = Append(reviews, [report |-> k, status |-> "pending", result |-> NULL])
  /\ Answered({Row("review", Len(reviews) + 1)})

assignReview == (\E k \in ToldReports : AssignReview(k)) /\ UNCHANGED <<reports, view>>

\* Mutant: the result is lost on its way into the row.
CompleteReviewUnread(v, result) == [reviews EXCEPT ![v].status = "completed"]

\* A review that is completed already is completed again.
CompleteReview(v, result) ==
  [reviews EXCEPT ![v].status = "completed", ![v].result = result]

completeReview ==
  /\ \E v \in ToldReviews, result \in Results : reviews' = CompleteReview(v, result)
  /\ UNCHANGED <<shared, reports, view>>

-----------------------------------------------------------------------------
ReviewsOf(k) == {v \in DOMAIN reviews : reviews[v].report = k}
CompletedOf(k) == {v \in ReviewsOf(k) : reviews[v].status = "completed"}

\* since: the reviews there were when the report was read.
GetReport ==
  /\ view.pc # "reviews"
  /\ \E k \in ToldReports :
       view' = [pc |-> "reviews", report |-> k, overall |-> reports[k].overall,
                since |-> ReviewsOf(k), shown |-> {}]
  /\ UNCHANGED <<shared, reports, reviews>>

\* Mutant: the reviews are those that are completed.
GetCompletedReviews(k) == CompletedOf(k)

GetReviewsByReport(k) == ReviewsOf(k)

getReport ==
  /\ view.pc = "reviews"
  /\ LET shown == GetReviewsByReport(view.report)
     IN  /\ view' = [view EXCEPT !.pc = "answered", !.shown = shown]
         /\ Answered({Row("review", v) : v \in shown})
  /\ UNCHANGED <<rows, reports, reviews>>

VerificationNext ==
  \/ CreateReport \/ UpdateOverallScore \/ createReport \/ CreateReportFails
  \/ listReports \/ assignReview \/ completeReview \/ GetReport \/ getReport

VerificationTypeOK ==
  /\ reports \in Seq([workflow : {NULL} \cup Workflows, scores : GivenScores,
                      overall : {NULL} \cup Int, request : {"open", "answered", "failed"}])
  /\ reviews \in Seq([report : Nat, status : {"pending", "completed"},
                      result : {NULL} \cup Results])
  /\ \A v \in DOMAIN reviews :
       /\ reviews[v].report \in DOMAIN reports
       /\ (reviews[v].status = "completed") = (reviews[v].result # NULL)
  /\ view \in [pc : {"idle", "reviews", "answered"}, report : Nat, overall : {NULL} \cup Int,
               since : SUBSET (DOMAIN reviews), shown : SUBSET (DOMAIN reviews)]
=============================================================================
