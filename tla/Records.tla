------------------------------ MODULE Records -------------------------------
(***************************************************************************)
(* The composition of the domains that write things down: Verification,    *)
(* EvolutionRecords and Traces.  They share the database and the clients.  *)
(***************************************************************************)
EXTENDS Verification, EvolutionRecords, Traces

vars == <<shared, verification, evolution, observability>>

Init == RowsInit /\ VerificationInit /\ EvolutionInit /\ TracesInit

Next ==
  \/ VerificationNext /\ UNCHANGED <<evolution, observability>>
  \/ EvolutionNext /\ UNCHANGED <<verification, observability>>
  \/ TracesNext /\ UNCHANGED <<verification, evolution>>

Spec == Init /\ [][Next]_vars
-----------------------------------------------------------------------------
\* Every table has its type: reviews and spans refer to rows that exist, a
\* span's parent is older than it, and a review has a result exactly when it
\* is completed.  Clients were told only of rows that were inserted.
TypeOK ==
  /\ rows \in 0 .. MaxRows
  /\ told \subseteq RowsOf("report", reports) \cup RowsOf("review", reviews)
                      \cup RowsOf("experiment", experiments) \cup RowsOf("signal", signals)
                      \cup RowsOf("trace", traces) \cup RowsOf("span", spans)
  /\ VerificationTypeOK /\ EvolutionTypeOK /\ TracesTypeOK

\* A report whose creation was answered has the overall score its scores
\* have; one whose request failed between the two statements, or has not
\* ended, may lack it, and is listed and reviewed nonetheless, but no report
\* ever has another score (verification/service.go:29).
AnnouncedIsScored ==
  \A k \in DOMAIN reports :
    /\ reports[k].overall \in {NULL, calculateOverallScore(reports[k].scores)}
    /\ reports[k].request = "answered" => Scored(k)

\* What nobody was told of is as its INSERT left it: a review pending, a
\* report without reviews, a signal not acknowledged, a trace active and
\* without spans, a span without children.  A retried create is harmless.
UntoldIsUntouched ==
  /\ \A k \in DOMAIN reports \ ToldReports : ReviewsOf(k) = {}
  /\ \A v \in DOMAIN reviews \ ToldReviews : reviews[v].status = "pending"
  /\ \A s \in DOMAIN signals : Row("signal", s) \notin told => ~signals[s].acknowledged
  /\ \A t \in DOMAIN traces \ ToldTraces :
       SpansOf(t) = {} /\ traces[t] = [status |-> "active", ended |-> FALSE]
  /\ \A p \in DOMAIN spans \ ToldSpans : \A s \in DOMAIN spans : spans[s].parent # p

\* What README.md:11 says of the loop that improves the organization
\* ("... experiment, verify, keep what was learnt") needs experiments that can
\* be looked at: the list shows those that were created.  It does not hold
\* (evolution/repository.go:119 and :141): conclusion is NULL in a new row and
\* is scanned into a string.
ExperimentsListed == RowsOf("experiment", experiments) \subseteq ListExperiments

\* An answer put together from two reads is whole: the overall score it shows
\* may be older than the table's but is no other, it shows every review, or
\* span, that was there when the first read was made and none of another
\* report or trace, and a span with its parent if the parent is in the trace.
AnswersAreWhole ==
  /\ view.pc = "answered" =>
       /\ view.overall \in {NULL, reports[view.report].overall}
       /\ view.since \subseteq view.shown /\ view.shown \subseteq ReviewsOf(view.report)
  /\ trace.pc = "answered" =>
       /\ trace.since \subseteq trace.shown /\ trace.shown \subseteq SpansOf(trace.trace)
       /\ \A s \in trace.shown :
            spans[s].parent \in trace.shown \cup (DOMAIN spans \ SpansOf(trace.trace)) \cup {0}

\* The rows of a table that a step changes or removes.
Touched(table, old, new) ==
  {Row(table, n) : n \in {m \in DOMAIN old : m \notin DOMAIN new \/ new[m] # old[m]}}

\* No report or review goes; the scores given, an overall score once it is
\* there, the report a review is of and its completion stay.
VerificationStays ==
  /\ \A k \in DOMAIN reports :
       /\ k \in DOMAIN reports'
       /\ reports'[k].workflow = reports[k].workflow /\ reports'[k].scores = reports[k].scores
       /\ reports[k].overall # NULL => reports'[k].overall = reports[k].overall
  /\ \A v \in DOMAIN reviews :
       /\ v \in DOMAIN reviews' /\ reviews'[v].report = reviews[v].report
       /\ reviews[v].status = "completed" => reviews'[v].status = "completed"

\* No experiment, entry or signal goes; an experiment that ended has ended,
\* an entry never changes, a signal keeps its priority and stays acknowledged.
EvolutionStays ==
  /\ \A x \in DOMAIN experiments :
       x \in DOMAIN experiments' /\ (experiments[x].done => experiments'[x].done)
  /\ \A e \in DOMAIN knowledge : e \in DOMAIN knowledge' /\ knowledge'[e] = knowledge[e]
  /\ \A s \in DOMAIN signals :
       /\ s \in DOMAIN signals' /\ signals'[s].priority = signals[s].priority
       /\ signals[s].acknowledged => signals'[s].acknowledged

\* No trace, span or metric goes; a trace that ended has ended, and a span
\* never changes.
TracesStay ==
  /\ \A t \in DOMAIN traces : t \in DOMAIN traces' /\ (traces[t].ended => traces'[t].ended)
  /\ \A s \in DOMAIN spans : s \in DOMAIN spans' /\ spans'[s] = spans[s]
  /\ metrics' >= metrics

\* Of all tables together a statement touches at most one row that was there,
\* and none when it inserts one.
TouchesOneRow ==
  LET touched == Touched("report", reports, reports') \cup Touched("review", reviews, reviews')
                   \cup Touched("experiment", experiments, experiments')
                   \cup Touched("knowledge", knowledge, knowledge')
                   \cup Touched("signal", signals, signals')
                   \cup Touched("trace", traces, traces') \cup Touched("span", spans, spans')
  IN  /\ \A a, b \in touched : a = b
      /\ rows' # rows => touched = {}

\* What was written down stays, in every table, however often requests are
\* retried and whatever comes between their statements (CompleteReview,
\* AcknowledgeSignal, CompleteTrace and the rest look at no earlier state).
RecordsKept ==
  [][VerificationStays /\ EvolutionStays /\ TracesStay /\ TouchesOneRow]_vars
=============================================================================
