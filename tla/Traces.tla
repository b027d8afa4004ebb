------------------------------- MODULE Traces -------------------------------
(***************************************************************************)
(* Traces, their spans, and metrics (internal/domain/observability).       *)
(*                                                                         *)
(* Reading a trace takes two statements.  A span names its trace in the    *)
(* path and its parent in the body; nothing ties the two together.         *)
(***************************************************************************)
EXTENDS Pages

VARIABLES
  traces,    \* rows [status, ended]; ended: completed_at is set
  spans,     \* rows [trace, parent], parent 0 for none
  metrics,   \* how many metrics were recorded: nothing refers to one
  trace      \* one GET /traces/{id}: [pc, trace, since, shown]

observability == <<traces, spans, metrics, trace>>

noTrace == [pc |-> "idle", trace |-> 0, since |-> {}, shown |-> {}]

TracesInit == traces = <<>> /\ spans = <<>> /\ metrics = 0 /\ trace = noTrace

-----------------------------------------------------------------------------
CreateTrace ==
  /\ Insert
  /\ traces' = Append(traces, [status |-> "active", ended |-> FALSE])
  /\ Answered({Row("trace", Len(traces) + 1)})

startTrace == CreateTrace /\ UNCHANGED <<spans, metrics, trace>>

listTraces ==
  /\ \E limit \in Limits : Answered(Newest("trace", DOMAIN traces, Clamped(limit)))
  /\ UNCHANGED <<rows, observability>>

ToldTraces == {t \in DOMAIN traces : Row("trace", t) \in told}
ToldSpans == {s \in DOMAIN spans : Row("span", s) \in told}

\* Nothing asks whether the trace has ended, or whose trace the parent is in.
RecordSpan(t, parent) ==
  /\ Insert
  /\ spans' = Append(spans, [trace |-> t, parent |-> parent])
  /\ Answered({Row("span", Len(spans) + 1)})

recordSpan ==
  /\ \E t \in ToldTraces, parent \in {0} \cup ToldSpans : RecordSpan(t, parent)
  /\ UNCHANGED <<traces, metrics, trace>>

\* Mutant: an active trace is told from an ended one by its status.
CompleteTraceByStatus(t, status) ==
  [traces EXCEPT ![t] = [status |-> status, ended |-> status # "active"]]

\* The status is not checked: a trace can end more than once, and end "active".
CompleteTrace(t, status) == [traces EXCEPT ![t] = [status |-> status, ended |-> TRUE]]

completeTrace ==
  /\ \E t \in ToldTraces, status \in {"active", "completed", "failed"} :
       traces' = CompleteTrace(t, status)
  /\ UNCHANGED <<shared, spans, metrics, trace>>

RecordMetric == Insert /\ metrics' = metrics + 1

recordMetric == RecordMetric /\ UNCHANGED <<told, traces, spans, trace>>

-----------------------------------------------------------------------------
SpansOf(t) == {s \in DOMAIN spans : spans[s].trace = t}

\* since: the spans there were when the trace was read.
GetTrace ==
  /\ trace.pc # "spans"
  /\ \E t \in ToldTraces :
       trace' = [pc |-> "spans", trace |-> t, since |-> SpansOf(t), shown |-> {}]
  /\ UNCHANGED <<shared, traces, spans, metrics>>

GetSpansByTrace(t) == SpansOf(t)

getTrace ==
  /\ trace.pc = "spans"
  /\ LET shown == GetSpansByTrace(trace.trace)
     IN  /\ trace' = [trace EXCEPT !.pc = "answered", !.shown = shown]
         /\ Answered({Row("span", s) : s \in shown})
  /\ UNCHANGED <<rows, traces, spans, metrics>>

TracesNext ==
  \/ startTrace \/ listTraces \/ recordSpan \/ completeTrace \/ recordMetric
  \/ GetTrace \/ getTrace

TracesTypeOK ==
  /\ traces \in Seq([status : {"active", "completed", "failed"}, ended : BOOLEAN])
  /\ spans \in Seq([trace : Nat, parent : Nat])
  /\ \A s \in DOMAIN spans : spans[s].trace \in DOMAIN traces /\ spans[s].parent < s
  /\ metrics \in Nat
  /\ trace \in [pc : {"idle", "spans", "answered"}, trace : Nat,
                since : SUBSET (DOMAIN spans), shown : SUBSET (DOMAIN spans)]
=============================================================================
