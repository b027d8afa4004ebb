-------------------------- MODULE EvolutionRecords --------------------------
(***************************************************************************)
(* Experiments, knowledge entries and signals (internal/domain/evolution); *)
(* Weights models the rest of that domain.  An id no row has stands for    *)
(* every UUID a client may make up.                                        *)
(***************************************************************************)
EXTENDS Pages

CONSTANTS
  Conclusions,   \* conclusions a client gives an experiment
  Priorities     \* priorities of signals

ASSUME EvolutionAssumption == Priorities \subseteq Int /\ NULL \notin Conclusions

VARIABLES
  experiments,   \* rows [status, conclusion, done]; done: completed_at is set
  knowledge,     \* the source of each entry
  signals        \* rows [priority, acknowledged]

evolution == <<experiments, knowledge, signals>>

EvolutionInit == experiments = <<>> /\ knowledge = <<>> /\ signals = <<>>

-----------------------------------------------------------------------------
\* Every column of the row fits the Go field it is scanned into.
Tells(row) == Scans(row.conclusion)

\* The row is committed before RETURNING is scanned.
CreateExperiment ==
  LET row == [status |-> "proposed", conclusion |-> NULL, done |-> FALSE]
  IN  /\ Insert
      /\ experiments' = Append(experiments, row)
      /\ Answered(IF Tells(row) THEN {Row("experiment", Len(experiments) + 1)} ELSE {})

createExperiment == CreateExperiment /\ UNCHANGED <<knowledge, signals>>

\* One row that cannot be scanned fails the whole list.
ListExperiments ==
  IF \A x \in DOMAIN experiments : Tells(experiments[x])
  THEN RowsOf("experiment", experiments) ELSE {}

listExperiments == Answered(ListExperiments) /\ UNCHANGED <<rows, evolution>>

\* completed_at is set by the last two states and cleared by none; an id no
\* row has is updated without an error.
UpdateExperimentStatus(x, status, conclusion) ==
  IF x \notin DOMAIN experiments THEN experiments
  ELSE [experiments EXCEPT ![x] =
          [status |-> status, conclusion |-> conclusion,
           done |-> @.done \/ status \in {"completed", "rolled_back"}]]

\* The status is not checked; three stand for any.
updateExperimentStatus ==
  /\ \E x \in {0} \cup {n \in DOMAIN experiments : Row("experiment", n) \in told},
        status \in {"running", "completed", "rolled_back"}, conclusion \in Conclusions :
       experiments' = UpdateExperimentStatus(x, status, conclusion)
  /\ UNCHANGED <<shared, knowledge, signals>>

CreateKnowledge(source) == Insert /\ knowledge' = Append(knowledge, source)

\* An entry without a source is "manual".  Nothing refers to an entry.
createKnowledge ==
  /\ \E source \in {NULL, "workflow"} :
       CreateKnowledge(IF source = NULL THEN "manual" ELSE source)
  /\ UNCHANGED <<told, experiments, signals>>

CreateSignal(priority) ==
  /\ Insert
  /\ signals' = Append(signals, [priority |-> priority, acknowledged |-> FALSE])
  /\ Answered({Row("signal", Len(signals) + 1)})

createSignal ==
  (\E priority \in Priorities : CreateSignal(priority)) /\ UNCHANGED <<experiments, knowledge>>

\* ORDER BY priority DESC, created_at DESC.
Before(s, t) ==
  \/ signals[s].priority > signals[t].priority
  \/ signals[s].priority = signals[t].priority /\ s > t

\* Every signal, or those that are or are not acknowledged.
ListSignals(wanted, limit) ==
  LET kept == {s \in DOMAIN signals : signals[s].acknowledged \in wanted}
  IN  {Row("signal", s) : s \in
         {t \in kept : Cardinality({u \in kept : Before(u, t)}) < Clamped(limit)}}

listSignals ==
  /\ \E wanted \in {{TRUE}, {FALSE}, BOOLEAN}, limit \in Limits :
       Answered(ListSignals(wanted, limit))
  /\ UNCHANGED <<rows, evolution>>

\* Mutant: the UPDATE has lost its WHERE id = $1.
AcknowledgeEvery(s) == [t \in DOMAIN signals |-> [signals[t] EXCEPT !.acknowledged = TRUE]]

AcknowledgeSignal(s) == [signals EXCEPT ![s].acknowledged = TRUE]

acknowledgeSignal ==
  /\ \E s \in {t \in DOMAIN signals : Row("signal", t) \in told} :
       signals' = AcknowledgeSignal(s)
  /\ UNCHANGED <<shared, experiments, knowledge>>

EvolutionNext ==
  \/ createExperiment \/ listExperiments \/ updateExperimentStatus
  \/ createKnowledge \/ createSignal \/ listSignals \/ acknowledgeSignal

EvolutionTypeOK ==
  /\ experiments \in Seq([status : {"proposed", "running", "completed", "rolled_back"},
                          conclusion : {NULL} \cup Conclusions, done : BOOLEAN])
  /\ knowledge \in Seq({"manual", "workflow"})
  /\ signals \in Seq([priority : Priorities, acknowledged : BOOLEAN])
=============================================================================
