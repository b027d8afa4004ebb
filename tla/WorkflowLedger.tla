--------------------------- MODULE WorkflowLedger ---------------------------
(***************************************************************************)
(* What the workflow tables promise, with no request in sight: the rows    *)
(* of workflow_templates, workflow_instances and tasks and the order in    *)
(* which they may change.  Workflow implements it (WorkflowProofs), with   *)
(* the tables mapped to themselves.                                        *)
(***************************************************************************)
EXTENDS Naturals, Sequences

CONSTANTS
  Instances, Templates, NoTemplate,
  Bodies,      \* the stage lists a template row may hold
  Statuses,    \* the values of workflow_status
  Slots        \* the stage numbers a task row may carry

VARIABLES
  templates,     \* stage list of each template, <<>> before it is created
  templateOf,    \* template of each instance, NoTemplate before it is created
  status, currentStage,
  tasks,         \* tasks[w][k]: the task of stage k of instance w
  completions,   \* how many task completions of instance w were committed
  announced      \* instances whose id was given to a client

tables == <<templates, templateOf, status, currentStage, tasks, completions,
            announced>>

Stages(w) == 0 .. Len(templates[templateOf[w]]) - 1
Opened(w) == templateOf[w] # NoTemplate

Empty ==
  /\ templates = [t \in Templates |-> <<>>]
  /\ templateOf = [w \in Instances |-> NoTemplate]
  /\ status = [w \in Instances |-> "absent"]
  /\ currentStage = [w \in Instances |-> 0]
  /\ tasks = [w \in Instances |-> [k \in Slots |-> "absent"]]
  /\ completions = [w \in Instances |-> 0]
  /\ announced = {}

Define(t) ==
  /\ templates[t] = <<>>
  /\ \E b \in Bodies : templates' = [templates EXCEPT ![t] = b]
  /\ UNCHANGED <<templateOf, status, currentStage, tasks, completions, announced>>

Open(w, t) ==
  /\ ~ Opened(w) /\ templates[t] # <<>>
  /\ templateOf' = [templateOf EXCEPT ![w] = t]
  /\ status' = [status EXCEPT ![w] = "active"]
  /\ UNCHANGED <<templates, currentStage, tasks, completions, announced>>

\* Tasks appear in stage order, while nobody knows the instance yet; only
\* the first is assigned.
AddTask(w, k) ==
  /\ Opened(w) /\ w \notin announced
  /\ k \in Stages(w) /\ tasks[w][k] = "absent"
  /\ \A j \in 0 .. k - 1 : tasks[w][j] # "absent"
  /\ tasks' = [tasks EXCEPT ![w][k] = IF k = 0 THEN "assigned" ELSE "pending"]
  /\ UNCHANGED <<templates, templateOf, status, currentStage, completions, announced>>

\* A client learns of an instance only when it is whole.
Announce(w) ==
  /\ Opened(w)
  /\ \A k \in Stages(w) : tasks[w][k] # "absent"
  /\ announced' = announced \union {w}
  /\ UNCHANGED <<templates, templateOf, status, currentStage, tasks, completions>>

Complete(w, k) ==
  /\ w \in announced /\ k \in Stages(w)
  /\ tasks' = [tasks EXCEPT ![w][k] = "completed"]
  /\ completions' = [completions EXCEPT ![w] = @ + 1]
  /\ UNCHANGED <<templates, templateOf, status, currentStage, announced>>

\* The stage may move either way, but never beyond what was completed and
\* never back to 0.
MoveStage(w) ==
  /\ w \in announced
  /\ \E n \in 1 .. completions[w] :
       currentStage' = [currentStage EXCEPT ![w] = n]
  /\ UNCHANGED <<templates, templateOf, status, tasks, completions, announced>>

Finish(w) ==
  /\ w \in announced
  /\ completions[w] >= Len(templates[templateOf[w]])
  /\ status' = [status EXCEPT ![w] = "completed"]
  /\ UNCHANGED <<templates, templateOf, currentStage, tasks, completions, announced>>

Override(w) ==
  /\ w \in announced
  /\ \E s \in Statuses : status' = [status EXCEPT ![w] = s]
  /\ UNCHANGED <<templates, templateOf, currentStage, tasks, completions, announced>>

Change ==
  \/ \E t \in Templates : Define(t)
  \/ \E w \in Instances :
       \/ \E t \in Templates : Open(w, t)
       \/ Announce(w) \/ MoveStage(w) \/ Finish(w) \/ Override(w)
       \/ \E k \in Slots : AddTask(w, k) \/ Complete(w, k)

Ledger == Empty /\ [][Change]_tables
=============================================================================
