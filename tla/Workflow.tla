------------------------------ MODULE Workflow ------------------------------
(***************************************************************************)
(* The workflow domain of the backend (internal/domain/workflow).          *)
(*                                                                         *)
(* Every HTTP request runs in a goroutine of its own (a handler); every    *)
(* repository call is one SQL statement that commits by itself, so a       *)
(* service method is a sequence of steps that other handlers, a lost       *)
(* connection, a cancelled request context or the end of the process may   *)
(* interrupt.  pc[h] names the statement handler h executes next; a method *)
(* with a single statement is one action and needs no handler.             *)
(***************************************************************************)
EXTENDS Naturals, Sequences, FiniteSets

CONSTANTS
  Instances,        \* ids of workflow instances
  Templates,        \* ids of workflow templates
  Handlers,         \* goroutines that serve requests
  PostedTypes,      \* what clients put in the "type" of a stage
  StageLists,       \* "stages" arrays clients post, as lists of stage types
  MaxStages,        \* no template has more stages
  PatchStatuses,    \* what clients put in PATCH .../status
  Faults,           \* may statements fail and processes crash?
  MaxInFlight,      \* requests served at the same time
  MaxRequests,      \* bound on the requests ever accepted
  NoInstance, NoTemplate

StageType == {"plan", "execute", "review"}
WorkflowStatus == {"active", "paused", "completed", "failed"}
TaskStatus == {"pending", "assigned", "completed"}
DefaultStages == <<"plan", "execute", "review">>

ASSUME ConstantsAssumption ==
  /\ IsFiniteSet(Handlers)
  /\ MaxStages \in Nat /\ MaxStages >= Len(DefaultStages)
  /\ StageType \subseteq PostedTypes
  /\ StageLists \subseteq Seq(PostedTypes)
  /\ \A s \in StageLists : Len(s) <= MaxStages
  /\ PatchStatuses \subseteq WorkflowStatus
  /\ Faults \in BOOLEAN
  /\ MaxInFlight \in Nat /\ MaxRequests \in Nat
  /\ NoInstance \notin Instances /\ NoTemplate \notin Templates

VARIABLES
  templates, templateOf, status, currentStage, tasks,  \* the tables
  completions, announced,   \* history: see WorkflowLedger
  accepted,                 \* requests accepted so far
  pc,                       \* next statement of each handler
  wf, at,                   \* instance and stage a handler works on
  tmpl,                     \* template a start request names
  seen,                     \* current_stage read, or the stage to write
  shown                     \* task rows read for a response

tables == <<templates, templateOf, status, currentStage, tasks, completions,
            announced>>
locals == <<wf, at, tmpl, seen, shown>>
vars == <<tables, accepted, pc, locals>>

Slots == 0 .. MaxStages - 1
NoTasks == [k \in Slots |-> "absent"]

StageCount(w) == Len(templates[templateOf[w]])

Statements ==
  {"start.GetTemplate", "start.CreateInstance", "start.CreateTask",
   "complete.GetTask", "complete.UpdateTask", "complete.GetInstance",
   "complete.UpdateStage", "complete.GetTemplate", "complete.UpdateStatus",
   "get.GetInstance", "get.GetTasks"}
Replies == {"start.ok", "complete.ok", "get.ok", "error"}

Goto(h, l) == pc' = [pc EXCEPT ![h] = l]

Busy == {h \in Handlers : pc[h] # "idle"}

(***************************************************************************)
(* A request arrives: the handler parses it and calls its service method.  *)
(***************************************************************************)
Accept(h, l) ==
  /\ pc[h] = "idle"
  /\ accepted < MaxRequests
  /\ Cardinality(Busy) < MaxInFlight
  /\ accepted' = accepted + 1
  /\ Goto(h, l)
  /\ UNCHANGED tables

\* Clients name ids the server gave them, or ids that are no row.
Addressable == announced \union {NoInstance}

BeginStart(h, t) ==
  /\ Accept(h, "start.GetTemplate")
  /\ tmpl' = [tmpl EXCEPT ![h] = t]
  /\ UNCHANGED <<wf, at, seen, shown>>

BeginComplete(h, w, k) ==
  /\ k < IF w = NoInstance THEN 1 ELSE StageCount(w)
  /\ Accept(h, "complete.GetTask")
  /\ wf' = [wf EXCEPT ![h] = w]
  /\ at' = [at EXCEPT ![h] = k]
  /\ UNCHANGED <<tmpl, seen, shown>>

BeginGet(h, w) ==
  /\ Accept(h, "get.GetInstance")
  /\ wf' = [wf EXCEPT ![h] = w]
  /\ UNCHANGED <<at, tmpl, seen, shown>>

(***************************************************************************)
(* The handler writes its response and ends.  A client learns the id of a  *)
(* new instance from the 201 response.                                     *)
(***************************************************************************)
Release(h) ==
  /\ Goto(h, "idle")
  /\ wf' = [wf EXCEPT ![h] = NoInstance]
  /\ at' = [at EXCEPT ![h] = 0]
  /\ tmpl' = [tmpl EXCEPT ![h] = NoTemplate]
  /\ seen' = [seen EXCEPT ![h] = 0]
  /\ shown' = [shown EXCEPT ![h] = NoTasks]
  /\ UNCHANGED accepted

Respond(h) ==
  /\ pc[h] \in Replies
  /\ announced' = IF pc[h] = "start.ok" THEN announced \union {wf[h]}
                                        ELSE announced
  /\ Release(h)
  /\ UNCHANGED <<templates, templateOf, status, currentStage, tasks, completions>>

(***************************************************************************)
(* Methods of one statement.                                               *)
(***************************************************************************)
CreateTemplate(t) ==
  /\ templates[t] = <<>>
  /\ \E s \in StageLists :
       templates' = [templates EXCEPT ![t] = IF s = <<>> THEN DefaultStages ELSE s]
  /\ UNCHANGED <<templateOf, status, currentStage, tasks, completions, announced,
                 accepted, pc, locals>>

\* PATCH /workflows/instances/{id}/status writes whatever enum value it is
\* given.  For an id that is no row it updates nothing and still answers 200.
UpdateStatus(w, s) ==
  /\ status' = [status EXCEPT ![w] = s]
  /\ UNCHANGED <<templates, templateOf, currentStage, tasks, completions, announced,
                 accepted, pc, locals>>

(***************************************************************************)
(* StartWorkflow: read the template, insert the instance, then one insert  *)
(* per stage.  No transaction encloses them.                               *)
(***************************************************************************)
StartGetTemplate(h) ==
  /\ pc[h] = "start.GetTemplate"
  /\ Goto(h, IF templates[tmpl[h]] = <<>> THEN "error" ELSE "start.CreateInstance")
  /\ UNCHANGED <<tables, accepted, locals>>

CreateInstance(h, w) ==
  /\ pc[h] = "start.CreateInstance"
  /\ status[w] = "absent"
  /\ templateOf' = [templateOf EXCEPT ![w] = tmpl[h]]
  /\ status' = [status EXCEPT ![w] = "active"]
  /\ wf' = [wf EXCEPT ![h] = w]
  /\ Goto(h, "start.CreateTask")
  /\ UNCHANGED <<templates, currentStage, tasks, completions, announced, accepted,
                 at, tmpl, seen, shown>>

\* Mutant: every task starts assigned, not only the first.
InsertAssigned(h) ==
  LET w == wf[h]
      k == at[h]
  IN  /\ templates[tmpl[h]][k + 1] \in StageType
      /\ tasks' = [tasks EXCEPT ![w][k] = "assigned"]
      /\ at' = [at EXCEPT ![h] = k + 1]
      /\ Goto(h, IF k + 1 < Len(templates[tmpl[h]]) THEN "start.CreateTask" ELSE "start.ok")
      /\ UNCHANGED <<templates, templateOf, status, currentStage, completions,
                     announced, accepted, wf, tmpl, seen, shown>>

\* Mutant: the insert of a later stage is refused, the loop ends.
InsertFirstOnly(h) ==
  LET w == wf[h]
      k == at[h]
  IN  /\ templates[tmpl[h]][k + 1] \in StageType
      /\ tasks' = IF k = 0 THEN [tasks EXCEPT ![w][k] = "assigned"] ELSE tasks
      /\ at' = [at EXCEPT ![h] = k + 1]
      /\ Goto(h, CASE k > 0 -> "error"
                   [] k = 0 /\ Len(templates[tmpl[h]]) > 1 -> "start.CreateTask"
                   [] OTHER -> "start.ok")
      /\ UNCHANGED <<templates, templateOf, status, currentStage, completions,
                     announced, accepted, wf, tmpl, seen, shown>>

InsertTask(h) ==
  LET w == wf[h]
      k == at[h]
  IN  /\ templates[tmpl[h]][k + 1] \in StageType
      /\ tasks' = [tasks EXCEPT ![w][k] = IF k = 0 THEN "assigned" ELSE "pending"]
      /\ at' = [at EXCEPT ![h] = k + 1]
      /\ Goto(h, IF k + 1 < Len(templates[tmpl[h]]) THEN "start.CreateTask" ELSE "start.ok")
      /\ UNCHANGED <<templates, templateOf, status, currentStage, completions,
                     announced, accepted, wf, tmpl, seen, shown>>

\* Mutant: the loop logs the failed insert and goes on.
SkipTask(h) ==
  /\ templates[tmpl[h]][at[h] + 1] \notin StageType
  /\ at' = [at EXCEPT ![h] = @ + 1]
  /\ Goto(h, IF at[h] + 1 < Len(templates[tmpl[h]]) THEN "start.CreateTask" ELSE "start.ok")
  /\ UNCHANGED <<tables, accepted, wf, tmpl, seen, shown>>

\* A stage type outside the enum makes the insert fail and ends the loop.
RejectTask(h) ==
  /\ templates[tmpl[h]][at[h] + 1] \notin StageType
  /\ Goto(h, "error")
  /\ UNCHANGED <<tables, accepted, locals>>

CreateTask(h) ==
  /\ pc[h] = "start.CreateTask"
  /\ InsertTask(h) \/ RejectTask(h)

StartWorkflow(h) ==
  \/ StartGetTemplate(h)
  \/ \E w \in Instances : CreateInstance(h, w)
  \/ CreateTask(h)

(***************************************************************************)
(* CompleteTask: mark the task, read the instance, write the stage that    *)
(* was read plus one, and complete the instance when that was its last.    *)
(***************************************************************************)
GetTask(h) ==
  /\ pc[h] = "complete.GetTask"
  /\ Goto(h, IF wf[h] = NoInstance THEN "error" ELSE "complete.UpdateTask")
  /\ UNCHANGED <<tables, accepted, locals>>

\* Mutant: the task is taken in progress, not completed.
UpdateTaskInProgress(h) ==
  /\ pc[h] = "complete.UpdateTask"
  /\ tasks' = [tasks EXCEPT ![wf[h]][at[h]] = "in_progress"]
  /\ completions' = [completions EXCEPT ![wf[h]] = @ + 1]
  /\ Goto(h, "complete.GetInstance")
  /\ UNCHANGED <<templates, templateOf, status, currentStage, announced, accepted, locals>>

\* Mutant: the error of the task update is ignored.
UpdateTaskIgnored(h) ==
  /\ pc[h] = "complete.UpdateTask"
  /\ Goto(h, "complete.GetInstance")
  /\ UNCHANGED <<tables, accepted, locals>>

UpdateTaskStatus(h) ==
  /\ pc[h] = "complete.UpdateTask"
  /\ tasks' = [tasks EXCEPT ![wf[h]][at[h]] = "completed"]
  /\ completions' = [completions EXCEPT ![wf[h]] = @ + 1]
  /\ Goto(h, "complete.GetInstance")
  /\ UNCHANGED <<templates, templateOf, status, currentStage, announced, accepted, locals>>

\* Mutant: the stage that was read is written back.
GetInstanceNoAdvance(h) ==
  /\ pc[h] = "complete.GetInstance"
  /\ seen' = [seen EXCEPT ![h] = currentStage[wf[h]]]
  /\ Goto(h, "complete.UpdateStage")
  /\ UNCHANGED <<tables, accepted, wf, at, tmpl, shown>>

GetInstance(h) ==
  /\ pc[h] = "complete.GetInstance"
  /\ seen' = [seen EXCEPT ![h] = currentStage[wf[h]] + 1]
  /\ Goto(h, "complete.UpdateStage")
  /\ UNCHANGED <<tables, accepted, wf, at, tmpl, shown>>

UpdateInstanceStage(h) ==
  /\ pc[h] = "complete.UpdateStage"
  /\ currentStage' = [currentStage EXCEPT ![wf[h]] = seen[h]]
  /\ Goto(h, "complete.GetTemplate")
  /\ UNCHANGED <<templates, templateOf, status, tasks, completions, announced, accepted, locals>>

\* Mutant: the instance completes one stage early.
GetTemplateEarly(h) ==
  /\ pc[h] = "complete.GetTemplate"
  /\ Goto(h, IF seen[h] + 1 >= StageCount(wf[h]) THEN "complete.UpdateStatus" ELSE "complete.ok")
  /\ UNCHANGED <<tables, accepted, locals>>

\* Mutant: the last stage is missed (> instead of >=).
GetTemplateLate(h) ==
  /\ pc[h] = "complete.GetTemplate"
  /\ Goto(h, IF seen[h] > StageCount(wf[h]) THEN "complete.UpdateStatus" ELSE "complete.ok")
  /\ UNCHANGED <<tables, accepted, locals>>

GetTemplate(h) ==
  /\ pc[h] = "complete.GetTemplate"
  /\ Goto(h, IF seen[h] >= StageCount(wf[h]) THEN "complete.UpdateStatus" ELSE "complete.ok")
  /\ UNCHANGED <<tables, accepted, locals>>

UpdateInstanceStatus(h) ==
  /\ pc[h] = "complete.UpdateStatus"
  /\ status' = [status EXCEPT ![wf[h]] = "completed"]
  /\ Goto(h, "complete.ok")
  /\ UNCHANGED <<templates, templateOf, currentStage, tasks, completions, announced,
                 accepted, locals>>

CompleteTask(h) ==
  \/ GetTask(h) \/ UpdateTaskStatus(h) \/ GetInstance(h)
  \/ UpdateInstanceStage(h) \/ GetTemplate(h) \/ UpdateInstanceStatus(h)

(***************************************************************************)
(* GetWorkflow: the instance row, then the task rows.                      *)
(***************************************************************************)
ReadInstance(h) ==
  /\ pc[h] = "get.GetInstance"
  /\ \/ /\ wf[h] = NoInstance
        /\ Goto(h, "error")
        /\ UNCHANGED seen
     \/ /\ wf[h] # NoInstance
        /\ seen' = [seen EXCEPT ![h] = currentStage[wf[h]]]
        /\ Goto(h, "get.GetTasks")
  /\ UNCHANGED <<tables, accepted, wf, at, tmpl, shown>>

ReadTasks(h) ==
  /\ pc[h] = "get.GetTasks"
  /\ shown' = [shown EXCEPT ![h] = tasks[wf[h]]]
  /\ Goto(h, "get.ok")
  /\ UNCHANGED <<tables, accepted, wf, at, tmpl, seen>>

\* Mutant: the task rows are read before the instance row.
TasksFirst(h) ==
  /\ wf[h] # NoInstance
  /\ UNCHANGED <<tables, accepted, wf, at, tmpl>>
  /\ \/ /\ pc[h] = "get.GetInstance"
        /\ shown' = [shown EXCEPT ![h] = tasks[wf[h]]]
        /\ Goto(h, "get.GetTasks")
        /\ UNCHANGED seen
     \/ /\ pc[h] = "get.GetTasks"
        /\ seen' = [seen EXCEPT ![h] = currentStage[wf[h]]]
        /\ Goto(h, "get.ok")
        /\ UNCHANGED shown

GetWorkflow(h) == ReadInstance(h) \/ ReadTasks(h)

(***************************************************************************)
(* Failures.  A statement fails, or succeeds and its result is lost (a     *)
(* failure at the following statement); the handler answers with an error. *)
(* A crash ends every handler; the committed rows stay.                    *)
(***************************************************************************)
StatementFails(h) ==
  /\ Faults
  /\ pc[h] \in Statements \union (Replies \ {"error"})
  /\ Goto(h, "error")
  /\ UNCHANGED <<tables, accepted, locals>>

Crash ==
  /\ Faults
  /\ Busy # {}
  /\ pc' = [h \in Handlers |-> "idle"]
  /\ wf' = [h \in Handlers |-> NoInstance]
  /\ at' = [h \in Handlers |-> 0]
  /\ tmpl' = [h \in Handlers |-> NoTemplate]
  /\ seen' = [h \in Handlers |-> 0]
  /\ shown' = [h \in Handlers |-> NoTasks]
  /\ UNCHANGED <<tables, accepted>>

Init ==
  /\ templates = [t \in Templates |-> <<>>]
  /\ templateOf = [w \in Instances |-> NoTemplate]
  /\ status = [w \in Instances |-> "absent"]
  /\ currentStage = [w \in Instances |-> 0]
  /\ tasks = [w \in Instances |-> NoTasks]
  /\ completions = [w \in Instances |-> 0]
  /\ announced = {}
  /\ accepted = 0
  /\ pc = [h \in Handlers |-> "idle"]
  /\ wf = [h \in Handlers |-> NoInstance]
  /\ at = [h \in Handlers |-> 0]
  /\ tmpl = [h \in Handlers |-> NoTemplate]
  /\ seen = [h \in Handlers |-> 0]
  /\ shown = [h \in Handlers |-> NoTasks]

Step(h) == StartWorkflow(h) \/ CompleteTask(h) \/ GetWorkflow(h) \/ Respond(h)

Begin(h) ==
  \/ \E t \in Templates : BeginStart(h, t)
  \/ \E w \in Addressable :
       \/ \E k \in Slots : BeginComplete(h, w, k)
       \/ BeginGet(h, w)

Next ==
  \/ \E t \in Templates : CreateTemplate(t)
  \/ \E w \in announced, s \in PatchStatuses : UpdateStatus(w, s)
  \/ \E h \in Handlers : Begin(h) \/ Step(h) \/ StatementFails(h)
  \/ Crash

Spec == Init /\ [][Next]_vars

\* The Go scheduler runs every goroutine, so a handler whose statement can
\* be executed gets to execute it.  Nothing obliges clients to call.
FairSpec == Spec /\ \A h \in Handlers : WF_vars(Step(h))
-----------------------------------------------------------------------------
(***************************************************************************)
(* Properties.                                                             *)
(***************************************************************************)

\* Statements and replies of a handler that holds an instance id.
OnInstance == {"start.CreateTask", "start.ok", "complete.UpdateTask", "complete.GetInstance",
               "complete.UpdateStage", "complete.GetTemplate", "complete.UpdateStatus",
               "get.GetTasks"}

\* Every variable has its type; in particular no task row ever carries the
\* enum values "in_progress" and "rejected", which model.go declares.
TypeOK ==
  /\ templates \in [Templates -> Seq(PostedTypes)]
  /\ \A t \in Templates : Len(templates[t]) <= MaxStages
  /\ templateOf \in [Instances -> Templates \union {NoTemplate}]
  /\ status \in [Instances -> WorkflowStatus \union {"absent"}]
  /\ currentStage \in [Instances -> Nat]
  /\ tasks \in [Instances -> [Slots -> TaskStatus \union {"absent"}]]
  /\ completions \in [Instances -> Nat]
  /\ announced \subseteq Instances
  /\ accepted \in Nat
  /\ pc \in [Handlers -> Statements \union Replies \union {"idle"}]
  /\ wf \in [Handlers -> Instances \union {NoInstance}]
  /\ \A h \in Handlers : pc[h] \in OnInstance => wf[h] \in Instances
  /\ at \in [Handlers -> Nat]
  /\ tmpl \in [Handlers -> Templates \union {NoTemplate}]
  /\ seen \in [Handlers -> Nat]
  /\ shown \in [Handlers -> [Slots -> TaskStatus \union {"absent"}]]

\* An instance a client was told about has a task for every stage of its
\* template, whatever failed while other instances were being created
\* (StartWorkflow inserts row by row outside a transaction).
AnnouncedIsWhole ==
  \A w \in announced :
    /\ status[w] # "absent"
    /\ \A k \in 0 .. StageCount(w) - 1 : tasks[w][k] # "absent"

\* Handlers that have marked a task of w completed and have not yet written
\* the stage.
Pending(w) == {h \in Handlers : /\ pc[h] \in {"complete.GetInstance", "complete.UpdateStage"}
                                /\ wf[h] = w}

\* The stage of an instance, together with the advances still on their way,
\* never exceeds the completions that were committed: concurrent, repeated
\* and failed CompleteTask calls may lose an advance but never invent one.
StageIsBacked ==
  \A w \in Instances : currentStage[w] + Cardinality(Pending(w)) <= completions[w]

\* CompleteTask completes an instance only after as many task completions as
\* its template has stages (clients that PATCH "completed" themselves are
\* another matter).
CompletedIsEarned ==
  "completed" \notin PatchStatuses =>
    \A w \in Instances : status[w] = "completed" => completions[w] >= StageCount(w)

\* The response of GetWorkflow is built from two reads; it never shows an
\* advanced stage next to task rows none of which is completed.
ViewConsistent ==
  \A h \in Handlers :
    pc[h] = "get.ok" /\ seen[h] > 0 => \E k \in Slots : shown[h][k] = "completed"

\* Exact count: between requests the stage is the number of completions and
\* the instance is completed as soon as there is one per stage.
CountExact ==
  Busy = {} =>
    \A w \in announced :
      /\ currentStage[w] = completions[w]
      /\ status[w] = "completed" <=> completions[w] >= StageCount(w)

\* Served one at a time and without failures, CompleteTask keeps exact count.
SerialExact == MaxInFlight = 1 /\ ~ Faults /\ PatchStatuses = {} => CountExact

\* What README.md says of the workflow: Planner, then Executor, then
\* Reviewer.  CompleteTask does not look at the stage of the task it is
\* given, so the code does not keep this.
StagesInOrder ==
  \A w \in announced : \A k \in 1 .. StageCount(w) - 1 :
    tasks[w][k] = "completed" => tasks[w][k - 1] = "completed"

\* Without failures and PATCH, an instance whose stage has reached the end of
\* its template is completed in the end: whoever wrote that stage goes on to
\* write the status, however its steps interleave with others.
EndReachedIsCompleted ==
  \A w \in Instances :
    (status[w] # "absent" /\ currentStage[w] >= StageCount(w)) ~> (status[w] = "completed")

\* The safety half of it, at every moment: an instance at its end that is not
\* completed has a handler on it that is about to complete it, whichever
\* stages other handlers write meanwhile.
AboutToComplete(h, w) ==
  /\ wf[h] = w
  /\ \/ pc[h] = "complete.UpdateStatus"
     \/ pc[h] = "complete.GetTemplate" /\ seen[h] >= StageCount(w)

EndHasFinisher ==
  ~ Faults /\ PatchStatuses = {} =>
    \A w \in Instances :
      status[w] \notin {"absent", "completed"} /\ currentStage[w] >= StageCount(w) =>
        \E h \in Handlers : AboutToComplete(h, w)

\* Without failures, and with stage types the database accepts, an instance
\* row that was inserted becomes a whole instance its client knows of.
StartedIsAnnounced ==
  \A w \in Instances : (status[w] # "absent") ~> (w \in announced)

\* The safety half of it: an instance row no client knows of has the handler
\* that inserted it still at work on its tasks or its response.
GoodTypes == \A s \in StageLists : \A k \in 1 .. Len(s) : s[k] \in StageType

StartedHasStarter ==
  ~ Faults /\ GoodTypes =>
    \A w \in Instances :
      status[w] # "absent" /\ w \notin announced =>
        \E h \in Handlers : wf[h] = w /\ pc[h] \in {"start.CreateTask", "start.ok"}

\* The tables change only as WorkflowLedger says.
Bodies == {IF s = <<>> THEN DefaultStages ELSE s : s \in StageLists}
L == INSTANCE WorkflowLedger WITH Statuses <- WorkflowStatus
LedgerKept == L!Ledger
=============================================================================
