--------------------------- MODULE WorkflowProofs ---------------------------
(***************************************************************************)
(* Proofs about Workflow, for every value of its constants.                *)
(*                                                                         *)
(* The properties proved are conjuncts of IInv, an inductive invariant.    *)
(* What it adds to them is what a handler may rely on at each statement:   *)
(* StartOK and CreatorsDiffer (a start request works alone on an instance  *)
(* nobody knows), ServeOK (the other requests work on announced ones) and  *)
(* AdvanceOK (the stage a handler is about to write is paid for).          *)
(* SerialInv, further down, is about one request at a time; it says what   *)
(* the CompleteTask under way has still to write.                          *)
(***************************************************************************)
EXTENDS Workflow, FiniteSetTheorems, TLAPS

Creating(h) == pc[h] \in {"start.CreateTask", "start.ok"}

RowsOK ==
  \A w \in Instances :
    /\ status[w] = "absent" <=> templateOf[w] = NoTemplate
    /\ templateOf[w] # NoTemplate => templates[templateOf[w]] # <<>>
    /\ status[w] = "absent" => tasks[w] = NoTasks
    /\ completions[w] > 0 => \E k \in Slots : tasks[w][k] = "completed"

StartOK(h) ==
  /\ pc[h] \in {"idle", "start.GetTemplate", "start.CreateInstance"} => at[h] = 0
  /\ pc[h] \in {"start.GetTemplate", "start.CreateInstance"} => tmpl[h] \in Templates
  /\ pc[h] = "start.CreateInstance" => templates[tmpl[h]] # <<>>
  /\ Creating(h) => /\ wf[h] \in Instances /\ wf[h] \notin announced
                    /\ tmpl[h] \in Templates
                    /\ templateOf[wf[h]] = tmpl[h]
  /\ pc[h] = "start.CreateTask" =>
       /\ at[h] < Len(templates[tmpl[h]])
       /\ \A k \in Slots : tasks[wf[h]][k] = "absent" <=> k >= at[h]
  /\ pc[h] = "start.ok" =>
       \A k \in 0 .. Len(templates[tmpl[h]]) - 1 : tasks[wf[h]][k] # "absent"

CreatorsDiffer ==
  \A g, h \in Handlers : Creating(g) /\ Creating(h) /\ g # h => wf[g] # wf[h]

Serving == {"complete.UpdateTask", "complete.GetInstance", "complete.UpdateStage",
            "complete.GetTemplate", "complete.UpdateStatus", "get.GetTasks"}

ServeOK(h) ==
  /\ pc[h] \in {"complete.GetTask", "get.GetInstance"} => wf[h] \in Addressable
  /\ pc[h] \in Serving => wf[h] \in announced
  /\ pc[h] \in {"complete.GetTask", "complete.UpdateTask"} /\ wf[h] # NoInstance =>
       at[h] < StageCount(wf[h])
  /\ pc[h] = "get.GetTasks" /\ seen[h] > 0 => \E k \in Slots : tasks[wf[h]][k] = "completed"
  /\ pc[h] = "get.ok" /\ seen[h] > 0 => \E k \in Slots : shown[h][k] = "completed"

AdvanceOK(h) ==
  /\ pc[h] = "complete.UpdateStage" =>
       seen[h] >= 1 /\ seen[h] + Cardinality(Pending(wf[h])) <= completions[wf[h]] + 1
  /\ pc[h] = "complete.GetTemplate" => seen[h] <= completions[wf[h]]
  /\ pc[h] = "complete.UpdateStatus" => completions[wf[h]] >= StageCount(wf[h])

IInv ==
  /\ TypeOK /\ RowsOK /\ AnnouncedIsWhole /\ StageIsBacked /\ CompletedIsEarned
  /\ CreatorsDiffer
  /\ \A h \in Handlers : StartOK(h) /\ ServeOK(h) /\ AdvanceOK(h)
-----------------------------------------------------------------------------
(***************************************************************************)
(* Types.                                                                  *)
(***************************************************************************)
LEMMA InitTypes == Init => TypeOK
  BY ConstantsAssumption DEF ConstantsAssumption, Init, TypeOK, OnInstance, NoTasks, TaskStatus

\* Writing a status into a task row keeps the type of the table.
LEMMA TaskWriteType ==
  ASSUME TypeOK, NEW w \in Instances, NEW k, NEW v \in TaskStatus
  PROVE  [tasks EXCEPT ![w][k] = v] \in [Instances -> [Slots -> TaskStatus \union {"absent"}]]
<1>1. [tasks[w] EXCEPT ![k] = v] \in [Slots -> TaskStatus \union {"absent"}]
  BY DEF TypeOK
<1> QED BY <1>1 DEF TypeOK

\* Every step keeps the types.
LEMMA NextTypes == TypeOK /\ [Next]_vars => TypeOK'
<1> SUFFICES ASSUME TypeOK, [Next]_vars PROVE TypeOK'
  OBVIOUS
<1> USE ConstantsAssumption DEF ConstantsAssumption, TypeOK, OnInstance
<1>1. ASSUME NEW t \in Templates, CreateTemplate(t) PROVE TypeOK'
  <2>1. PICK s \in StageLists :
          templates' = [templates EXCEPT ![t] = IF s = <<>> THEN DefaultStages ELSE s]
    BY <1>1 DEF CreateTemplate
  <2>2. DefaultStages \in Seq(PostedTypes) /\ Len(DefaultStages) = 3
    BY DEF DefaultStages, StageType
  <2>3. Len(DefaultStages) <= MaxStages
    BY DEF DefaultStages, StageType
  <2> QED BY <1>1, <2>1, <2>2, <2>3 DEF CreateTemplate, locals
<1>2. ASSUME NEW w \in announced, NEW s \in PatchStatuses, UpdateStatus(w, s)
      PROVE  TypeOK'
  BY <1>2 DEF UpdateStatus, locals
<1>3. ASSUME NEW h \in Handlers, Begin(h) PROVE TypeOK'
  <2>1. ASSUME NEW t \in Templates, BeginStart(h, t) PROVE TypeOK'
    BY <2>1 DEF BeginStart, Accept, Goto, tables, Statements
  <2>2. ASSUME NEW w \in Addressable, NEW k \in Slots, BeginComplete(h, w, k) PROVE TypeOK'
    BY <2>2 DEF BeginComplete, Accept, Goto, tables, Statements, Addressable, Slots
  <2>3. ASSUME NEW w \in Addressable, BeginGet(h, w) PROVE TypeOK'
    BY <2>3 DEF BeginGet, Accept, Goto, tables, Statements, Addressable
  <2> QED BY <1>3, <2>1, <2>2, <2>3 DEF Begin
<1>4. ASSUME NEW h \in Handlers, StartWorkflow(h) PROVE TypeOK'
  <2>1. ASSUME StartGetTemplate(h) PROVE TypeOK'
    BY <2>1 DEF StartGetTemplate, Goto, tables, locals, Statements, Replies
  <2>2. ASSUME NEW w \in Instances, CreateInstance(h, w) PROVE TypeOK'
    BY <2>2 DEF CreateInstance, Goto, Statements, WorkflowStatus
  <2>3. ASSUME pc[h] = "start.CreateTask", InsertTask(h) PROVE TypeOK'
    <3>1. tasks' \in [Instances -> [Slots -> TaskStatus \union {"absent"}]]
      <4>1. (IF at[h] = 0 THEN "assigned" ELSE "pending") \in TaskStatus
        BY DEF TaskStatus
      <4> QED BY <2>3, <4>1, TaskWriteType DEF InsertTask
    <3>2. pc' \in [Handlers -> Statements \union Replies \union {"idle"}]
      BY <2>3 DEF InsertTask, Goto, Statements, Replies
    <3> QED BY <2>3, <3>1, <3>2 DEF InsertTask, Goto
  <2>4. ASSUME RejectTask(h) PROVE TypeOK'
    BY <2>4 DEF RejectTask, Goto, tables, locals, Replies
  <2> QED BY <1>4, <2>1, <2>2, <2>3, <2>4 DEF StartWorkflow, CreateTask
<1>5. ASSUME NEW h \in Handlers, CompleteTask(h) PROVE TypeOK'
  <2>1. ASSUME GetTask(h) PROVE TypeOK'
    BY <2>1 DEF GetTask, Goto, tables, locals, Statements, Replies
  <2>2. ASSUME UpdateTaskStatus(h) PROVE TypeOK'
    <3>1. tasks' \in [Instances -> [Slots -> TaskStatus \union {"absent"}]]
      <4>1. "completed" \in TaskStatus
        BY DEF TaskStatus
      <4> QED BY <2>2, <4>1, TaskWriteType DEF UpdateTaskStatus
    <3>2. pc' \in [Handlers -> Statements \union Replies \union {"idle"}]
      BY <2>2 DEF UpdateTaskStatus, Goto, Statements, Replies
    <3> QED BY <2>2, <3>1, <3>2 DEF UpdateTaskStatus, Goto, locals
  <2>3. ASSUME GetInstance(h) PROVE TypeOK'
    BY <2>3 DEF GetInstance, Goto, tables, Statements
  <2>4. ASSUME UpdateInstanceStage(h) PROVE TypeOK'
    BY <2>4 DEF UpdateInstanceStage, Goto, locals, Statements
  <2>5. ASSUME GetTemplate(h) PROVE TypeOK'
    BY <2>5 DEF GetTemplate, Goto, tables, locals, Statements, Replies
  <2>6. ASSUME UpdateInstanceStatus(h) PROVE TypeOK'
    BY <2>6 DEF UpdateInstanceStatus, Goto, locals, Replies, WorkflowStatus
  <2> QED BY <1>5, <2>1, <2>2, <2>3, <2>4, <2>5, <2>6 DEF CompleteTask
<1>6. ASSUME NEW h \in Handlers, GetWorkflow(h) PROVE TypeOK'
  <2>1. ASSUME ReadInstance(h) PROVE TypeOK'
    <3>1. CASE wf[h] = NoInstance
      <4>1. pc' = [pc EXCEPT ![h] = "error"] /\ UNCHANGED <<tables, accepted, wf, at, tmpl, seen, shown>>
        BY <2>1, <3>1 DEF ReadInstance, Goto
      <4> QED BY <4>1 DEF tables, Replies
    <3>2. CASE wf[h] # NoInstance
      <4>1. wf[h] \in Instances
        BY <3>2
      <4>2. /\ pc' = [pc EXCEPT ![h] = "get.GetTasks"]
            /\ seen' = [seen EXCEPT ![h] = currentStage[wf[h]]]
            /\ UNCHANGED <<tables, accepted, wf, at, tmpl, shown>>
        BY <2>1, <3>2 DEF ReadInstance, Goto
      <4>3. pc' \in [Handlers -> Statements \union Replies \union {"idle"}]
        BY <4>2 DEF Statements
      <4> QED BY <4>1, <4>2, <4>3 DEF tables
    <3> QED BY <3>1, <3>2
  <2>2. ASSUME ReadTasks(h) PROVE TypeOK'
    BY <2>2 DEF ReadTasks, Goto, tables, Replies
  <2> QED BY <1>6, <2>1, <2>2 DEF GetWorkflow
<1>7. ASSUME NEW h \in Handlers, Respond(h) PROVE TypeOK'
  BY <1>7 DEF Respond, Release, Goto, NoTasks
<1>8. ASSUME NEW h \in Handlers, StatementFails(h) PROVE TypeOK'
  BY <1>8 DEF StatementFails, Goto, tables, locals, Replies
<1>9. ASSUME Crash PROVE TypeOK'
  BY <1>9 DEF Crash, tables, NoTasks
<1>10. CASE UNCHANGED vars
  BY <1>10 DEF vars, tables, locals
<1> QED
  BY <1>1, <1>2, <1>3, <1>4, <1>5, <1>6, <1>7, <1>8, <1>9, <1>10 DEF Next, Step

THEOREM Types == Spec => []TypeOK
  BY InitTypes, NextTypes, PTL DEF Spec
-----------------------------------------------------------------------------
(***************************************************************************)
(* What no step undoes.                                                    *)
(***************************************************************************)

\* The steps that write a table, one by one; all others leave them alone.
LEMMA WritingSteps ==
  ASSUME [Next]_vars
  PROVE  \/ \E t \in Templates : CreateTemplate(t)
         \/ \E w \in announced, s \in PatchStatuses : UpdateStatus(w, s)
         \/ \E h \in Handlers :
              \/ \E w \in Instances : CreateInstance(h, w)
              \/ pc[h] = "start.CreateTask" /\ InsertTask(h)
              \/ UpdateTaskStatus(h) \/ UpdateInstanceStage(h) \/ UpdateInstanceStatus(h)
              \/ Respond(h)
         \/ UNCHANGED tables
<1>1. ASSUME NEW h \in Handlers, Begin(h) PROVE UNCHANGED tables
  BY <1>1 DEF Begin, BeginStart, BeginComplete, BeginGet, Accept
<1>2. ASSUME NEW h \in Handlers, StatementFails(h) PROVE UNCHANGED tables
  BY <1>2 DEF StatementFails
<1>3. ASSUME Crash PROVE UNCHANGED tables
  BY <1>3 DEF Crash
<1>4. ASSUME NEW h \in Handlers, GetWorkflow(h) PROVE UNCHANGED tables
  BY <1>4 DEF GetWorkflow, ReadInstance, ReadTasks
<1>5. ASSUME NEW h \in Handlers, CompleteTask(h)
      PROVE  \/ UpdateTaskStatus(h) \/ UpdateInstanceStage(h) \/ UpdateInstanceStatus(h)
             \/ UNCHANGED tables
  BY <1>5 DEF CompleteTask, GetTask, GetInstance, GetTemplate
<1>6. ASSUME NEW h \in Handlers, StartWorkflow(h)
      PROVE  \/ \E w \in Instances : CreateInstance(h, w)
             \/ pc[h] = "start.CreateTask" /\ InsertTask(h)
             \/ UNCHANGED tables
  BY <1>6 DEF StartWorkflow, StartGetTemplate, CreateTask, RejectTask
<1>7. UNCHANGED vars => UNCHANGED tables
  BY DEF vars
<1> QED
  BY <1>1, <1>2, <1>3, <1>4, <1>5, <1>6, <1>7 DEF Next, Step

\* Rows are only added, a completed task stays completed, completions are
\* only added, and the template of an instance never changes.
Kept ==
  /\ announced \subseteq announced'
  /\ \A t \in Templates : templates[t] # <<>> => templates'[t] = templates[t]
  /\ \A w \in Instances :
       /\ completions[w] <= completions'[w]
       /\ status[w] # "absent" => /\ status'[w] # "absent"
                                  /\ templateOf'[w] = templateOf[w]
                                  /\ templates'[templateOf[w]] = templates[templateOf[w]]
       /\ \A k \in Slots : /\ tasks[w][k] # "absent" => tasks'[w][k] # "absent"
                           /\ tasks[w][k] = "completed" => tasks'[w][k] = "completed"

LEMMA NothingUndone ==
  ASSUME IInv, TypeOK', [Next]_vars
  PROVE  Kept
<1> USE DEF IInv, TypeOK, Kept
<1>1. ASSUME NEW t \in Templates, CreateTemplate(t) PROVE Kept
  <2>1. \A w \in Instances : status[w] # "absent" => templateOf[w] # t
    BY <1>1 DEF CreateTemplate, RowsOK
  <2>2. \A x \in Templates \union {NoTemplate} : x # t => templates'[x] = templates[x]
    BY <1>1 DEF CreateTemplate
  <2> QED BY <1>1, <2>1, <2>2 DEF CreateTemplate
<1>2. ASSUME NEW w \in announced, NEW s \in PatchStatuses, UpdateStatus(w, s) PROVE Kept
  BY <1>2, ConstantsAssumption DEF ConstantsAssumption, UpdateStatus, WorkflowStatus
<1>3. ASSUME NEW h \in Handlers, NEW w \in Instances, CreateInstance(h, w) PROVE Kept
  BY <1>3 DEF CreateInstance
<1>4. ASSUME NEW h \in Handlers, pc[h] = "start.CreateTask", InsertTask(h) PROVE Kept
  <2>1. at[h] \in Slots => tasks[wf[h]][at[h]] = "absent"
    BY <1>4 DEF StartOK
  <2>2. wf[h] \in Instances
    BY <1>4 DEF OnInstance
  <2> QED BY <1>4, <2>1, <2>2 DEF InsertTask
<1>5. ASSUME NEW h \in Handlers, UpdateTaskStatus(h) PROVE Kept
  <2>1. wf[h] \in Instances
    BY <1>5 DEF UpdateTaskStatus, OnInstance
  <2>2. \A w \in Instances : completions'[w] = completions[w] \/ completions'[w] = completions[w] + 1
    BY <1>5, <2>1 DEF UpdateTaskStatus
  <2>3. \A w \in Instances, k \in Slots : tasks'[w][k] \in {tasks[w][k], "completed"}
    BY <1>5, <2>1 DEF UpdateTaskStatus
  <2>4. UNCHANGED <<announced, status, templates, templateOf>>
    BY <1>5 DEF UpdateTaskStatus
  <2>5. \A w \in Instances : completions[w] <= completions'[w]
    <3> SUFFICES ASSUME NEW w \in Instances PROVE completions[w] <= completions'[w]
      OBVIOUS
    <3>1. completions[w] \in Nat
      OBVIOUS
    <3> HIDE DEF TypeOK, IInv
    <3> QED BY <2>2, <3>1
  <2> QED BY <2>3, <2>4, <2>5
<1>6. ASSUME NEW h \in Handlers, UpdateInstanceStage(h) PROVE Kept
  BY <1>6 DEF UpdateInstanceStage
<1>7. ASSUME NEW h \in Handlers, UpdateInstanceStatus(h) PROVE Kept
  BY <1>7 DEF UpdateInstanceStatus
<1>8. ASSUME NEW h \in Handlers, Respond(h) PROVE Kept
  BY <1>8 DEF Respond
<1>9. ASSUME UNCHANGED tables PROVE Kept
  BY <1>9 DEF tables
<1> QED
  BY WritingSteps, <1>1, <1>2, <1>3, <1>4, <1>5, <1>6, <1>7, <1>8, <1>9
-----------------------------------------------------------------------------
(***************************************************************************)
(* The conjuncts that speak of tables only.                                *)
(***************************************************************************)
LEMMA RowsStep ==
  ASSUME IInv, TypeOK', [Next]_vars
  PROVE  RowsOK'
<1> USE DEF IInv, TypeOK, RowsOK
<1>1. ASSUME NEW t \in Templates, CreateTemplate(t) PROVE RowsOK'
  BY <1>1 DEF CreateTemplate
<1>2. ASSUME NEW w \in announced, NEW s \in PatchStatuses, UpdateStatus(w, s) PROVE RowsOK'
  <2>1. status[w] # "absent" /\ s # "absent"
    BY ConstantsAssumption DEF ConstantsAssumption, WorkflowStatus, AnnouncedIsWhole
  <2> QED BY <1>2, <2>1 DEF UpdateStatus
<1>3. ASSUME NEW h \in Handlers, NEW w \in Instances, CreateInstance(h, w) PROVE RowsOK'
  <2>1. tmpl[h] \in Templates /\ templates[tmpl[h]] # <<>>
    BY <1>3 DEF CreateInstance, StartOK
  <2>2. tmpl[h] # NoTemplate
    BY <2>1, ConstantsAssumption DEF ConstantsAssumption
  <2> QED BY <1>3, <2>1, <2>2 DEF CreateInstance
<1>4. ASSUME NEW h \in Handlers, pc[h] = "start.CreateTask", InsertTask(h) PROVE RowsOK'
  <2>1. wf[h] \in Instances /\ status[wf[h]] # "absent"
    <3>1. templateOf[wf[h]] # NoTemplate /\ wf[h] \in Instances
      BY <1>4, ConstantsAssumption DEF ConstantsAssumption, StartOK, Creating
    <3> QED BY <3>1
  <2>2. Kept
    BY NothingUndone
  <2>3. \A w \in Instances : w # wf[h] => tasks'[w] = tasks[w]
    BY <1>4, <2>1 DEF InsertTask
  <2> QED BY <1>4, <2>1, <2>2, <2>3 DEF InsertTask, Kept
<1>5. ASSUME NEW h \in Handlers, UpdateTaskStatus(h) PROVE RowsOK'
  <2>1. /\ wf[h] \in Instances /\ status[wf[h]] # "absent"
        /\ at[h] \in Slots
    <3>1. wf[h] \in announced /\ wf[h] # NoInstance /\ at[h] < StageCount(wf[h])
      BY <1>5, ConstantsAssumption DEF ConstantsAssumption, UpdateTaskStatus, ServeOK, Serving
    <3>2. status[wf[h]] # "absent" /\ templateOf[wf[h]] \in Templates
      BY <3>1 DEF AnnouncedIsWhole
    <3> QED BY <3>1, <3>2, ConstantsAssumption DEF ConstantsAssumption, StageCount, Slots
  <2>2. tasks'[wf[h]][at[h]] = "completed"
    BY <1>5, <2>1 DEF UpdateTaskStatus
  <2>3. \A w \in Instances : w # wf[h] =>
          tasks'[w] = tasks[w] /\ completions'[w] = completions[w]
    BY <1>5, <2>1 DEF UpdateTaskStatus
  <2> QED BY <1>5, <2>1, <2>2, <2>3 DEF UpdateTaskStatus
<1>6. ASSUME NEW h \in Handlers, UpdateInstanceStage(h) PROVE RowsOK'
  BY <1>6 DEF UpdateInstanceStage
<1>7. ASSUME NEW h \in Handlers, UpdateInstanceStatus(h) PROVE RowsOK'
  <2>1. status[wf[h]] # "absent"
    BY <1>7 DEF UpdateInstanceStatus, ServeOK, Serving, AnnouncedIsWhole
  <2> QED BY <1>7, <2>1 DEF UpdateInstanceStatus
<1>8. ASSUME NEW h \in Handlers, Respond(h) PROVE RowsOK'
  BY <1>8 DEF Respond
<1>9. ASSUME UNCHANGED tables PROVE RowsOK'
  BY <1>9 DEF tables
<1> QED
  BY WritingSteps, <1>1, <1>2, <1>3, <1>4, <1>5, <1>6, <1>7, <1>8, <1>9

LEMMA WholeStep ==
  ASSUME IInv, TypeOK', [Next]_vars
  PROVE  AnnouncedIsWhole'
<1> USE DEF IInv, TypeOK
<1>1. Kept
  BY NothingUndone
<1>2. \A w \in announced : \A k \in 0 .. StageCount(w) - 1 : k \in Slots
  <2>1. \A w \in announced : templateOf[w] \in Templates
    BY DEF AnnouncedIsWhole, RowsOK
  <2> QED BY <2>1, ConstantsAssumption DEF ConstantsAssumption, StageCount, Slots
<1>3. CASE announced' = announced
  BY <1>1, <1>2, <1>3 DEF Kept, AnnouncedIsWhole, StageCount
<1>4. ASSUME NEW h \in Handlers, Respond(h), pc[h] = "start.ok" PROVE AnnouncedIsWhole'
  <2>1. announced' = announced \union {wf[h]}
    BY <1>4 DEF Respond
  <2>2. /\ wf[h] \in Instances /\ status[wf[h]] # "absent"
        /\ \A k \in 0 .. StageCount(wf[h]) - 1 : tasks[wf[h]][k] # "absent"
    <3>1. wf[h] \in Instances /\ templateOf[wf[h]] \in Templates
      BY <1>4 DEF StartOK, Creating
    <3>2. templateOf[wf[h]] # NoTemplate
      BY <3>1, ConstantsAssumption DEF ConstantsAssumption
    <3> QED BY <1>4, <3>1, <3>2 DEF StartOK, RowsOK, StageCount, Creating
  <2>3. UNCHANGED <<templates, templateOf, status, tasks>>
    BY <1>4 DEF Respond
  <2>4. \A w \in announced' : w \in announced \/ w = wf[h]
    BY <2>1
  <2>5. \A w \in announced' : StageCount(w)' = StageCount(w) /\ status'[w] # "absent"
    BY <2>2, <2>3, <2>4 DEF AnnouncedIsWhole, StageCount
  <2> QED BY <2>2, <2>3, <2>4, <2>5 DEF AnnouncedIsWhole
<1>5. ASSUME NEW h \in Handlers, Respond(h), pc[h] # "start.ok" PROVE announced' = announced
  BY <1>5 DEF Respond
<1> QED
  BY <1>3, <1>4, <1>5, WritingSteps
     DEF CreateTemplate, UpdateStatus, CreateInstance, InsertTask, UpdateTaskStatus,
         UpdateInstanceStage, UpdateInstanceStatus, tables

LEMMA EarnedStep ==
  ASSUME IInv, TypeOK', [Next]_vars
  PROVE  CompletedIsEarned'
<1> SUFFICES ASSUME "completed" \notin PatchStatuses,
                    NEW w \in Instances, status'[w] = "completed"
             PROVE  completions'[w] >= StageCount(w)'
  BY DEF CompletedIsEarned
<1> USE DEF IInv, TypeOK
<1>1. Kept
  BY NothingUndone
<1>2. completions[w] \in Nat /\ completions'[w] \in Nat
  OBVIOUS
<1>3. status[w] # "absent" => StageCount(w) \in Nat
  <2> SUFFICES ASSUME status[w] # "absent" PROVE StageCount(w) \in Nat
    OBVIOUS
  <2>1. templateOf[w] \in Templates
    BY DEF RowsOK
  <2> QED BY <2>1 DEF StageCount
<1>4. CASE status[w] = "completed"
  <2>1. completions[w] >= StageCount(w)
    BY <1>4 DEF CompletedIsEarned
  <2>2. StageCount(w)' = StageCount(w) /\ completions[w] <= completions'[w]
    BY <1>1, <1>4 DEF Kept, StageCount
  <2> QED BY <1>2, <1>3, <1>4, <2>1, <2>2
<1>5. CASE status[w] # "completed"
  <2>1. PICK h \in Handlers : UpdateInstanceStatus(h) /\ wf[h] = w
    <3>1. ASSUME NEW x \in announced, NEW s \in PatchStatuses, UpdateStatus(x, s) PROVE FALSE
      BY <1>5, <3>1 DEF UpdateStatus
    <3>2. ASSUME NEW h \in Handlers, NEW x \in Instances, CreateInstance(h, x) PROVE FALSE
      BY <1>5, <3>2 DEF CreateInstance
    <3>3. ASSUME NEW h \in Handlers, UpdateInstanceStatus(h) PROVE wf[h] = w
      BY <1>5, <3>3 DEF UpdateInstanceStatus
    <3>4. status' # status
      BY <1>5
    <3> QED
      BY <3>1, <3>2, <3>3, <3>4, WritingSteps
         DEF CreateTemplate, InsertTask, UpdateTaskStatus, UpdateInstanceStage, Respond, tables
  <2>2. completions[w] >= StageCount(w)
    BY <2>1 DEF UpdateInstanceStatus, AdvanceOK
  <2>3. status[w] # "absent"
    BY <2>1 DEF UpdateInstanceStatus, ServeOK, Serving, AnnouncedIsWhole
  <2> QED BY <1>1, <1>2, <1>3, <2>2, <2>3 DEF Kept, StageCount
<1> QED BY <1>4, <1>5
-----------------------------------------------------------------------------
(***************************************************************************)
(* Handlers.  A step of one handler leaves the others where they are; what *)
(* they rely on is kept by NothingUndone, CreatorsAlone and BudgetKept.    *)
(***************************************************************************)
HandlerStep(h) == Begin(h) \/ Step(h) \/ StatementFails(h)

\* The local state of g does not change.
Still(g) ==
  /\ pc'[g] = pc[g] /\ wf'[g] = wf[g] /\ at'[g] = at[g]
  /\ tmpl'[g] = tmpl[g] /\ seen'[g] = seen[g] /\ shown'[g] = shown[g]

LEMMA OthersStill ==
  ASSUME TypeOK, NEW h \in Handlers, HandlerStep(h), NEW g \in Handlers, g # h
  PROVE  Still(g)
<1> USE DEF TypeOK, Still, Goto, locals
<1>1. CASE Begin(h)
  BY <1>1 DEF Begin, BeginStart, BeginComplete, BeginGet, Accept
<1>2. CASE StartWorkflow(h)
  BY <1>2 DEF StartWorkflow, StartGetTemplate, CreateInstance, CreateTask, InsertTask, RejectTask
<1>3. CASE CompleteTask(h)
  BY <1>3 DEF CompleteTask, GetTask, UpdateTaskStatus, GetInstance, UpdateInstanceStage,
              GetTemplate, UpdateInstanceStatus
<1>4. CASE GetWorkflow(h)
  <2>1. CASE ReadInstance(h)
    BY <2>1 DEF ReadInstance
  <2>2. CASE ReadTasks(h)
    BY <2>2 DEF ReadTasks
  <2> QED BY <1>4, <2>1, <2>2 DEF GetWorkflow
<1>5. CASE Respond(h)
  BY <1>5 DEF Respond, Release
<1>6. CASE StatementFails(h)
  BY <1>6 DEF StatementFails
<1> QED BY <1>1, <1>2, <1>3, <1>4, <1>5, <1>6 DEF HandlerStep, Step

\* The instance a start request fills belongs to it alone: no step of
\* another handler announces it or writes its tasks.
LEMMA CreatorsAlone ==
  ASSUME IInv, NEW g \in Handlers, Creating(g), [Next]_vars, Still(g)
  PROVE  wf[g] \notin announced' /\ tasks'[wf[g]] = tasks[wf[g]]
<1> USE DEF IInv, TypeOK, Still
<1>0. wf[g] \in Instances /\ wf[g] \notin announced
  BY DEF StartOK
<1>1. ASSUME NEW h \in Handlers, pc[h] = "start.CreateTask", InsertTask(h)
      PROVE  wf[g] \notin announced' /\ tasks'[wf[g]] = tasks[wf[g]]
  <2>1. g # h
    BY <1>1 DEF InsertTask, Goto, StartOK
  <2>2. wf[g] # wf[h]
    BY <1>1, <2>1 DEF CreatorsDiffer, Creating
  <2> QED BY <1>0, <1>1, <2>2 DEF InsertTask
<1>2. ASSUME NEW h \in Handlers, UpdateTaskStatus(h)
      PROVE  wf[g] \notin announced' /\ tasks'[wf[g]] = tasks[wf[g]]
  <2>1. wf[h] \in announced
    BY <1>2 DEF UpdateTaskStatus, ServeOK, Serving
  <2> QED BY <1>0, <1>2, <2>1 DEF UpdateTaskStatus
<1>3. ASSUME NEW h \in Handlers, Respond(h)
      PROVE  wf[g] \notin announced' /\ tasks'[wf[g]] = tasks[wf[g]]
  <2>1. g # h
    BY <1>3 DEF Respond, Release, Goto, Creating
  <2>2. pc[h] = "start.ok" => wf[g] # wf[h]
    BY <2>1 DEF CreatorsDiffer, Creating
  <2> QED BY <1>0, <1>3, <2>2 DEF Respond
<1> QED
  BY WritingSteps, <1>0, <1>1, <1>2, <1>3
     DEF CreateTemplate, UpdateStatus, CreateInstance, UpdateInstanceStage,
         UpdateInstanceStatus, tables

LEMMA PendingFinite ==
  ASSUME NEW w
  PROVE  IsFiniteSet(Pending(w)) /\ Cardinality(Pending(w)) \in Nat
<1>1. Pending(w) \in SUBSET Handlers /\ IsFiniteSet(Handlers)
  BY ConstantsAssumption DEF Pending, ConstantsAssumption
<1> QED BY <1>1, FS_Subset, FS_CardinalityType

LEMMA PendingFinitePrime ==
  ASSUME NEW w
  PROVE  IsFiniteSet(Pending(w)') /\ Cardinality(Pending(w)') \in Nat
<1>1. Pending(w)' \in SUBSET Handlers /\ IsFiniteSet(Handlers)
  BY ConstantsAssumption DEF Pending, ConstantsAssumption
<1> QED BY <1>1, FS_Subset, FS_CardinalityType

\* A handler joins Pending(w) only by the step that adds a completion of w.
LEMMA BudgetKept ==
  ASSUME IInv, [Next]_vars, NEW w \in Instances
  PROVE  Cardinality(Pending(w)') + completions[w] <= Cardinality(Pending(w)) + completions'[w]
<1> USE DEF IInv, TypeOK
<1>0. Cardinality(Pending(w)) \in Nat /\ Cardinality(Pending(w)') \in Nat /\ completions[w] \in Nat
  BY PendingFinite, PendingFinitePrime
<1>1. ASSUME NEW h \in Handlers, UpdateTaskStatus(h)
      PROVE  Cardinality(Pending(w)') + completions[w] <= Cardinality(Pending(w)) + completions'[w]
  <2>1. wf[h] \in Instances
    BY <1>1 DEF UpdateTaskStatus, OnInstance
  <2>2. CASE wf[h] = w
    <3>1. Pending(w)' = Pending(w) \union {h}
      BY <1>1, <2>2 DEF UpdateTaskStatus, Pending, Goto, locals
    <3>2. Cardinality(Pending(w)') <= Cardinality(Pending(w)) + 1
      <4> DEFINE P == Pending(w)
      <4>1. /\ IsFiniteSet(P) /\ Cardinality(P) \in Nat
            /\ Cardinality(P \union {h}) = IF h \in P THEN Cardinality(P) ELSE Cardinality(P) + 1
        BY PendingFinite, FS_AddElement
      <4>2. Cardinality(P \union {h}) <= Cardinality(P) + 1
        <5> HIDE DEF P
        <5> QED BY <4>1
      <4> QED BY <3>1, <4>2
    <3>3. completions'[w] = completions[w] + 1
      BY <1>1, <2>2 DEF UpdateTaskStatus
    <3> QED BY <1>0, <3>2, <3>3
  <2>3. CASE wf[h] # w
    <3>1. Pending(w)' = Pending(w)
      BY <1>1, <2>3 DEF UpdateTaskStatus, Pending, Goto, locals
    <3>2. completions'[w] = completions[w]
      BY <1>1, <2>3, <2>1 DEF UpdateTaskStatus
    <3> QED BY <1>0, <3>1, <3>2
  <2> QED BY <2>2, <2>3
<1>2. ASSUME Pending(w)' \subseteq Pending(w), UNCHANGED completions
      PROVE  Cardinality(Pending(w)') + completions[w] <= Cardinality(Pending(w)) + completions'[w]
  <2>1. Cardinality(Pending(w)') <= Cardinality(Pending(w))
    BY <1>2, PendingFinite, FS_Subset
  <2> QED BY <1>0, <1>2, <2>1
<1> USE DEF Pending, Goto, locals
<1>3. ASSUME NEW h \in Handlers, Begin(h) PROVE Pending(w)' \subseteq Pending(w) /\ UNCHANGED completions
  BY <1>3 DEF Begin, BeginStart, BeginComplete, BeginGet, Accept, tables
<1>4. ASSUME NEW h \in Handlers, StartWorkflow(h)
      PROVE  Pending(w)' \subseteq Pending(w) /\ UNCHANGED completions
  <2>1. CASE StartGetTemplate(h)
    BY <2>1 DEF StartGetTemplate, tables
  <2>2. ASSUME NEW x \in Instances, CreateInstance(h, x)
        PROVE  Pending(w)' \subseteq Pending(w) /\ UNCHANGED completions
    BY <2>2 DEF CreateInstance
  <2>3. CASE InsertTask(h)
    BY <2>3 DEF InsertTask
  <2>4. CASE RejectTask(h)
    BY <2>4 DEF RejectTask, tables
  <2> QED BY <1>4, <2>1, <2>2, <2>3, <2>4 DEF StartWorkflow, CreateTask
<1>5. ASSUME NEW h \in Handlers, CompleteTask(h), ~ UpdateTaskStatus(h)
      PROVE  Pending(w)' \subseteq Pending(w) /\ UNCHANGED completions
  BY <1>5 DEF CompleteTask, GetTask, GetInstance, UpdateInstanceStage, GetTemplate,
              UpdateInstanceStatus, tables
<1>6. ASSUME NEW h \in Handlers, GetWorkflow(h)
      PROVE  Pending(w)' \subseteq Pending(w) /\ UNCHANGED completions
  <2>1. CASE ReadInstance(h)
    BY <2>1 DEF ReadInstance, tables
  <2>2. CASE ReadTasks(h)
    BY <2>2 DEF ReadTasks, tables
  <2> QED BY <1>6, <2>1, <2>2 DEF GetWorkflow
<1>7. ASSUME NEW h \in Handlers, Respond(h) \/ StatementFails(h)
      PROVE  Pending(w)' \subseteq Pending(w) /\ UNCHANGED completions
  BY <1>7 DEF Respond, Release, StatementFails, tables
<1>8. ASSUME Crash PROVE Pending(w)' \subseteq Pending(w) /\ UNCHANGED completions
  BY <1>8 DEF Crash, tables
<1>9. ASSUME UNCHANGED <<completions, pc, wf>>
      PROVE  Pending(w)' \subseteq Pending(w) /\ UNCHANGED completions
  BY <1>9
<1> QED
  BY <1>1, <1>2, <1>3, <1>4, <1>5, <1>6, <1>7, <1>8, <1>9
     DEF Next, Step, CreateTemplate, UpdateStatus, vars, tables

\* Writing the stage spends one pending advance.
LEMMA StageWriteSpends ==
  ASSUME IInv, NEW w, NEW h \in Handlers, UpdateInstanceStage(h), wf[h] = w
  PROVE  Cardinality(Pending(w)') = Cardinality(Pending(w)) - 1
<1>1. h \in Pending(w) /\ Pending(w)' = Pending(w) \ {h}
  BY DEF IInv, TypeOK, UpdateInstanceStage, Pending, Goto, locals
<1> QED BY <1>1, PendingFinite, FS_RemoveElement

LEMMA BackedStep ==
  ASSUME IInv, TypeOK', [Next]_vars
  PROVE  StageIsBacked'
<1> SUFFICES ASSUME NEW w \in Instances
             PROVE  currentStage'[w] + Cardinality(Pending(w)') <= completions'[w]
  BY DEF StageIsBacked
<1>0. /\ currentStage[w] \in Nat /\ completions[w] \in Nat /\ completions'[w] \in Nat
      /\ Cardinality(Pending(w)) \in Nat /\ Cardinality(Pending(w)') \in Nat
      /\ currentStage[w] + Cardinality(Pending(w)) <= completions[w]
  BY PendingFinite, PendingFinitePrime DEF IInv, TypeOK, StageIsBacked
<1>1. CASE currentStage'[w] = currentStage[w]
  BY <1>0, <1>1, BudgetKept
<1>2. ASSUME NEW h \in Handlers, UpdateInstanceStage(h), wf[h] = w
      PROVE  currentStage'[w] + Cardinality(Pending(w)') <= completions'[w]
  <2>1. currentStage'[w] = seen[h] /\ completions'[w] = completions[w] /\ seen[h] \in Nat
    BY <1>2 DEF UpdateInstanceStage, IInv, TypeOK
  <2>2. seen[h] + Cardinality(Pending(w)) <= completions[w] + 1
    BY <1>2 DEF UpdateInstanceStage, IInv, AdvanceOK
  <2>3. Cardinality(Pending(w)') = Cardinality(Pending(w)) - 1
    BY <1>2, StageWriteSpends
  <2> QED BY <1>0, <2>1, <2>2, <2>3
<1>3. currentStage'[w] = currentStage[w] \/ \E h \in Handlers : UpdateInstanceStage(h) /\ wf[h] = w
  BY WritingSteps
     DEF IInv, TypeOK, CreateTemplate, UpdateStatus, CreateInstance, InsertTask,
         UpdateTaskStatus, UpdateInstanceStage, UpdateInstanceStatus, Respond, tables
<1> QED BY <1>1, <1>2, <1>3

\* What a handler that does not move relies on stays true.
LEMMA StillOK ==
  ASSUME IInv, TypeOK', [Next]_vars, NEW g \in Handlers, Still(g)
  PROVE  StartOK(g)' /\ ServeOK(g)' /\ AdvanceOK(g)'
<1> USE DEF Still, Kept
<1>0. Kept /\ TypeOK
  BY NothingUndone DEF IInv
<1>1. StartOK(g)'
  <2>0. StartOK(g)
    BY DEF IInv
  <2>1. CASE ~ Creating(g)
    BY <1>0, <2>0, <2>1 DEF StartOK, Creating
  <2>2. CASE Creating(g)
    <3>1. wf[g] \notin announced' /\ tasks'[wf[g]] = tasks[wf[g]]
      BY <2>2, CreatorsAlone
    <3>2. /\ wf[g] \in Instances /\ tmpl[g] \in Templates /\ templateOf[wf[g]] = tmpl[g]
          /\ status[wf[g]] # "absent" /\ templates[tmpl[g]] # <<>>
      BY <2>0, <2>2, ConstantsAssumption DEF ConstantsAssumption, StartOK, IInv, RowsOK
    <3>3. templateOf'[wf[g]] = tmpl[g] /\ templates'[tmpl[g]] = templates[tmpl[g]]
      BY <1>0, <3>2
    <3> QED BY <2>0, <2>2, <3>1, <3>2, <3>3 DEF StartOK, Creating
  <2> QED BY <2>1, <2>2
<1>2. \A w \in announced : StageCount(w)' = StageCount(w) /\ w \in announced' /\ w \in Instances
  BY <1>0 DEF IInv, AnnouncedIsWhole, StageCount, TypeOK
<1>3. ServeOK(g)'
  <2>0. ServeOK(g)
    BY DEF IInv
  <2> QED BY <1>0, <1>2, <2>0 DEF ServeOK, Serving, Addressable, TypeOK, StageCount
<1>4. AdvanceOK(g)'
  <2>0. AdvanceOK(g) /\ ServeOK(g)
    BY DEF IInv
  <2>1. ASSUME pc[g] \in {"complete.UpdateStage", "complete.GetTemplate", "complete.UpdateStatus"}
        PROVE  /\ wf[g] \in announced /\ wf[g] \in Instances
               /\ completions[wf[g]] \in Nat /\ completions'[wf[g]] \in Nat
               /\ completions[wf[g]] <= completions'[wf[g]]
               /\ seen[g] \in Nat
    BY <1>0, <1>2, <2>0, <2>1 DEF ServeOK, Serving, TypeOK
  <2>2. CASE pc[g] = "complete.UpdateStage"
    <3> DEFINE w == wf[g]
    <3>1. w \in Instances /\ completions[w] \in Nat /\ completions'[w] \in Nat /\ seen[g] \in Nat
      BY <2>1, <2>2
    <3>2. /\ Cardinality(Pending(w)) \in Nat /\ Cardinality(Pending(w)') \in Nat
          /\ Cardinality(Pending(w)') + completions[w] <= Cardinality(Pending(w)) + completions'[w]
      BY <3>1, BudgetKept, PendingFinite, PendingFinitePrime
    <3>3. seen[g] >= 1 /\ seen[g] + Cardinality(Pending(w)) <= completions[w] + 1
      BY <2>0, <2>2 DEF AdvanceOK
    <3>4. seen[g] >= 1 /\ seen[g] + Cardinality(Pending(w)') <= completions'[w] + 1
      <4> HIDE DEF w
      <4> QED BY <3>1, <3>2, <3>3
    <3>5. Pending(wf[g])' = Pending(w)'
      BY DEF Pending
    <3> QED BY <2>2, <3>4, <3>5 DEF AdvanceOK
  <2>3. CASE pc[g] = "complete.GetTemplate"
    BY <2>0, <2>1, <2>3 DEF AdvanceOK
  <2>4. CASE pc[g] = "complete.UpdateStatus"
    <3>1. StageCount(wf[g]) \in Nat
      BY <1>0, <2>1, <2>4 DEF IInv, AnnouncedIsWhole, RowsOK, TypeOK, StageCount
    <3> QED BY <1>2, <2>0, <2>1, <2>4, <3>1 DEF AdvanceOK, StageCount
  <2>5. CASE pc[g] \notin {"complete.UpdateStage", "complete.GetTemplate", "complete.UpdateStatus"}
    BY <2>5 DEF AdvanceOK
  <2> QED BY <2>2, <2>3, <2>4, <2>5
<1> QED BY <1>1, <1>3, <1>4

\* The id of an insert is fresh, so two start requests never fill the same
\* instance.
LEMMA CreatorsStep ==
  ASSUME IInv, TypeOK', [Next]_vars
  PROVE  CreatorsDiffer'
<1> USE DEF IInv, TypeOK, CreatorsDiffer, Creating
<1>1. ASSUME \A g \in Handlers : Creating(g)' => Creating(g) /\ wf'[g] = wf[g]
      PROVE  CreatorsDiffer'
  BY <1>1
<1>2. ASSUME NEW h \in Handlers, NEW w \in Instances, CreateInstance(h, w) PROVE CreatorsDiffer'
  <2>1. \A g \in Handlers : Creating(g) => wf[g] # w
    <3>1. templateOf[w] = NoTemplate
      BY <1>2 DEF CreateInstance, RowsOK
    <3> QED BY <3>1, ConstantsAssumption DEF ConstantsAssumption, StartOK
  <2>2. \A g \in Handlers : g # h => pc'[g] = pc[g] /\ wf'[g] = wf[g]
    BY <1>2 DEF CreateInstance, Goto
  <2>3. wf'[h] = w
    BY <1>2 DEF CreateInstance
  <2>4. \A f, g \in Handlers : Creating(f)' /\ Creating(g)' /\ f # g => wf'[f] # wf'[g]
    <3> SUFFICES ASSUME NEW f \in Handlers, NEW g \in Handlers, Creating(f)', Creating(g)', f # g
                 PROVE  wf'[f] # wf'[g]
      OBVIOUS
    <3>1. CASE f # h /\ g # h
      BY <2>2, <3>1
    <3>2. CASE f = h \/ g = h
      BY <2>1, <2>2, <2>3, <3>2
    <3> QED BY <3>1, <3>2
  <2> QED BY <2>4
<1>3. ASSUME NEW h \in Handlers, Begin(h)
      PROVE  \A g \in Handlers : Creating(g)' => Creating(g) /\ wf'[g] = wf[g]
  BY <1>3 DEF Begin, BeginStart, BeginComplete, BeginGet, Accept, Goto
<1>4. ASSUME NEW h \in Handlers, StartGetTemplate(h) \/ CreateTask(h)
      PROVE  \A g \in Handlers : Creating(g)' => Creating(g) /\ wf'[g] = wf[g]
  <2>1. CASE StartGetTemplate(h)
    BY <2>1 DEF StartGetTemplate, Goto, locals
  <2>2. CASE pc[h] = "start.CreateTask" /\ InsertTask(h)
    BY <2>2 DEF InsertTask, Goto
  <2>3. CASE pc[h] = "start.CreateTask" /\ RejectTask(h)
    BY <2>3 DEF RejectTask, Goto, locals
  <2> QED BY <1>4, <2>1, <2>2, <2>3 DEF CreateTask
<1>5. ASSUME NEW h \in Handlers, CompleteTask(h)
      PROVE  \A g \in Handlers : Creating(g)' => Creating(g) /\ wf'[g] = wf[g]
  BY <1>5 DEF CompleteTask, GetTask, UpdateTaskStatus, GetInstance, UpdateInstanceStage,
              GetTemplate, UpdateInstanceStatus, Goto, locals
<1>6. ASSUME NEW h \in Handlers, GetWorkflow(h)
      PROVE  \A g \in Handlers : Creating(g)' => Creating(g) /\ wf'[g] = wf[g]
  <2>1. CASE ReadInstance(h)
    BY <2>1 DEF ReadInstance, Goto
  <2>2. CASE ReadTasks(h)
    BY <2>2 DEF ReadTasks, Goto
  <2> QED BY <1>6, <2>1, <2>2 DEF GetWorkflow
<1>7. ASSUME NEW h \in Handlers, Respond(h) \/ StatementFails(h)
      PROVE  \A g \in Handlers : Creating(g)' => Creating(g) /\ wf'[g] = wf[g]
  BY <1>7 DEF Respond, Release, StatementFails, Goto, locals
<1>8. ASSUME Crash PROVE CreatorsDiffer'
  BY <1>8 DEF Crash
<1>9. ASSUME UNCHANGED <<pc, wf>> PROVE CreatorsDiffer'
  BY <1>9
<1> QED
  BY <1>1, <1>2, <1>3, <1>4, <1>5, <1>6, <1>7, <1>8, <1>9
     DEF Next, Step, StartWorkflow, CreateTemplate, UpdateStatus, vars, locals
-----------------------------------------------------------------------------
(***************************************************************************)
(* The handler that moves: what its next statement relies on is true when  *)
(* it gets there.                                                          *)
(***************************************************************************)
HandlerOK(h) == StartOK(h) /\ ServeOK(h) /\ AdvanceOK(h)

\* Nothing is relied on by a handler that is idle or about to reply.
LEMMA RestingOK ==
  ASSUME NEW h \in Handlers,
         pc'[h] = "error" \/ pc'[h] = "complete.ok" \/ (pc'[h] = "idle" /\ at'[h] = 0)
  PROVE  HandlerOK(h)'
  BY DEF HandlerOK, StartOK, ServeOK, AdvanceOK, Creating, Serving

LEMMA BeginOK ==
  ASSUME IInv, NEW h \in Handlers, Begin(h)
  PROVE  HandlerOK(h)'
<1> USE DEF IInv, TypeOK, HandlerOK, Accept, Goto
<1>0. pc[h] = "idle" /\ at[h] = 0
  BY DEF Begin, BeginStart, BeginComplete, BeginGet, StartOK
<1>1. ASSUME NEW t \in Templates, BeginStart(h, t) PROVE HandlerOK(h)'
  BY <1>0, <1>1 DEF BeginStart, StartOK, ServeOK, AdvanceOK, Creating, Serving
<1>2. ASSUME NEW w \in Addressable, NEW k \in Slots, BeginComplete(h, w, k) PROVE HandlerOK(h)'
  <2>1. /\ pc'[h] = "complete.GetTask" /\ wf'[h] = w /\ at'[h] = k
        /\ w # NoInstance => k < StageCount(w)
        /\ UNCHANGED <<templates, templateOf, announced>>
    BY <1>2 DEF BeginComplete, tables
  <2> QED BY <2>1 DEF StartOK, ServeOK, AdvanceOK, Creating, Serving, Addressable, StageCount
<1>3. ASSUME NEW w \in Addressable, BeginGet(h, w) PROVE HandlerOK(h)'
  <2>1. pc'[h] = "get.GetInstance" /\ wf'[h] = w /\ UNCHANGED announced
    BY <1>3 DEF BeginGet, tables
  <2> QED BY <2>1 DEF StartOK, ServeOK, AdvanceOK, Creating, Serving, Addressable
<1> QED BY <1>1, <1>2, <1>3 DEF Begin

LEMMA StartWorkflowOK ==
  ASSUME IInv, NEW h \in Handlers, StartWorkflow(h)
  PROVE  HandlerOK(h)'
<1> USE DEF IInv, TypeOK, Goto
<1>1. CASE StartGetTemplate(h)
  <2>1. /\ at[h] = 0 /\ tmpl[h] \in Templates
        /\ UNCHANGED <<templates, at, tmpl>>
        /\ pc'[h] = IF templates[tmpl[h]] = <<>> THEN "error" ELSE "start.CreateInstance"
    BY <1>1 DEF StartGetTemplate, StartOK, tables, locals
  <2> QED BY <2>1, RestingOK DEF HandlerOK, StartOK, ServeOK, AdvanceOK, Creating, Serving
<1>2. ASSUME NEW w \in Instances, CreateInstance(h, w) PROVE HandlerOK(h)'
  <2>1. /\ pc'[h] = "start.CreateTask" /\ wf'[h] = w /\ templateOf'[w] = tmpl[h]
        /\ UNCHANGED <<templates, tasks, announced, tmpl, at>>
    BY <1>2 DEF CreateInstance
  <2>2. /\ tmpl[h] \in Templates /\ templates[tmpl[h]] # <<>> /\ at[h] = 0
        /\ w \notin announced /\ tasks[w] = NoTasks
    BY <1>2 DEF CreateInstance, StartOK, RowsOK, AnnouncedIsWhole
  <2>3. Len(templates[tmpl[h]]) > 0
    BY <2>2
  <2>4. \A k \in Slots : tasks[w][k] = "absent" /\ k >= 0
    BY <2>2 DEF NoTasks, Slots
  <2> QED BY <2>1, <2>2, <2>3, <2>4 DEF HandlerOK, StartOK, ServeOK, AdvanceOK, Creating, Serving
<1>3. CASE pc[h] = "start.CreateTask" /\ InsertTask(h)
  <2> DEFINE w == wf[h]
             k == at[h]
             n == Len(templates[tmpl[h]])
  <2>1. /\ w \in Instances /\ w \notin announced /\ tmpl[h] \in Templates
        /\ templateOf[w] = tmpl[h] /\ k < n
        /\ \A j \in Slots : tasks[w][j] = "absent" <=> j >= k
    BY <1>3 DEF StartOK, Creating
  <2>2. k \in Nat /\ n \in Nat /\ n <= MaxStages /\ MaxStages \in Nat /\ k \in Slots
    BY <2>1, ConstantsAssumption DEF ConstantsAssumption, Slots
  <2>3. /\ UNCHANGED <<templates, templateOf, announced, wf, tmpl>> /\ at'[h] = k + 1
        /\ pc'[h] = IF k + 1 < n THEN "start.CreateTask" ELSE "start.ok"
    BY <1>3 DEF InsertTask
  <2>4. tasks'[w][k] # "absent" /\ \A j \in Slots : j # k => tasks'[w][j] = tasks[w][j]
    BY <1>3, <2>1, <2>2 DEF InsertTask
  <2>5. \A j \in Slots : tasks'[w][j] = "absent" <=> j >= k + 1
    <3> SUFFICES ASSUME NEW j \in Slots PROVE tasks'[w][j] = "absent" <=> j >= k + 1
      OBVIOUS
    <3>1. j \in Nat /\ (tasks[w][j] = "absent" <=> j >= k)
      BY <2>1 DEF Slots
    <3>2. j # k => tasks'[w][j] = tasks[w][j]
      BY <2>4
    <3> HIDE DEF w, k, n, IInv, TypeOK
    <3> QED BY <2>2, <2>4, <3>1, <3>2
  <2>6. CASE k + 1 < n
    BY <2>1, <2>3, <2>5, <2>6 DEF HandlerOK, StartOK, ServeOK, AdvanceOK, Creating, Serving
  <2>7. CASE ~ (k + 1 < n)
    <3>1. \A j \in 0 .. n - 1 : tasks'[w][j] # "absent"
      <4> SUFFICES ASSUME NEW j \in 0 .. n - 1 PROVE tasks'[w][j] # "absent"
        OBVIOUS
      <4> HIDE DEF w, k, n, IInv, TypeOK
      <4>1. j \in Slots /\ ~ (j >= k + 1)
        BY <2>2, <2>7 DEF Slots
      <4> QED BY <2>5, <4>1
    <3> QED BY <2>1, <2>3, <2>7, <3>1 DEF HandlerOK, StartOK, ServeOK, AdvanceOK, Creating, Serving
  <2> QED BY <2>6, <2>7
<1>4. CASE RejectTask(h)
  BY <1>4, RestingOK DEF RejectTask
<1> QED BY <1>1, <1>2, <1>3, <1>4 DEF StartWorkflow, CreateTask

LEMMA CompleteTaskOK ==
  ASSUME IInv, TypeOK', [Next]_vars, NEW h \in Handlers, CompleteTask(h)
  PROVE  HandlerOK(h)'
<1> USE DEF Goto
<1>0. /\ TypeOK /\ StartOK(h) /\ ServeOK(h) /\ AdvanceOK(h)
      /\ \A w \in announced : w \in Instances /\ StageCount(w) \in Nat
  <2>1. \A w \in announced : w \in Instances /\ templateOf[w] \in Templates
    BY DEF IInv, TypeOK, AnnouncedIsWhole, RowsOK
  <2> QED BY <2>1 DEF IInv, TypeOK, StageCount
<1>1. CASE GetTask(h)
  <2>1. /\ pc'[h] = IF wf[h] = NoInstance THEN "error" ELSE "complete.UpdateTask"
        /\ UNCHANGED <<templates, templateOf, announced, wf, at>>
    BY <1>0, <1>1 DEF GetTask, TypeOK, tables, locals
  <2>2. wf[h] \in announced \union {NoInstance} /\ (wf[h] # NoInstance => at[h] < StageCount(wf[h]))
    BY <1>0, <1>1 DEF GetTask, ServeOK, Addressable
  <2>3. CASE wf[h] = NoInstance
    BY <2>1, <2>3, RestingOK
  <2>4. CASE wf[h] # NoInstance
    BY <2>1, <2>2, <2>4 DEF HandlerOK, StartOK, ServeOK, AdvanceOK, Creating, Serving, StageCount
  <2> QED BY <2>3, <2>4
<1>2. CASE UpdateTaskStatus(h)
  <2>1. pc'[h] = "complete.GetInstance" /\ UNCHANGED <<announced, wf>> /\ wf[h] \in announced
    BY <1>0, <1>2 DEF UpdateTaskStatus, TypeOK, locals, ServeOK, Serving
  <2> QED BY <2>1 DEF HandlerOK, StartOK, ServeOK, AdvanceOK, Creating, Serving
<1>3. CASE GetInstance(h)
  <2> DEFINE w == wf[h]
  <2>1. /\ pc'[h] = "complete.UpdateStage" /\ UNCHANGED <<announced, wf, completions>>
        /\ seen'[h] = currentStage[w] + 1 /\ w \in announced
    BY <1>0, <1>3 DEF GetInstance, TypeOK, tables, ServeOK, Serving
  <2>2. Pending(w)' = Pending(w)
    BY <1>0, <1>3 DEF GetInstance, TypeOK, Pending
  <2>3. /\ currentStage[w] \in Nat /\ Cardinality(Pending(w)) \in Nat
        /\ completions[w] \in Nat /\ currentStage[w] + Cardinality(Pending(w)) <= completions[w]
    BY <1>0, <2>1, PendingFinite DEF IInv, TypeOK, StageIsBacked
  <2>4. seen'[h] >= 1 /\ seen'[h] + Cardinality(Pending(w)') <= completions'[w] + 1
    BY <2>1, <2>2, <2>3
  <2>5. Pending(wf[h])' = Pending(w)'
    BY <2>1 DEF Pending
  <2> QED BY <2>1, <2>4, <2>5 DEF HandlerOK, StartOK, ServeOK, AdvanceOK, Creating, Serving
<1>4. CASE UpdateInstanceStage(h)
  <2>0. PICK w : w = wf[h]
    OBVIOUS
  <2>1. /\ pc'[h] = "complete.GetTemplate" /\ UNCHANGED <<announced, wf, completions, seen>>
        /\ w \in announced /\ seen[h] + Cardinality(Pending(w)) <= completions[w] + 1
        /\ h \in Pending(w)
    BY <1>0, <1>4, <2>0
       DEF UpdateInstanceStage, TypeOK, locals, ServeOK, Serving, AdvanceOK, Pending
  <2>2. Cardinality(Pending(w)) >= 1
    <3>1. Cardinality(Pending(w)') = Cardinality(Pending(w)) - 1
      BY <1>4, <2>0, StageWriteSpends
    <3> QED BY <3>1, PendingFinite, PendingFinitePrime
  <2>3. seen[h] <= completions[w]
    <3>1. seen[h] \in Nat /\ completions[w] \in Nat /\ Cardinality(Pending(w)) \in Nat
      BY <1>0, <2>1, PendingFinite DEF TypeOK
    <3> QED BY <2>1, <2>2, <3>1
  <2> QED BY <2>0, <2>1, <2>3 DEF HandlerOK, StartOK, ServeOK, AdvanceOK, Creating, Serving
<1>5. CASE GetTemplate(h)
  <2>1. /\ pc'[h] = IF seen[h] >= StageCount(wf[h]) THEN "complete.UpdateStatus" ELSE "complete.ok"
        /\ UNCHANGED <<templates, templateOf, announced, wf, completions>>
        /\ wf[h] \in announced /\ seen[h] <= completions[wf[h]]
        /\ seen[h] \in Nat /\ completions[wf[h]] \in Nat
    BY <1>0, <1>5 DEF GetTemplate, TypeOK, tables, locals, ServeOK, Serving, AdvanceOK
  <2>2. StageCount(wf[h])' = StageCount(wf[h]) /\ StageCount(wf[h]) \in Nat
    BY <1>0, <2>1 DEF StageCount
  <2>3. CASE seen[h] >= StageCount(wf[h])
    <3>1. completions[wf[h]] >= StageCount(wf[h])
      BY <2>1, <2>2, <2>3
    <3> QED
      BY <2>1, <2>2, <2>3, <3>1 DEF HandlerOK, StartOK, ServeOK, AdvanceOK, Creating, Serving
  <2>4. CASE ~ (seen[h] >= StageCount(wf[h]))
    BY <2>1, <2>4, RestingOK
  <2> QED BY <2>3, <2>4
<1>6. CASE UpdateInstanceStatus(h)
  BY <1>0, <1>6, RestingOK DEF UpdateInstanceStatus, TypeOK
<1> QED BY <1>1, <1>2, <1>3, <1>4, <1>5, <1>6 DEF CompleteTask

LEMMA GetWorkflowOK ==
  ASSUME IInv, NEW h \in Handlers, GetWorkflow(h)
  PROVE  HandlerOK(h)'
<1> USE DEF Goto
<1>0. TypeOK /\ ServeOK(h)
  BY DEF IInv
<1>1. CASE ReadInstance(h) /\ wf[h] = NoInstance
  BY <1>0, <1>1, RestingOK DEF ReadInstance, TypeOK
<1>2. CASE ReadInstance(h) /\ wf[h] # NoInstance
  <2> DEFINE w == wf[h]
  <2>1. /\ pc'[h] = "get.GetTasks" /\ seen'[h] = currentStage[w]
        /\ UNCHANGED <<announced, wf, tasks>> /\ w \in announced /\ w \in Instances
    BY <1>0, <1>2 DEF ReadInstance, TypeOK, tables, ServeOK, Addressable
  <2>2. currentStage[w] > 0 => \E k \in Slots : tasks[w][k] = "completed"
    <3>1. currentStage[w] > 0 => completions[w] > 0
      <4>1. /\ currentStage[w] \in Nat /\ completions[w] \in Nat /\ Cardinality(Pending(w)) \in Nat
            /\ currentStage[w] + Cardinality(Pending(w)) <= completions[w]
        BY <1>0, <2>1, PendingFinite DEF TypeOK, IInv, StageIsBacked
      <4> QED BY <4>1
    <3> QED BY <2>1, <3>1 DEF IInv, RowsOK
  <2> QED BY <2>1, <2>2 DEF HandlerOK, StartOK, ServeOK, AdvanceOK, Creating, Serving
<1>3. CASE ReadTasks(h)
  <2>1. /\ pc'[h] = "get.ok" /\ shown'[h] = tasks[wf[h]] /\ UNCHANGED seen
        /\ seen[h] > 0 => \E k \in Slots : tasks[wf[h]][k] = "completed"
    BY <1>0, <1>3 DEF ReadTasks, TypeOK, ServeOK
  <2> QED BY <2>1 DEF HandlerOK, StartOK, ServeOK, AdvanceOK, Creating, Serving
<1> QED BY <1>1, <1>2, <1>3 DEF GetWorkflow, ReadInstance

\* Whatever the step, every handler can rely on what it needs afterwards.
LEMMA HandlersStep ==
  ASSUME IInv, TypeOK', [Next]_vars
  PROVE  \A h \in Handlers : HandlerOK(h)'
<1>0. TypeOK
  BY DEF IInv
<1>1. ASSUME NEW h \in Handlers, HandlerStep(h), NEW g \in Handlers PROVE HandlerOK(g)'
  <2>1. CASE g # h
    BY <1>0, <1>1, <2>1, OthersStill, StillOK DEF HandlerOK
  <2>2. HandlerOK(h)'
    <3>1. CASE Respond(h)
      <4>1. pc'[h] = "idle" /\ at'[h] = 0
        BY <1>0, <3>1 DEF Respond, Release, Goto, TypeOK
      <4> QED BY <4>1, RestingOK
    <3>2. CASE StatementFails(h)
      <4>1. pc'[h] = "error"
        BY <1>0, <3>2 DEF StatementFails, Goto, TypeOK
      <4> QED BY <4>1, RestingOK
    <3> QED
      BY <1>1, <3>1, <3>2, BeginOK, StartWorkflowOK, CompleteTaskOK, GetWorkflowOK
         DEF HandlerStep, Step
  <2> QED BY <2>1, <2>2
<1>2. ASSUME UNCHANGED <<pc, locals>>, NEW g \in Handlers PROVE HandlerOK(g)'
  <2>1. Still(g)
    BY <1>2 DEF Still, locals
  <2> QED BY <2>1, StillOK DEF HandlerOK
<1>3. ASSUME Crash, NEW g \in Handlers PROVE HandlerOK(g)'
  <2>1. pc'[g] = "idle" /\ at'[g] = 0
    BY <1>3 DEF Crash
  <2> QED BY <2>1, RestingOK
<1>4. \/ \E h \in Handlers : HandlerStep(h)
      \/ Crash
      \/ UNCHANGED <<pc, locals>>
  BY DEF Next, HandlerStep, CreateTemplate, UpdateStatus, vars
<1> QED BY <1>1, <1>2, <1>3, <1>4
-----------------------------------------------------------------------------
(***************************************************************************)
(* The invariant, and the properties it gives.                             *)
(***************************************************************************)
LEMMA InitInv == Init => IInv
<1> SUFFICES ASSUME Init PROVE IInv
  OBVIOUS
<1>1. TypeOK
  BY InitTypes
<1>2. \A w : Pending(w) = {} /\ Cardinality(Pending(w)) = 0
  <2>1. \A w : Pending(w) = {}
    BY DEF Init, Pending
  <2> QED BY <2>1, FS_EmptySet
<1>3. StageIsBacked
  BY <1>2 DEF Init, StageIsBacked
<1>4. RowsOK /\ AnnouncedIsWhole /\ CompletedIsEarned /\ CreatorsDiffer
  BY DEF Init, RowsOK, AnnouncedIsWhole, CompletedIsEarned, CreatorsDiffer, Creating
<1>5. \A h \in Handlers : StartOK(h) /\ ServeOK(h) /\ AdvanceOK(h)
  BY DEF Init, StartOK, ServeOK, AdvanceOK, Creating, Serving
<1> QED BY <1>1, <1>3, <1>4, <1>5 DEF IInv

LEMMA NextInv == IInv /\ [Next]_vars => IInv'
<1> SUFFICES ASSUME IInv, [Next]_vars PROVE IInv'
  OBVIOUS
<1>1. TypeOK'
  BY NextTypes DEF IInv
<1>2. \A h \in Handlers : HandlerOK(h)'
  BY <1>1, HandlersStep
<1> QED
  BY <1>1, <1>2, RowsStep, WholeStep, BackedStep, EarnedStep, CreatorsStep DEF IInv, HandlerOK

THEOREM Invariant == Spec => []IInv
  BY InitInv, NextInv, PTL DEF Spec

\* A client is only ever told of instances with all their tasks.
THEOREM Whole == Spec => []AnnouncedIsWhole
<1>1. IInv => AnnouncedIsWhole
  BY DEF IInv
<1> QED BY <1>1, Invariant, PTL

\* CompleteTask never invents an advance.
THEOREM Backed == Spec => []StageIsBacked
<1>1. IInv => StageIsBacked
  BY DEF IInv
<1> QED BY <1>1, Invariant, PTL

\* CompleteTask never completes an instance early.
THEOREM Earned == Spec => []CompletedIsEarned
<1>1. IInv => CompletedIsEarned
  BY DEF IInv
<1> QED BY <1>1, Invariant, PTL

\* A response of GetWorkflow never shows a stage nothing was completed for.
THEOREM Consistent == Spec => []ViewConsistent
<1>1. IInv => ViewConsistent
  BY DEF IInv, ServeOK, ViewConsistent
<1> QED BY <1>1, Invariant, PTL
-----------------------------------------------------------------------------
(***************************************************************************)
(* Requests one at a time, no failure, no PATCH: between requests the      *)
(* books of every instance are exact, and SerialInv says by how much they  *)
(* are off at each statement of the one CompleteTask under way.            *)
(***************************************************************************)
Serial == MaxInFlight = 1 /\ ~ Faults /\ PatchStatuses = {}

OneBusy == \A g, h \in Handlers : pc[g] # "idle" /\ pc[h] # "idle" => g = h

Midway == {"complete.GetInstance", "complete.UpdateStage", "complete.GetTemplate",
           "complete.UpdateStatus"}

Advancing(h, w) == pc[h] \in Midway /\ wf[h] = w

Settled(w) ==
  /\ currentStage[w] = completions[w]
  /\ status[w] = "completed" <=> completions[w] >= StageCount(w)

SerialRow(w) ==
  /\ status[w] = "absent" => currentStage[w] = 0 /\ completions[w] = 0
  /\ status[w] # "absent" /\ (\A h \in Handlers : ~ Advancing(h, w)) => Settled(w)

\* What the one CompleteTask under way has still to write.
MidwayOK(h) ==
  /\ pc[h] = "complete.GetInstance" => currentStage[wf[h]] + 1 = completions[wf[h]]
  /\ pc[h] \in {"complete.UpdateStage", "complete.GetTemplate"} =>
       seen[h] = completions[wf[h]]
  /\ pc[h] \in {"complete.GetTemplate", "complete.UpdateStatus"} =>
       currentStage[wf[h]] = completions[wf[h]]
  /\ pc[h] \in Midway \ {"complete.UpdateStatus"} =>
       (status[wf[h]] = "completed" <=> completions[wf[h]] > StageCount(wf[h]))

SerialInv ==
  Serial => /\ OneBusy
            /\ \A w \in Instances : SerialRow(w)
            /\ \A h \in Handlers : MidwayOK(h)

LEMMA InitSerial == Init => SerialInv
  BY DEF Init, SerialInv, OneBusy, SerialRow, MidwayOK, Midway

LEMMA NextOneBusy ==
  ASSUME TypeOK, [Next]_vars, Serial, OneBusy
  PROVE  OneBusy'
<1> USE DEF Goto, TypeOK
<1>1. ASSUME NEW h \in Handlers, NEW l, Accept(h, l) PROVE OneBusy'
  <2>1. IsFiniteSet(Busy)
    BY FS_Subset, ConstantsAssumption DEF ConstantsAssumption, Busy
  <2>2. Cardinality(Busy) \in Nat /\ Cardinality(Busy) < 1
    BY <1>1, <2>1, FS_CardinalityType DEF Accept, Serial
  <2>3. Busy = {}
    BY <2>1, <2>2, FS_EmptySet
  <2>4. pc' = [pc EXCEPT ![h] = l]
    BY <1>1 DEF Accept
  <2> QED BY <2>3, <2>4 DEF OneBusy, Busy
<1>2. ASSUME NEW h \in Handlers, Begin(h) PROVE OneBusy'
  BY <1>1, <1>2 DEF Begin, BeginStart, BeginComplete, BeginGet
<1>3. ASSUME NEW h \in Handlers, pc[h] # "idle", NEW l, pc' = [pc EXCEPT ![h] = l] PROVE OneBusy'
  BY <1>3 DEF OneBusy
<1>4. ASSUME NEW h \in Handlers, Step(h) PROVE pc[h] # "idle" /\ \E l : pc' = [pc EXCEPT ![h] = l]
  <2>1. CASE StartWorkflow(h)
    BY <2>1 DEF StartWorkflow, StartGetTemplate, CreateInstance, CreateTask, InsertTask, RejectTask
  <2>2. CASE CompleteTask(h)
    BY <2>2 DEF CompleteTask, GetTask, UpdateTaskStatus, GetInstance, UpdateInstanceStage,
                GetTemplate, UpdateInstanceStatus
  <2>3. CASE GetWorkflow(h)
    BY <2>3 DEF GetWorkflow, ReadInstance, ReadTasks
  <2>4. CASE Respond(h)
    BY <2>4 DEF Respond, Release, Replies
  <2> QED BY <1>4, <2>1, <2>2, <2>3, <2>4 DEF Step
<1>5. CASE UNCHANGED pc
  BY <1>5 DEF OneBusy
<1> QED
  BY <1>2, <1>3, <1>4, <1>5
     DEF Next, Serial, StatementFails, Crash, CreateTemplate, UpdateStatus, vars

\* The number of stages of an instance never changes.
LEMMA StageCountStays ==
  ASSUME IInv, Kept, NEW w \in Instances, status[w] # "absent"
  PROVE  StageCount(w)' = StageCount(w) /\ StageCount(w) \in Nat /\ StageCount(w) > 0
<1>1. templateOf[w] \in Templates /\ templates[templateOf[w]] # <<>>
  BY DEF IInv, TypeOK, RowsOK
<1>2. StageCount(w) \in Nat /\ StageCount(w) > 0
  BY <1>1 DEF IInv, TypeOK, StageCount
<1> QED BY <1>2 DEF Kept, StageCount

\* A row that is not written stays settled if it was.
LEMMA SerialRowStays ==
  ASSUME IInv, Kept, NEW w \in Instances, SerialRow(w),
         currentStage'[w] = currentStage[w], completions'[w] = completions[w],
         status'[w] = status[w],
         \A h \in Handlers : Advancing(h, w) => Advancing(h, w)'
  PROVE  SerialRow(w)'
<1>1. CASE status[w] = "absent"
  BY <1>1 DEF SerialRow
<1>2. CASE status[w] # "absent"
  <2>1. StageCount(w)' = StageCount(w)
    BY <1>2, StageCountStays
  <2> QED BY <1>2, <2>1 DEF SerialRow, Settled
<1> QED BY <1>1, <1>2

\* A step that writes no book keeps SerialInv if the handlers that are
\* advancing stay where they are.
LEMMA QuietStep ==
  ASSUME IInv, Kept, SerialInv, Serial, OneBusy', UNCHANGED <<status, currentStage, completions>>,
         \A h \in Handlers : /\ pc[h] \in Midway => Still(h)
                             /\ pc'[h] \in Midway => pc[h] \in Midway
  PROVE  SerialInv'
<1>0. \A w \in Instances : SerialRow(w)
  BY DEF SerialInv
<1>a. \A h \in Handlers : MidwayOK(h)
  BY DEF SerialInv
<1>1. ASSUME NEW w \in Instances PROVE SerialRow(w)'
  <2>1. \A h \in Handlers : Advancing(h, w) => Advancing(h, w)'
    BY DEF Advancing, Still
  <2> QED BY <1>0, <2>1, SerialRowStays
<1>2. ASSUME NEW h \in Handlers PROVE MidwayOK(h)'
  <2>1. CASE pc'[h] \notin Midway
    BY <2>1 DEF MidwayOK, Midway
  <2>2. CASE pc'[h] \in Midway
    <3>1. Still(h) /\ pc[h] \in Midway /\ MidwayOK(h)
      BY <1>a, <2>2
    <3>2. wf[h] \in Instances /\ status[wf[h]] # "absent"
      BY <3>1 DEF IInv, ServeOK, Serving, Midway, AnnouncedIsWhole, TypeOK
    <3>3. StageCount(wf[h])' = StageCount(wf[h])
      <4>1. StageCount(wf[h]) = Len(templates[templateOf[wf[h]]])
        BY DEF StageCount
      <4> QED BY <3>1, <3>2 DEF Kept, Still, StageCount
    <3> QED BY <3>1, <3>3 DEF MidwayOK, Still
  <2> QED BY <2>1, <2>2
<1> QED BY <1>1, <1>2 DEF SerialInv

\* A step of the one busy handler: the rows of the other instances, and the
\* handlers that are idle, need no looking after.
LEMMA AloneStep ==
  ASSUME IInv, Kept, SerialInv, Serial, OneBusy',
         NEW h \in Handlers, pc[h] # "idle", HandlerStep(h), MidwayOK(h)',
         NEW w \in Instances, SerialRow(w)',
         pc[h] \in Midway => wf[h] = w,
         \A v \in Instances : v # w => /\ currentStage'[v] = currentStage[v]
                                       /\ completions'[v] = completions[v]
                                       /\ status'[v] = status[v]
  PROVE  SerialInv'
<1>1. \A g \in Handlers : g # h => pc[g] = "idle" /\ pc'[g] = "idle"
  <2> SUFFICES ASSUME NEW g \in Handlers, g # h PROVE pc[g] = "idle" /\ pc'[g] = "idle"
    OBVIOUS
  <2>1. Still(g)
    BY OthersStill DEF IInv
  <2> QED BY <2>1 DEF SerialInv, OneBusy, Still
<1>2. \A g \in Handlers : MidwayOK(g)'
  BY <1>1 DEF MidwayOK, Midway
<1>3. ASSUME NEW v \in Instances, v # w PROVE SerialRow(v)'
  <2>1. \A g \in Handlers : ~ Advancing(g, v)
    BY <1>1, <1>3 DEF Advancing, Midway
  <2> QED BY <1>3, <2>1, SerialRowStays DEF SerialInv
<1> QED BY <1>2, <1>3 DEF SerialInv

\* The steps of CompleteTask that move the books.
LEMMA AdvanceSerial ==
  ASSUME IInv, TypeOK', Kept, [Next]_vars, SerialInv, Serial, OneBusy',
         NEW h \in Handlers, CompleteTask(h), ~ GetTask(h)
  PROVE  SerialInv'
<1> USE DEF Goto, locals
<1>0. PICK w : w = wf[h]
  OBVIOUS
<1>1. /\ TypeOK /\ ServeOK(h) /\ MidwayOK(h) /\ HandlerStep(h) /\ pc[h] # "idle"
      /\ \A v \in Instances : SerialRow(v)
  BY DEF IInv, SerialInv, HandlerStep, Step, CompleteTask, GetTask, UpdateTaskStatus, GetInstance,
         UpdateInstanceStage, GetTemplate, UpdateInstanceStatus
<1>2. w \in announced /\ w \in Instances /\ status[w] # "absent" /\ status'[w] # "absent"
  <2>1. w \in announced
    BY <1>0, <1>1 DEF ServeOK, Serving, CompleteTask, UpdateTaskStatus, GetInstance,
                      UpdateInstanceStage, GetTemplate, UpdateInstanceStatus
  <2> QED BY <1>1, <2>1 DEF TypeOK, IInv, AnnouncedIsWhole, Kept
<1>3. /\ StageCount(w)' = StageCount(w) /\ StageCount(w) \in Nat
      /\ completions[w] \in Nat /\ currentStage[w] \in Nat
  BY <1>1, <1>2, StageCountStays DEF TypeOK
<1>4. CASE UpdateTaskStatus(h)
  <2>1. /\ pc[h] = "complete.UpdateTask" /\ pc'[h] = "complete.GetInstance" /\ wf' = wf
        /\ completions' = [completions EXCEPT ![w] = @ + 1] /\ UNCHANGED <<status, currentStage>>
    BY <1>0, <1>1, <1>4 DEF UpdateTaskStatus, TypeOK
  <2>2. Settled(w)
    <3>1. \A g \in Handlers : ~ Advancing(g, w)
      BY <2>1 DEF SerialInv, OneBusy, Advancing, Midway
    <3> QED BY <1>1, <1>2, <3>1 DEF SerialRow
  <2>3. completions'[w] = completions[w] + 1
    BY <1>1, <1>2, <2>1 DEF TypeOK
  <2>4. MidwayOK(h)'
    <3>1. /\ currentStage'[w] + 1 = completions'[w]
          /\ status'[w] = "completed" <=> completions'[w] > StageCount(w)'
      BY <1>3, <2>1, <2>2, <2>3 DEF Settled
    <3>2. StageCount(wf[h])' = StageCount(w)'
      BY <1>0, <2>1 DEF StageCount
    <3> QED BY <1>0, <2>1, <3>1, <3>2 DEF MidwayOK
  <2>5. SerialRow(w)'
    BY <1>0, <1>2, <2>1 DEF SerialRow, Advancing, Midway
  <2> QED BY <1>1, <1>2, <1>0, <2>1, <2>4, <2>5, AloneStep
<1>5. CASE GetInstance(h)
  <2>1. /\ pc[h] = "complete.GetInstance" /\ pc'[h] = "complete.UpdateStage" /\ wf' = wf
        /\ seen'[h] = currentStage[w] + 1 /\ UNCHANGED <<status, currentStage, completions>>
    BY <1>0, <1>1, <1>5 DEF GetInstance, TypeOK, tables
  <2>2. MidwayOK(h)'
    <3>1. StageCount(wf[h])' = StageCount(wf[h])
      BY <1>0, <1>3, <2>1 DEF StageCount
    <3> QED BY <1>0, <1>1, <2>1, <3>1 DEF MidwayOK, Midway
  <2>3. SerialRow(w)'
    BY <1>0, <1>2, <2>1 DEF SerialRow, Advancing, Midway
  <2> QED BY <1>0, <1>1, <1>2, <2>1, <2>2, <2>3, AloneStep
<1>6. CASE UpdateInstanceStage(h)
  <2>1. /\ pc[h] = "complete.UpdateStage" /\ pc'[h] = "complete.GetTemplate"
        /\ UNCHANGED <<wf, seen, status, completions>>
        /\ currentStage' = [currentStage EXCEPT ![w] = seen[h]]
    BY <1>0, <1>1, <1>6 DEF UpdateInstanceStage, TypeOK
  <2>2. currentStage'[w] = seen[h]
    BY <1>1, <1>2, <2>1 DEF TypeOK
  <2>3. MidwayOK(h)'
    <3>1. StageCount(wf[h])' = StageCount(wf[h])
      BY <1>0, <1>3, <2>1 DEF StageCount
    <3> QED BY <1>0, <1>1, <2>1, <2>2, <3>1 DEF MidwayOK, Midway
  <2>4. SerialRow(w)'
    BY <1>0, <1>2, <2>1 DEF SerialRow, Advancing, Midway
  <2> QED BY <1>0, <1>1, <1>2, <2>1, <2>3, <2>4, AloneStep DEF TypeOK
<1>7. CASE GetTemplate(h)
  <2>1. /\ pc[h] = "complete.GetTemplate" /\ wf' = wf
        /\ pc'[h] = IF seen[h] >= StageCount(w) THEN "complete.UpdateStatus" ELSE "complete.ok"
        /\ UNCHANGED <<status, currentStage, completions>>
    BY <1>0, <1>1, <1>7 DEF GetTemplate, TypeOK, tables
  <2>2. /\ currentStage[w] = completions[w] /\ seen[h] = completions[w]
        /\ status[w] = "completed" <=> completions[w] > StageCount(w)
    BY <1>0, <1>1, <2>1 DEF MidwayOK, Midway
  <2>3. MidwayOK(h)'
    BY <1>0, <2>1, <2>2 DEF MidwayOK, Midway
  <2>4. SerialRow(w)'
    <3>1. CASE seen[h] >= StageCount(w)
      BY <1>0, <1>2, <2>1, <3>1 DEF SerialRow, Advancing, Midway
    <3>2. CASE ~ (seen[h] >= StageCount(w))
      <4>1. Settled(w)'
        BY <1>3, <2>1, <2>2, <3>2 DEF Settled
      <4> QED BY <1>2, <4>1 DEF SerialRow
    <3> QED BY <3>1, <3>2
  <2> QED BY <1>0, <1>1, <1>2, <2>1, <2>3, <2>4, AloneStep
<1>8. CASE UpdateInstanceStatus(h)
  <2>1. /\ pc[h] = "complete.UpdateStatus" /\ pc'[h] = "complete.ok"
        /\ status' = [status EXCEPT ![w] = "completed"] /\ UNCHANGED <<currentStage, completions>>
    BY <1>0, <1>1, <1>8 DEF UpdateInstanceStatus, TypeOK
  <2>2. currentStage[w] = completions[w] /\ completions[w] >= StageCount(w)
    BY <1>0, <1>1, <2>1 DEF MidwayOK, IInv, AdvanceOK
  <2>3. status'[w] = "completed"
    BY <1>1, <1>2, <2>1 DEF TypeOK
  <2>4. SerialRow(w)'
    BY <1>2, <1>3, <2>1, <2>2, <2>3 DEF SerialRow, Settled
  <2>5. MidwayOK(h)'
    BY <2>1 DEF MidwayOK, Midway
  <2> QED BY <1>0, <1>1, <1>2, <2>1, <2>4, <2>5, AloneStep DEF TypeOK
<1> QED BY <1>4, <1>5, <1>6, <1>7, <1>8 DEF CompleteTask

LEMMA NextSerial == IInv /\ TypeOK' /\ SerialInv /\ [Next]_vars => SerialInv'
<1> SUFFICES ASSUME IInv, TypeOK', SerialInv, [Next]_vars, Serial PROVE SerialInv'
  BY DEF SerialInv, Serial
<1> USE DEF Goto
<1>0. TypeOK /\ Kept /\ OneBusy'
  BY NothingUndone, NextOneBusy DEF IInv, SerialInv
<1>1. CASE UNCHANGED <<pc, locals, status, currentStage, completions>>
  BY <1>0, <1>1, QuietStep DEF Still, locals
<1>2. ASSUME NEW h \in Handlers, HandlerStep(h), UNCHANGED <<status, currentStage, completions>>,
             pc[h] \notin Midway, pc'[h] \notin Midway
      PROVE  SerialInv'
  <2>1. \A g \in Handlers : g # h => Still(g)
    BY <1>0, <1>2, OthersStill
  <2>2. \A g \in Handlers : /\ pc[g] \in Midway => Still(g)
                            /\ pc'[g] \in Midway => pc[g] \in Midway
    BY <1>2, <2>1 DEF Still
  <2> QED BY <1>0, <1>2, <2>2, QuietStep
<1> USE DEF HandlerStep
<1>3. ASSUME NEW h \in Handlers, Begin(h) PROVE SerialInv'
  <2>1. /\ pc'[h] \in {"start.GetTemplate", "complete.GetTask", "get.GetInstance"}
        /\ pc[h] = "idle" /\ UNCHANGED <<status, currentStage, completions>>
    BY <1>0, <1>3 DEF Begin, BeginStart, BeginComplete, BeginGet, Accept, TypeOK, tables
  <2> QED BY <1>2, <1>3, <2>1 DEF Midway
<1>4. ASSUME NEW h \in Handlers, StartGetTemplate(h) \/ CreateTask(h) PROVE SerialInv'
  <2>1. /\ pc[h] \in {"start.GetTemplate", "start.CreateTask"}
        /\ pc'[h] \in {"error", "start.CreateInstance", "start.CreateTask", "start.ok"}
        /\ UNCHANGED <<status, currentStage, completions>>
    <3>1. CASE StartGetTemplate(h)
      BY <1>0, <3>1 DEF StartGetTemplate, TypeOK, tables
    <3>2. CASE CreateTask(h)
      BY <1>0, <3>2 DEF CreateTask, InsertTask, RejectTask, TypeOK, tables
    <3> QED BY <1>4, <3>1, <3>2
  <2>2. HandlerStep(h)
    BY <1>4 DEF Step, StartWorkflow
  <2> QED BY <1>2, <2>1, <2>2 DEF Midway
<1>5. ASSUME NEW h \in Handlers, NEW w \in Instances, CreateInstance(h, w) PROVE SerialInv'
  <2>1. /\ pc[h] = "start.CreateInstance" /\ pc'[h] = "start.CreateTask"
        /\ status[w] = "absent" /\ status' = [status EXCEPT ![w] = "active"]
        /\ templateOf' = [templateOf EXCEPT ![w] = tmpl[h]]
        /\ UNCHANGED <<templates, currentStage, completions>>
    BY <1>0, <1>5 DEF CreateInstance, TypeOK
  <2>2. tmpl[h] \in Templates /\ templates[tmpl[h]] # <<>>
    BY <2>1 DEF IInv, StartOK
  <2>3. currentStage[w] = 0 /\ completions[w] = 0
    BY <2>1 DEF SerialInv, SerialRow
  <2>4. StageCount(w)' \in Nat /\ StageCount(w)' > 0
    BY <1>0, <2>1, <2>2 DEF StageCount, TypeOK
  <2>5. Settled(w)' /\ status'[w] = "active"
    BY <1>0, <2>1, <2>3, <2>4 DEF Settled, TypeOK
  <2>6. SerialRow(w)'
    BY <2>5 DEF SerialRow
  <2>7. MidwayOK(h)' /\ pc[h] # "idle" /\ pc[h] \notin Midway /\ HandlerStep(h)
    BY <1>5, <2>1 DEF MidwayOK, Midway, Step, StartWorkflow
  <2> QED BY <1>0, <2>1, <2>6, <2>7, AloneStep DEF TypeOK
<1>6. ASSUME NEW h \in Handlers, GetTask(h) PROVE SerialInv'
  <2>1. /\ pc[h] = "complete.GetTask" /\ pc'[h] \in {"error", "complete.UpdateTask"}
        /\ UNCHANGED <<status, currentStage, completions>> /\ HandlerStep(h)
    BY <1>0, <1>6 DEF GetTask, TypeOK, tables, Step, CompleteTask
  <2> QED BY <1>2, <2>1 DEF Midway
<1>7. ASSUME NEW h \in Handlers, GetWorkflow(h) PROVE SerialInv'
  <2>1. /\ pc[h] \in {"get.GetInstance", "get.GetTasks"}
        /\ pc'[h] \in {"error", "get.GetTasks", "get.ok"}
        /\ UNCHANGED <<status, currentStage, completions>> /\ HandlerStep(h)
    <3>1. CASE ReadInstance(h)
      BY <1>0, <1>7, <3>1 DEF ReadInstance, TypeOK, tables, Step
    <3>2. CASE ReadTasks(h)
      BY <1>0, <1>7, <3>2 DEF ReadTasks, TypeOK, tables, Step
    <3> QED BY <1>7, <3>1, <3>2 DEF GetWorkflow
  <2> QED BY <1>2, <2>1 DEF Midway
<1>8. ASSUME NEW h \in Handlers, Respond(h) PROVE SerialInv'
  <2>1. /\ pc[h] \in Replies /\ pc'[h] = "idle"
        /\ UNCHANGED <<status, currentStage, completions>> /\ HandlerStep(h)
    BY <1>0, <1>8 DEF Respond, Release, TypeOK, Step
  <2> QED BY <1>2, <2>1 DEF Midway, Replies
<1>9. ASSUME NEW h \in Handlers, CompleteTask(h), ~ GetTask(h) PROVE SerialInv'
  BY <1>0, <1>9, AdvanceSerial
<1> QED
  BY <1>1, <1>3, <1>4, <1>5, <1>6, <1>7, <1>8, <1>9
     DEF Next, Step, StartWorkflow, Serial, StatementFails, Crash, CreateTemplate, UpdateStatus,
         CompleteTask, vars, tables

\* Without concurrency and failures CompleteTask keeps exact count.
THEOREM Exact == Spec => []SerialExact
<1>1. IInv /\ SerialInv => SerialExact
  <2> SUFFICES ASSUME IInv, SerialInv, Serial, Busy = {}, NEW w \in announced PROVE Settled(w)
    BY DEF SerialExact, CountExact, Serial, Settled
  <2>1. \A h \in Handlers : ~ Advancing(h, w)
    BY DEF Busy, Advancing, Midway
  <2>2. w \in Instances /\ status[w] # "absent"
    BY DEF IInv, TypeOK, AnnouncedIsWhole
  <2> QED BY <2>1, <2>2 DEF SerialInv, SerialRow
<1>2. IInv' => TypeOK'
  BY DEF IInv
<1>3. IInv /\ IInv' /\ SerialInv /\ [Next]_vars => SerialInv'
  BY <1>2, NextSerial
<1> QED BY <1>1, <1>3, InitSerial, Invariant, PTL DEF Spec
-----------------------------------------------------------------------------
(***************************************************************************)
(* What the liveness properties rest on, short of the fairness: what is    *)
(* still to be done always has a handler that is going to do it, and a     *)
(* handler has only so many statements left.                               *)
(***************************************************************************)

\* Of a handler that stands at statement l, what Step can be.
LEMMA StepOf ==
  ASSUME NEW h \in Handlers, Step(h)
  PROVE  /\ pc[h] = "complete.GetTemplate" => GetTemplate(h)
         /\ pc[h] = "complete.UpdateStatus" => UpdateInstanceStatus(h)
         /\ pc[h] = "start.CreateTask" => InsertTask(h) \/ RejectTask(h)
         /\ pc[h] = "start.ok" => Respond(h)
<1>1. CASE StartWorkflow(h)
  BY <1>1 DEF StartWorkflow, StartGetTemplate, CreateInstance, CreateTask
<1>2. CASE CompleteTask(h)
  BY <1>2 DEF CompleteTask, GetTask, UpdateTaskStatus, GetInstance, UpdateInstanceStage,
              GetTemplate, UpdateInstanceStatus
<1>3. CASE GetWorkflow(h)
  BY <1>3 DEF GetWorkflow, ReadInstance, ReadTasks
<1>4. CASE Respond(h)
  BY <1>4 DEF Respond, Replies
<1> QED BY <1>1, <1>2, <1>3, <1>4 DEF Step

LEMMA InitFinisher == Init => EndHasFinisher
  BY DEF Init, EndHasFinisher

\* Without failures a handler stays where it is or takes its step.
LEMMA StillOrStep ==
  ASSUME TypeOK, [Next]_vars, ~ Faults, NEW g \in Handlers, pc[g] # "idle"
  PROVE  Still(g) \/ Step(g)
<1>1. ASSUME NEW h \in Handlers, HandlerStep(h), h # g PROVE Still(g)
  BY <1>1, OthersStill
<1>2. ~ Begin(g) /\ ~ StatementFails(g) /\ ~ Crash
  BY DEF Begin, BeginStart, BeginComplete, BeginGet, Accept, StatementFails, Crash
<1>3. ASSUME UNCHANGED <<pc, locals>> PROVE Still(g)
  BY <1>3 DEF Still, locals
<1> QED
  BY <1>1, <1>2, <1>3 DEF Next, HandlerStep, CreateTemplate, UpdateStatus, vars

LEMMA NextFinisher == IInv /\ TypeOK' /\ EndHasFinisher /\ [Next]_vars => EndHasFinisher'
<1> SUFFICES ASSUME IInv, TypeOK', EndHasFinisher, [Next]_vars, ~ Faults, PatchStatuses = {},
                    NEW w \in Instances, status'[w] \notin {"absent", "completed"},
                    currentStage'[w] >= StageCount(w)'
             PROVE  \E h \in Handlers : AboutToComplete(h, w)'
  BY DEF EndHasFinisher
<1>0. TypeOK /\ Kept
  BY NothingUndone DEF IInv
<1>1. status[w] # "absent"
  <2> SUFFICES ASSUME status[w] = "absent" PROVE FALSE
    OBVIOUS
  <2>1. currentStage[w] = 0 /\ completions[w] = 0
    <3>1. completions[w] = 0
      <4>1. \A k \in Slots : tasks[w][k] = "absent"
        BY DEF IInv, RowsOK, NoTasks
      <4>2. completions[w] \in Nat /\ ~ (completions[w] > 0)
        BY <1>0, <4>1 DEF IInv, RowsOK, TypeOK
      <4> QED BY <4>2
    <3>2. currentStage[w] \in Nat /\ Cardinality(Pending(w)) \in Nat
      BY <1>0, PendingFinite DEF TypeOK
    <3>3. currentStage[w] + Cardinality(Pending(w)) <= completions[w]
      BY DEF IInv, StageIsBacked
    <3> QED BY <3>1, <3>2, <3>3
  <2>2. PICK h \in Handlers : CreateInstance(h, w)
    <3>1. ASSUME NEW h \in Handlers, UpdateInstanceStatus(h) PROVE status'[w] = "absent"
      <4>1. status[wf[h]] # "absent"
        BY <3>1 DEF UpdateInstanceStatus, IInv, ServeOK, Serving, AnnouncedIsWhole
      <4> QED BY <1>0, <3>1, <4>1 DEF UpdateInstanceStatus, TypeOK
    <3>2. ASSUME NEW h \in Handlers, NEW x \in Instances, CreateInstance(h, x) PROVE x = w
      BY <1>0, <3>2 DEF CreateInstance, TypeOK
    <3> QED
      BY <3>1, <3>2, WritingSteps
         DEF CreateTemplate, InsertTask, UpdateTaskStatus, UpdateInstanceStage, Respond, tables
  <2>3. tmpl[h] \in Templates /\ templates[tmpl[h]] # <<>>
    BY <2>2 DEF CreateInstance, IInv, StartOK
  <2>4. StageCount(w)' \in Nat /\ StageCount(w)' > 0
    BY <1>0, <2>2, <2>3 DEF CreateInstance, StageCount, TypeOK
  <2>5. currentStage'[w] = 0
    BY <2>1, <2>2 DEF CreateInstance
  <2> QED BY <2>4, <2>5
<1>2. StageCount(w)' = StageCount(w) /\ StageCount(w) \in Nat
  BY <1>0, <1>1, StageCountStays
<1>3. status[w] # "completed"
  <2>1. ASSUME NEW h \in Handlers, UpdateInstanceStatus(h) PROVE status'[w] \in {status[w], "completed"}
    BY <1>0, <2>1 DEF UpdateInstanceStatus, TypeOK
  <2>2. ASSUME NEW h \in Handlers, NEW x \in Instances, CreateInstance(h, x)
        PROVE  status'[w] = status[w]
    BY <1>0, <1>1, <2>2 DEF CreateInstance, TypeOK
  <2> QED
    BY <2>1, <2>2, WritingSteps
       DEF CreateTemplate, InsertTask, UpdateTaskStatus, UpdateInstanceStage, Respond, tables
<1>4. ASSUME NEW h \in Handlers, UpdateInstanceStage(h), wf[h] = w
      PROVE  AboutToComplete(h, w)'
  BY <1>0, <1>4 DEF UpdateInstanceStage, AboutToComplete, TypeOK, Goto, locals
<1>5. CASE currentStage'[w] = currentStage[w]
  <2>1. PICK g \in Handlers : AboutToComplete(g, w)
    BY <1>1, <1>2, <1>3, <1>5 DEF EndHasFinisher
  <2>2. CASE Still(g)
    BY <1>2, <2>1, <2>2 DEF AboutToComplete, Still
  <2>3. CASE Step(g) /\ pc[g] = "complete.GetTemplate"
    <3>1. GetTemplate(g)
      BY <2>3, StepOf
    <3> QED BY <1>0, <2>1, <2>3, <3>1 DEF GetTemplate, AboutToComplete, TypeOK, Goto, locals
  <2>4. CASE Step(g) /\ pc[g] = "complete.UpdateStatus"
    <3>1. UpdateInstanceStatus(g)
      BY <2>4, StepOf
    <3> QED BY <1>0, <2>1, <3>1 DEF UpdateInstanceStatus, AboutToComplete, TypeOK
  <2> QED BY <1>0, <2>1, <2>2, <2>3, <2>4, StillOrStep DEF AboutToComplete
<1>6. currentStage'[w] = currentStage[w] \/ \E h \in Handlers : UpdateInstanceStage(h) /\ wf[h] = w
  BY <1>0, WritingSteps
     DEF TypeOK, CreateTemplate, UpdateStatus, CreateInstance, InsertTask, UpdateTaskStatus,
         UpdateInstanceStage, UpdateInstanceStatus, Respond, tables
<1> QED BY <1>4, <1>5, <1>6

\* An instance that has reached its end has a handler that completes it.
THEOREM Finisher == Spec => []EndHasFinisher
<1>1. IInv' => TypeOK'
  BY DEF IInv
<1>2. IInv /\ IInv' /\ EndHasFinisher /\ [Next]_vars => EndHasFinisher'
  BY <1>1, NextFinisher
<1> QED BY <1>2, InitFinisher, Invariant, PTL DEF Spec

\* The templates hold only stage types the database accepts.
GoodTemplates ==
  GoodTypes => \A t \in Templates : \A k \in 1 .. Len(templates[t]) : templates[t][k] \in StageType

StarterInv == GoodTemplates /\ StartedHasStarter

LEMMA InitStarter == Init => StarterInv
<1> SUFFICES ASSUME Init PROVE StarterInv
  OBVIOUS
<1>1. \A t \in Templates : 1 .. Len(templates[t]) = {}
  BY DEF Init
<1> QED BY <1>1 DEF Init, StarterInv, GoodTemplates, StartedHasStarter

LEMMA NextStarter == IInv /\ TypeOK' /\ StarterInv /\ [Next]_vars => StarterInv'
<1> SUFFICES ASSUME IInv, TypeOK', StarterInv, [Next]_vars PROVE StarterInv'
  OBVIOUS
<1>0. TypeOK /\ Kept
  BY NothingUndone DEF IInv
<1>1. GoodTemplates'
  <2>1. ASSUME NEW t \in Templates, CreateTemplate(t) PROVE GoodTemplates'
    <3>1. PICK s \in StageLists :
            templates' = [templates EXCEPT ![t] = IF s = <<>> THEN DefaultStages ELSE s]
      BY <2>1 DEF CreateTemplate
    <3>2. \A k \in 1 .. Len(DefaultStages) : DefaultStages[k] \in StageType
      BY DEF DefaultStages, StageType
    <3> QED BY <1>0, <3>1, <3>2 DEF StarterInv, GoodTemplates, GoodTypes, TypeOK
  <2>2. CASE templates' = templates
    BY <2>2 DEF StarterInv, GoodTemplates
  <2> QED
    BY <2>1, <2>2, WritingSteps
       DEF UpdateStatus, CreateInstance, InsertTask, UpdateTaskStatus, UpdateInstanceStage,
           UpdateInstanceStatus, Respond, tables
<1>2. ASSUME ~ Faults, GoodTypes, NEW w \in Instances, status'[w] # "absent", w \notin announced'
      PROVE  \E h \in Handlers : wf'[h] = w /\ Creating(h)'
  <2>1. ASSUME NEW h \in Handlers, CreateInstance(h, w) PROVE wf'[h] = w /\ Creating(h)'
    BY <1>0, <2>1 DEF CreateInstance, Creating, TypeOK, Goto
  <2>2. CASE status[w] # "absent"
    <3>1. PICK g \in Handlers : wf[g] = w /\ Creating(g)
      BY <1>0, <1>2, <2>2 DEF StarterInv, StartedHasStarter, Creating, Kept
    <3>2. CASE Still(g)
      BY <3>1, <3>2 DEF Still, Creating
    <3>3. CASE Step(g) /\ pc[g] = "start.CreateTask"
      <4>1. at[g] + 1 \in 1 .. Len(templates[tmpl[g]]) /\ tmpl[g] \in Templates
        <5>1. at[g] < Len(templates[tmpl[g]]) /\ tmpl[g] \in Templates
          BY <3>1, <3>3 DEF IInv, StartOK
        <5>2. at[g] \in Nat /\ Len(templates[tmpl[g]]) \in Nat
          BY <1>0, <5>1 DEF TypeOK
        <5> QED BY <5>1, <5>2
      <4>2. templates[tmpl[g]][at[g] + 1] \in StageType
        BY <1>2, <4>1 DEF StarterInv, GoodTemplates
      <4>3. InsertTask(g)
        BY <3>3, <4>2, StepOf DEF RejectTask
      <4> QED BY <1>0, <3>1, <4>3 DEF InsertTask, Creating, TypeOK, Goto
    <3>4. CASE Step(g) /\ pc[g] = "start.ok"
      <4>1. Respond(g)
        BY <3>4, StepOf
      <4> QED BY <1>2, <3>1, <3>4, <4>1 DEF Respond
    <3> QED BY <1>0, <1>2, <3>1, <3>2, <3>3, <3>4, StillOrStep DEF Creating
  <2>3. CASE status[w] = "absent"
    <3>1. ASSUME NEW h \in Handlers, UpdateInstanceStatus(h) PROVE status'[w] = "absent"
      <4>1. status[wf[h]] # "absent"
        BY <3>1 DEF UpdateInstanceStatus, IInv, ServeOK, Serving, AnnouncedIsWhole
      <4> QED BY <1>0, <2>3, <3>1, <4>1 DEF UpdateInstanceStatus, TypeOK
    <3>2. ASSUME NEW x \in announced, NEW s \in PatchStatuses, UpdateStatus(x, s)
          PROVE  status'[w] = "absent"
      <4>1. status[x] # "absent"
        BY DEF IInv, AnnouncedIsWhole
      <4> QED BY <1>0, <2>3, <3>2, <4>1 DEF UpdateStatus, TypeOK
    <3>3. ASSUME NEW h \in Handlers, NEW x \in Instances, CreateInstance(h, x) PROVE x = w
      BY <1>0, <1>2, <2>3, <3>3 DEF CreateInstance, TypeOK
    <3> QED
      BY <1>2, <2>1, <2>3, <3>1, <3>2, <3>3, WritingSteps
         DEF CreateTemplate, InsertTask, UpdateTaskStatus, UpdateInstanceStage, Respond, tables
  <2> QED BY <2>2, <2>3
<1> QED BY <1>1, <1>2 DEF StarterInv, StartedHasStarter, Creating

\* An instance nobody knows of has the handler that announces it.
THEOREM Starter == Spec => []StartedHasStarter
<1>1. IInv' => TypeOK'
  BY DEF IInv
<1>2. IInv /\ IInv' /\ StarterInv /\ [Next]_vars => StarterInv'
  BY <1>1, NextStarter
<1>3. StarterInv => StartedHasStarter
  BY DEF StarterInv
<1> QED BY <1>2, <1>3, InitStarter, Invariant, PTL DEF Spec

\* How many statements a handler executes before it is idle, at most.
StatementsLeft(h) ==
  CASE pc[h] = "idle" -> 0
    [] pc[h] \in Replies -> 1
    [] pc[h] \in {"complete.UpdateStatus", "get.GetTasks"} -> 2
    [] pc[h] \in {"complete.GetTemplate", "get.GetInstance"} -> 3
    [] pc[h] = "complete.UpdateStage" -> 4
    [] pc[h] = "complete.GetInstance" -> 5
    [] pc[h] = "complete.UpdateTask" -> 6
    [] pc[h] = "complete.GetTask" -> 7
    [] pc[h] = "start.CreateTask" -> MaxStages - at[h] + 1
    [] pc[h] = "start.CreateInstance" -> MaxStages + 2
    [] pc[h] = "start.GetTemplate" -> MaxStages + 3

\* The loop over the stages never leaves the template, which has a bounded
\* length; so no request runs for ever.
LEMMA LeftRange ==
  ASSUME IInv, NEW h \in Handlers
  PROVE  StatementsLeft(h) \in 0 .. MaxStages + 7
<1>1. CASE pc[h] = "start.CreateTask"
  <2>1. /\ at[h] \in Nat /\ Len(templates[tmpl[h]]) \in Nat /\ at[h] < Len(templates[tmpl[h]])
        /\ Len(templates[tmpl[h]]) <= MaxStages
    BY <1>1 DEF IInv, StartOK, Creating, TypeOK
  <2>2. MaxStages - at[h] + 1 \in 0 .. MaxStages + 7
    BY <2>1, ConstantsAssumption DEF ConstantsAssumption
  <2>3. StatementsLeft(h) = MaxStages - at[h] + 1
    BY <1>1 DEF StatementsLeft, Replies
  <2> QED BY <2>2, <2>3
<1>2. CASE pc[h] # "start.CreateTask"
  <2>1. MaxStages \in Nat /\ pc[h] \in Statements \union Replies \union {"idle"}
    BY ConstantsAssumption DEF ConstantsAssumption, IInv, TypeOK
  <2>2. \/ StatementsLeft(h) \in 0 .. 7
        \/ StatementsLeft(h) = MaxStages + 2 \/ StatementsLeft(h) = MaxStages + 3
    BY <1>2, <2>1 DEF StatementsLeft, Statements, Replies
  <2> HIDE DEF StatementsLeft
  <2> QED BY <2>1, <2>2
<1> QED BY <1>1, <1>2

LEMMA LeftShrinks ==
  ASSUME IInv, IInv', NEW h \in Handlers, Step(h)
  PROVE  StatementsLeft(h)' < StatementsLeft(h)
<1> USE ConstantsAssumption DEF ConstantsAssumption, Goto
<1>0. TypeOK /\ MaxStages \in Nat /\ MaxStages >= 3
  BY DEF IInv, DefaultStages
<1>1. CASE StartGetTemplate(h)
  BY <1>0, <1>1 DEF StartGetTemplate, TypeOK, StatementsLeft, Replies
<1>2. ASSUME NEW w \in Instances, CreateInstance(h, w)
      PROVE  StatementsLeft(h)' < StatementsLeft(h)
  <2>1. /\ pc[h] = "start.CreateInstance" /\ pc'[h] = "start.CreateTask" /\ at'[h] = 0
    BY <1>0, <1>2 DEF CreateInstance, TypeOK, IInv, StartOK
  <2> QED BY <1>0, <2>1 DEF StatementsLeft, Replies
<1>3. CASE CreateTask(h)
  <2>1. /\ pc[h] = "start.CreateTask" /\ tmpl[h] \in Templates
        /\ at[h] \in Nat /\ Len(templates[tmpl[h]]) \in Nat /\ at[h] < Len(templates[tmpl[h]])
        /\ Len(templates[tmpl[h]]) <= MaxStages
    BY <1>3 DEF CreateTask, IInv, StartOK, Creating, TypeOK
  <2>2. StatementsLeft(h) = MaxStages - at[h] + 1
    BY <2>1 DEF StatementsLeft, Replies
  <2>3. CASE InsertTask(h)
    <3>1. \/ pc'[h] = "start.CreateTask" /\ at'[h] = at[h] + 1
          \/ pc'[h] = "start.ok"
      BY <1>0, <2>3 DEF InsertTask, TypeOK
    <3>2. \/ StatementsLeft(h)' = MaxStages - (at[h] + 1) + 1
          \/ StatementsLeft(h)' = 1
      BY <3>1 DEF StatementsLeft, Replies
    <3> HIDE DEF StatementsLeft
    <3> QED BY <1>0, <2>1, <2>2, <3>2
  <2>4. CASE RejectTask(h)
    <3>1. pc'[h] = "error"
      BY <1>0, <2>4 DEF RejectTask, TypeOK
    <3>2. StatementsLeft(h)' = 1
      BY <3>1 DEF StatementsLeft, Replies
    <3> HIDE DEF StatementsLeft
    <3> QED BY <1>0, <2>1, <2>2, <3>2
  <2> QED BY <1>3, <2>3, <2>4 DEF CreateTask
<1>4. CASE CompleteTask(h)
  BY <1>0, <1>4
     DEF CompleteTask, GetTask, UpdateTaskStatus, GetInstance, UpdateInstanceStage, GetTemplate,
         UpdateInstanceStatus, TypeOK, StatementsLeft, Replies
<1>5. CASE ReadInstance(h)
  BY <1>0, <1>5 DEF ReadInstance, TypeOK, StatementsLeft, Replies
<1>6. CASE ReadTasks(h)
  BY <1>0, <1>6 DEF ReadTasks, TypeOK, StatementsLeft, Replies
<1>7. CASE Respond(h)
  <2>1. pc[h] \in Replies /\ pc'[h] = "idle"
    BY <1>0, <1>7 DEF Respond, Release, TypeOK
  <2> QED BY <2>1 DEF StatementsLeft, Replies
<1> QED
  BY <1>1, <1>2, <1>3, <1>4, <1>5, <1>6, <1>7 DEF Step, StartWorkflow, GetWorkflow

\* A request is answered after a bounded number of statements of its own,
\* whatever the other handlers do in between.
THEOREM Bounded ==
  Spec => /\ [](\A h \in Handlers : StatementsLeft(h) \in 0 .. MaxStages + 7)
          /\ [][\A h \in Handlers : Step(h) => StatementsLeft(h)' < StatementsLeft(h)]_vars
<1>1. IInv => \A h \in Handlers : StatementsLeft(h) \in 0 .. MaxStages + 7
  BY LeftRange
<1>2. IInv /\ IInv' /\ [Next]_vars =>
        [\A h \in Handlers : Step(h) => StatementsLeft(h)' < StatementsLeft(h)]_vars
  BY LeftShrinks
<1> QED BY <1>1, <1>2, Invariant, PTL DEF Spec
-----------------------------------------------------------------------------
(***************************************************************************)
(* Workflow implements WorkflowLedger: every step that writes a table is   *)
(* the ledger's step of that table, every other step is a stutter.         *)
(***************************************************************************)
LEMMA InitLedger == Init => L!Empty
  BY DEF Init, L!Empty, NoTasks

LEMMA NextLedger ==
  ASSUME IInv, [Next]_vars
  PROVE  [L!Change]_tables
<1> USE DEF IInv
<1>1. ASSUME NEW t \in Templates, CreateTemplate(t) PROVE L!Change
  <2>1. L!Define(t)
    BY <1>1 DEF CreateTemplate, L!Define, Bodies
  <2> QED BY <2>1 DEF L!Change
<1>2. ASSUME NEW w \in announced, NEW s \in PatchStatuses, UpdateStatus(w, s) PROVE L!Change
  <2>1. w \in Instances /\ s \in WorkflowStatus
    BY ConstantsAssumption DEF ConstantsAssumption, TypeOK
  <2>2. L!Override(w)
    BY <1>2, <2>1 DEF UpdateStatus, L!Override
  <2> QED BY <2>1, <2>2 DEF L!Change
<1>3. ASSUME NEW h \in Handlers, NEW w \in Instances, CreateInstance(h, w) PROVE L!Change
  <2>1. tmpl[h] \in Templates /\ templates[tmpl[h]] # <<>>
    BY <1>3 DEF CreateInstance, StartOK
  <2>2. L!Open(w, tmpl[h])
    BY <1>3, <2>1 DEF CreateInstance, RowsOK, L!Open, L!Opened
  <2> QED BY <2>1, <2>2 DEF L!Change
<1>4. ASSUME NEW h \in Handlers, pc[h] = "start.CreateTask", InsertTask(h) PROVE L!Change
  <2>1. /\ wf[h] \in Instances /\ wf[h] \notin announced /\ tmpl[h] \in Templates
        /\ templateOf[wf[h]] = tmpl[h] /\ at[h] < Len(templates[tmpl[h]])
        /\ \A k \in Slots : tasks[wf[h]][k] = "absent" <=> k >= at[h]
    BY <1>4 DEF StartOK, Creating
  <2>2. /\ at[h] \in Nat /\ Len(templates[tmpl[h]]) \in Nat
        /\ Len(templates[tmpl[h]]) <= MaxStages /\ MaxStages \in Nat
    BY <2>1, ConstantsAssumption DEF ConstantsAssumption, TypeOK
  <2>3. at[h] \in Slots /\ at[h] \in 0 .. Len(templates[tmpl[h]]) - 1
    <3> HIDE DEF IInv
    <3> QED BY <2>1, <2>2 DEF Slots
  <2>4. \A j \in 0 .. at[h] - 1 : j \in Slots /\ ~ (j >= at[h])
    <3> HIDE DEF IInv
    <3> QED BY <2>1, <2>2 DEF Slots
  <2>5. tmpl[h] # NoTemplate
    BY <2>1, ConstantsAssumption DEF ConstantsAssumption
  <2>6. L!AddTask(wf[h], at[h])
    BY <1>4, <2>1, <2>3, <2>4, <2>5 DEF InsertTask, L!AddTask, L!Opened, L!Stages
  <2> QED BY <2>1, <2>3, <2>6 DEF L!Change
<1>5. ASSUME NEW h \in Handlers, UpdateTaskStatus(h) PROVE L!Change
  <2>1. wf[h] \in announced /\ wf[h] \in Instances /\ at[h] < StageCount(wf[h])
    BY <1>5, ConstantsAssumption
       DEF ConstantsAssumption, UpdateTaskStatus, ServeOK, Serving, TypeOK
  <2>2. templateOf[wf[h]] \in Templates
    BY <2>1 DEF AnnouncedIsWhole, RowsOK, TypeOK
  <2>3. /\ at[h] \in Nat /\ StageCount(wf[h]) \in Nat
        /\ StageCount(wf[h]) <= MaxStages /\ MaxStages \in Nat
    BY <2>2, ConstantsAssumption DEF ConstantsAssumption, TypeOK, StageCount
  <2>4. at[h] \in Slots /\ at[h] \in 0 .. StageCount(wf[h]) - 1
    <3> HIDE DEF IInv
    <3> QED BY <2>1, <2>3 DEF Slots
  <2>5. L!Complete(wf[h], at[h])
    BY <1>5, <2>1, <2>4 DEF UpdateTaskStatus, L!Complete, L!Stages, StageCount
  <2> QED BY <2>1, <2>4, <2>5 DEF L!Change
<1>6. ASSUME NEW h \in Handlers, UpdateInstanceStage(h) PROVE L!Change
  <2>0. PICK w : w = wf[h]
    OBVIOUS
  <2>1. /\ w \in announced /\ w \in Instances /\ h \in Pending(w)
        /\ seen[h] \in Nat /\ completions[w] \in Nat /\ seen[h] >= 1
        /\ seen[h] + Cardinality(Pending(w)) <= completions[w] + 1
    BY <1>6, <2>0 DEF UpdateInstanceStage, ServeOK, Serving, TypeOK, AdvanceOK, Pending
  <2>2. Cardinality(Pending(w)) >= 1
    <3>1. Cardinality(Pending(w)') = Cardinality(Pending(w)) - 1
      BY <1>6, <2>0, StageWriteSpends
    <3> QED BY <3>1, PendingFinite, PendingFinitePrime
  <2>3. seen[h] \in 1 .. completions[w]
    <3>1. Cardinality(Pending(w)) \in Nat
      BY PendingFinite
    <3> HIDE DEF IInv
    <3> QED BY <2>1, <2>2, <3>1
  <2>4. L!MoveStage(w)
    BY <1>6, <2>0, <2>1, <2>3 DEF UpdateInstanceStage, L!MoveStage
  <2> QED BY <2>1, <2>4 DEF L!Change
<1>7. ASSUME NEW h \in Handlers, UpdateInstanceStatus(h) PROVE L!Change
  <2>1. /\ wf[h] \in announced /\ wf[h] \in Instances
        /\ completions[wf[h]] >= StageCount(wf[h])
    BY <1>7 DEF UpdateInstanceStatus, ServeOK, Serving, TypeOK, AdvanceOK
  <2>2. L!Finish(wf[h])
    BY <1>7, <2>1 DEF UpdateInstanceStatus, L!Finish, StageCount
  <2> QED BY <2>1, <2>2 DEF L!Change
<1>8. ASSUME NEW h \in Handlers, Respond(h), pc[h] = "start.ok" PROVE L!Change
  <2>1. /\ wf[h] \in Instances /\ tmpl[h] \in Templates /\ templateOf[wf[h]] = tmpl[h]
        /\ \A k \in 0 .. Len(templates[tmpl[h]]) - 1 : tasks[wf[h]][k] # "absent"
    BY <1>8 DEF StartOK, Creating
  <2>2. tmpl[h] # NoTemplate
    BY <2>1, ConstantsAssumption DEF ConstantsAssumption
  <2>3. L!Announce(wf[h])
    BY <1>8, <2>1, <2>2 DEF Respond, L!Announce, L!Opened, L!Stages
  <2> QED BY <2>1, <2>3 DEF L!Change
<1>9. ASSUME NEW h \in Handlers, Respond(h), pc[h] # "start.ok" PROVE UNCHANGED tables
  BY <1>9 DEF Respond, tables
<1> QED
  BY <1>1, <1>2, <1>3, <1>4, <1>5, <1>6, <1>7, <1>8, <1>9, WritingSteps

\* The tables change only as the ledger allows, under any interleaving of
\* requests, failures and crashes.
THEOREM LedgerImplemented == Spec => LedgerKept
<1>1. IInv /\ [Next]_vars => [L!Change]_tables
  BY NextLedger
<1>2. L!tables = tables
  BY DEF L!tables, tables
<1>3. IInv /\ [Next]_vars => [L!Change]_(L!tables)
  BY <1>1, <1>2 DEF L!tables, tables
<1> QED BY <1>3, InitLedger, Invariant, PTL DEF Spec, LedgerKept, L!Ledger
=============================================================================
