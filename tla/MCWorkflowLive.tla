--------------------------- MODULE MCWorkflowLive ---------------------------
(***************************************************************************)
(* Workflow without failures, for liveness and for exactness: in a calm    *)
(* behaviour requests come one at a time, in the others they interleave.   *)
(***************************************************************************)
EXTENDS MCWorkflow

VARIABLE calm

CalmInit == Init /\ calm \in BOOLEAN

CalmNext ==
  /\ Next
  /\ calm => Cardinality(Busy') <= 1
  /\ UNCHANGED calm

CalmFairSpec ==
  CalmInit /\ [][CalmNext]_<<vars, calm>> /\ \A h \in Handlers : WF_vars(Step(h))

\* When no two requests overlap and no client PATCHes the status, CompleteTask
\* (service.go:93-121) keeps exact count, over any number of requests: the
\* stage is the number of completions, and the instance is completed as soon
\* as there is one per stage, also after stages were completed repeatedly.
CalmExact == calm /\ PatchStatuses = {} => CountExact
=============================================================================
