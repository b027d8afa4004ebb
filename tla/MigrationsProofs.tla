-------------------------- MODULE MigrationsProofs --------------------------
(***************************************************************************)
(* Proofs about Migrations, for any number of processes and files, any     *)
(* failures and any number of starts.                                      *)
(*                                                                         *)
(* IInv strengthens the properties by what the open transactions are: the  *)
(* first to execute a file is alone with it until it ends (OneHolder), and *)
(* a process only looks at a file when all before it are applied (Turn).   *)
(* SurvivalInv, further down, names a process that cannot lose its race.   *)
(***************************************************************************)
EXTENDS Migrations, Integers, TLAPS

\* No file is applied before one that sorts before it.
AppliedIsPrefix == \A f \in applied : \A g \in 1 .. f : g \in applied

\* A process that serves requests has the whole schema.
ServingIsMigrated == \A s \in Servers : pc[s] = "serving" => applied = Files

InTransaction(s) == pc[s] \in {"record", "commit"}

OneHolder ==
  \A s, t \in Servers :
    InTransaction(s) /\ InTransaction(t) /\ s # t /\ next[s] = next[t] => next[s] \in applied

Turn(s) ==
  /\ \A f \in Files : f < next[s] /\ pc[s] # "down" => f \in applied
  /\ pc[s] \in {"exec", "wait", "record", "commit"} => next[s] \in Files
  /\ pc[s] \in {"wait", "record", "commit"} => next[s] \notin rejected
  /\ pc[s] = "commit" => next[s] \notin applied
  /\ pc[s] \in {"ready", "serving"} => applied = Files

IInv ==
  /\ TypeOK /\ RecordedOnce /\ AppliedIsPrefix /\ OneHolder
  /\ applied \intersect rejected = {}
  /\ \A s \in Servers : Turn(s)
-----------------------------------------------------------------------------
LEMMA InitInv == Init => IInv
<1> SUFFICES ASSUME Init PROVE IInv
  OBVIOUS
<1> USE MigrationAssumption DEF MigrationAssumption, Init, Files
<1>1. TypeOK
  <2>1. 1 \in 1 .. N + 1
    OBVIOUS
  <2> QED BY <2>1 DEF TypeOK
<1>2. RecordedOnce /\ AppliedIsPrefix /\ OneHolder
  BY DEF RecordedOnce, AppliedIsPrefix, OneHolder, InTransaction
<1>3. \A s \in Servers : Turn(s)
  BY DEF Turn
<1> QED BY <1>1, <1>2, <1>3 DEF IInv

LEMMA NextTypes ==
  ASSUME IInv, [Next]_vars
  PROVE  TypeOK'
<1> USE MigrationAssumption DEF MigrationAssumption, TypeOK, IInv, Files, Goto, Database
<1>1. ASSUME NEW s \in Servers, Start(s) PROVE TypeOK'
  BY <1>1 DEF Start
<1>2. ASSUME NEW s \in Servers, EnsureTracking(s) \/ CreateTracking(s) PROVE TypeOK'
  BY <1>2 DEF EnsureTracking, CreateTracking
<1>3. ASSUME NEW s \in Servers, LoopEnds(s) \/ CheckApplied(s) PROVE TypeOK'
  <2>1. CASE LoopEnds(s)
    BY <2>1 DEF LoopEnds
  <2>2. CASE CheckApplied(s) /\ next[s] \in applied
    <3>1. next[s] + 1 \in 1 .. N + 1
      <4>1. next[s] \in 1 .. N
        BY <2>2
      <4> QED BY <4>1
    <3>2. next' = [next EXCEPT ![s] = next[s] + 1] /\ UNCHANGED <<pc, Database, starts>>
      BY <2>2 DEF CheckApplied
    <3> QED BY <3>1, <3>2
  <2>3. CASE CheckApplied(s) /\ next[s] \notin applied
    BY <2>3 DEF CheckApplied
  <2> QED BY <1>3, <2>1, <2>2, <2>3
<1>4. ASSUME NEW s \in Servers, Execute(s) \/ Resume(s) \/ Record(s) PROVE TypeOK'
  BY <1>4 DEF Execute, Resume, Record
<1>5. ASSUME NEW s \in Servers, Committed(s), Commit(s) \/ CommitUnheard(s) PROVE TypeOK'
  <2>1. next[s] \in 1 .. N
    BY <1>5 DEF Turn, Committed
  <2>2. next[s] + 1 \in 1 .. N + 1
    BY <2>1
  <2>3. effects[next[s]] + 1 \in Nat
    BY <2>1
  <2>4. applied' \in SUBSET Files /\ effects' \in [Files -> Nat] /\ UNCHANGED <<rejected, tracking, starts>>
    BY <1>5, <2>1, <2>3 DEF Committed
  <2>5. next' \in [Servers -> 1 .. N + 1]
    BY <1>5, <2>2 DEF Commit, CommitUnheard
  <2> QED BY <1>5, <2>4, <2>5 DEF Commit, CommitUnheard
<1>6. ASSUME NEW s \in Servers, Listen(s) \/ Die(s) PROVE TypeOK'
  BY <1>6 DEF Listen, Die
<1>7. CASE UNCHANGED vars
  BY <1>7 DEF vars
<1> QED BY <1>1, <1>2, <1>3, <1>4, <1>5, <1>6, <1>7 DEF Next, Step, Commit, CommitUnheard

\* A step of one process that commits nothing.
LEMMA LocalStep ==
  ASSUME IInv, TypeOK', NEW s \in Servers,
         UNCHANGED <<rejected, applied, effects>>,
         \A t \in Servers : t # s => pc'[t] = pc[t] /\ next'[t] = next[t],
         Turn(s)',
         InTransaction(s)' /\ ~ (InTransaction(s) /\ next'[s] = next[s]) =>
           \A t \in Servers : /\ t # s /\ InTransaction(t) /\ next[t] = next'[s]
                              => next[t] \in applied
  PROVE  IInv'
<1>1. RecordedOnce' /\ AppliedIsPrefix' /\ (applied \intersect rejected = {})'
  BY DEF IInv, RecordedOnce, AppliedIsPrefix
<1>2. OneHolder'
  BY DEF IInv, OneHolder, InTransaction
<1>3. \A t \in Servers : Turn(t)'
  BY DEF IInv, Turn
<1> QED BY <1>1, <1>2, <1>3 DEF IInv

\* The step that commits a file: it was this process's turn, and no other
\* transaction on the file is left that could be recorded.
LEMMA CommitStep ==
  ASSUME IInv, TypeOK', NEW s \in Servers, Commit(s) \/ CommitUnheard(s)
  PROVE  IInv'
<1> USE MigrationAssumption DEF MigrationAssumption, IInv, TypeOK
<1> DEFINE f == next[s]
<1>1. /\ f \in Files /\ f \notin applied /\ \A g \in Files : g < f => g \in applied
      /\ f \notin rejected /\ UNCHANGED rejected
      /\ applied' = applied \union {f} /\ effects' = [effects EXCEPT ![f] = @ + 1]
      /\ \A t \in Servers : t # s => pc'[t] = pc[t] /\ next'[t] = next[t]
      /\ (pc'[s] = "check" /\ next'[s] = f + 1) \/ pc'[s] = "down"
  BY DEF Commit, CommitUnheard, Committed, Goto, Turn
<1>2. RecordedOnce'
  BY <1>1 DEF RecordedOnce
<1>3. AppliedIsPrefix'
  BY <1>1 DEF AppliedIsPrefix, Files
<1>4. \A t \in Servers : t # s /\ InTransaction(t) => next[t] # f
  BY <1>1 DEF OneHolder, InTransaction, Commit, CommitUnheard, Committed
<1>5. OneHolder'
  BY <1>1 DEF OneHolder, InTransaction
<1>6. \A t \in Servers : Turn(t)'
  <2>1. Turn(s)'
    BY <1>1 DEF Turn, Files
  <2>2. ASSUME NEW t \in Servers, t # s PROVE Turn(t)'
    BY <1>1, <1>4, <2>2 DEF Turn, InTransaction
  <2> QED BY <2>1, <2>2
<1>7. (applied \intersect rejected = {})'
  BY <1>1
<1> QED BY <1>2, <1>3, <1>5, <1>6, <1>7

LEMMA NextInv == IInv /\ [Next]_vars => IInv'
<1> SUFFICES ASSUME IInv, [Next]_vars PROVE IInv'
  OBVIOUS
<1> USE MigrationAssumption DEF MigrationAssumption, Goto, Database
<1>0. TypeOK' /\ TypeOK /\ \A s \in Servers : Turn(s)
  BY NextTypes DEF IInv
<1>1. ASSUME NEW s \in Servers, Start(s) PROVE IInv'
  <2>1. Turn(s)'
    BY <1>0, <1>1 DEF Start, Turn, TypeOK, Files
  <2> QED BY <1>0, <1>1, <2>1, LocalStep DEF Start, TypeOK, InTransaction
<1>2. ASSUME NEW s \in Servers, EnsureTracking(s) \/ CreateTracking(s) PROVE IInv'
  <2>1. Turn(s)'
    BY <1>0, <1>2 DEF EnsureTracking, CreateTracking, Turn, TypeOK
  <2> QED BY <1>0, <1>2, <2>1, LocalStep DEF EnsureTracking, CreateTracking, TypeOK, InTransaction
<1>3. ASSUME NEW s \in Servers, LoopEnds(s) PROVE IInv'
  <2>1. applied = Files
    <3>1. next[s] = N + 1 /\ pc[s] # "down" /\ applied \subseteq Files
      BY <1>0, <1>3 DEF LoopEnds, TypeOK
    <3>2. \A f \in Files : f < N + 1
      BY DEF Files
    <3> QED BY <1>0, <3>1, <3>2 DEF Turn
  <2>2. Turn(s)'
    BY <1>0, <1>3, <2>1 DEF LoopEnds, Turn, TypeOK
  <2> QED BY <1>0, <1>3, <2>2, LocalStep DEF LoopEnds, TypeOK, InTransaction
<1>4. ASSUME NEW s \in Servers, CheckApplied(s) PROVE IInv'
  <2>1. CASE next[s] \in applied
    <3>1. pc'[s] = "check" /\ next'[s] = next[s] + 1 /\ UNCHANGED <<rejected, applied, effects>>
      BY <1>0, <1>4, <2>1 DEF CheckApplied, TypeOK
    <3>2. Turn(s)'
      <4>1. \A f \in Files : f < next[s] + 1 => f \in applied
        <5> SUFFICES ASSUME NEW f \in Files, f < next[s] + 1 PROVE f \in applied
          OBVIOUS
        <5>1. f < next[s] => f \in applied
          BY <1>0, <1>4 DEF CheckApplied, Turn
        <5>2. next[s] \in Nat /\ f \in Nat
          BY <1>0 DEF TypeOK, Files
        <5>3. f < next[s] \/ f = next[s]
          BY <5>2
        <5> QED BY <2>1, <5>1, <5>3
      <4> QED BY <3>1, <4>1 DEF Turn
    <3> QED BY <1>0, <1>4, <2>1, <3>1, <3>2, LocalStep DEF CheckApplied, TypeOK, InTransaction
  <2>2. CASE next[s] \notin applied
    <3>1. pc'[s] = "exec" /\ next' = next /\ UNCHANGED <<rejected, applied, effects>> /\ next[s] \in Files
      BY <1>0, <1>4, <2>2 DEF CheckApplied, TypeOK, Files
    <3>2. Turn(s)'
      BY <1>0, <1>4, <3>1 DEF CheckApplied, Turn
    <3> QED BY <1>0, <1>4, <2>2, <3>1, <3>2, LocalStep DEF CheckApplied, TypeOK, InTransaction
  <2> QED BY <2>1, <2>2
<1>5. ASSUME NEW s \in Servers, Execute(s) \/ Resume(s) PROVE IInv'
  <2>1. /\ UNCHANGED <<rejected, applied, effects, next>> /\ next[s] \in Files
        /\ pc[s] \in {"exec", "wait"} /\ pc'[s] \in {"down", "record", "wait"}
        /\ pc'[s] # "down" => next[s] \notin rejected
        /\ \A t \in Servers : t # s => pc'[t] = pc[t]
        /\ pc'[s] = "record" => effects[next[s]] > 0 \/ Holders(next[s]) = {}
    <3>1. CASE Execute(s)
      BY <1>0, <3>1 DEF Execute, TypeOK, Turn
    <3>2. CASE Resume(s)
      BY <1>0, <3>2 DEF Resume, TypeOK, Turn
    <3> QED BY <1>5, <3>1, <3>2
  <2>2. Turn(s)'
    BY <1>0, <2>1 DEF Turn
  <2>3. pc'[s] = "record" =>
          \A t \in Servers : InTransaction(t) /\ next[t] = next[s] => next[t] \in applied
    BY <1>0, <2>1 DEF Holders, InTransaction, IInv, RecordedOnce, TypeOK
  <2> QED BY <1>0, <2>1, <2>2, <2>3, LocalStep DEF InTransaction
<1>6. ASSUME NEW s \in Servers, Record(s) PROVE IInv'
  <2>1. Turn(s)'
    BY <1>0, <1>6 DEF Record, Turn, TypeOK
  <2> QED BY <1>0, <1>6, <2>1, LocalStep DEF Record, TypeOK, InTransaction
<1>7. ASSUME NEW s \in Servers, Commit(s) \/ CommitUnheard(s) PROVE IInv'
  BY <1>0, <1>7, CommitStep
<1>8. ASSUME NEW s \in Servers, Listen(s) \/ Die(s) PROVE IInv'
  <2>1. Turn(s)'
    BY <1>0, <1>8 DEF Listen, Die, Turn, TypeOK
  <2> QED BY <1>0, <1>8, <2>1, LocalStep DEF Listen, Die, TypeOK, InTransaction
<1>9. CASE UNCHANGED vars
  BY <1>9 DEF vars, IInv, TypeOK, RecordedOnce, AppliedIsPrefix, OneHolder, InTransaction, Turn
<1> QED BY <1>1, <1>2, <1>3, <1>4, <1>5, <1>6, <1>7, <1>8, <1>9 DEF Next, Step

THEOREM Invariant == Spec => []IInv
  BY InitInv, NextInv, PTL DEF Spec

\* Type correctness, for any servers, files and bound on the starts.
THEOREM Types == Spec => []TypeOK
<1>1. IInv => TypeOK
  BY DEF IInv
<1> QED BY <1>1, Invariant, PTL

\* Whatever processes race and die, a file takes effect exactly when it is
\* recorded, and once.
THEOREM Once == Spec => []RecordedOnce
<1>1. IInv => RecordedOnce
  BY DEF IInv
<1> QED BY <1>1, Invariant, PTL

\* The files are applied in their order.
THEOREM Ordered == Spec => []AppliedIsPrefix
<1>1. IInv => AppliedIsPrefix
  BY DEF IInv
<1> QED BY <1>1, Invariant, PTL

\* A file PostgreSQL refuses, and every later one, never takes effect.
THEOREM Refused == Spec => []RefusedStops
<1>1. IInv => RefusedStops
  <2> SUFFICES ASSUME IInv, NEW r \in rejected, NEW f \in Files, f >= r, f \in applied PROVE FALSE
    BY DEF RefusedStops
  <2>1. r \in 1 .. f
    <3>1. r \in 1 .. N /\ f \in 1 .. N
      BY MigrationAssumption DEF MigrationAssumption, IInv, TypeOK, Files
    <3> QED BY <3>1
  <2> QED BY <2>1 DEF IInv, AppliedIsPrefix
<1> QED BY <1>1, Invariant, PTL

\* No process serves on an incomplete schema.
THEOREM Migrated == Spec => []ServingIsMigrated
<1>1. IInv => ServingIsMigrated
  BY DEF IInv, Turn, ServingIsMigrated
<1> QED BY <1>1, Invariant, PTL
-----------------------------------------------------------------------------
(***************************************************************************)
(* The race for a file never kills everyone.  Once the tracking table      *)
(* exists some process leads: it cannot be told that its file is already   *)
(* there, and the commit that would tell it so makes another one lead.     *)
(***************************************************************************)
Leads(s) ==
  /\ pc[s] \in {"check", "exec", "wait", "record", "commit", "ready", "serving"}
  /\ pc[s] \in {"exec", "wait", "record", "commit"} => next[s] \notin applied

TrackingFirst == \A s \in Servers : pc[s] \notin {"down", "ensure", "create"} => tracking

SomeoneLeads == tracking => \E s \in Servers : Leads(s)

\* Whoever loses the race for a file dies, but the one it lost to lives.
SomeoneSurvives ==
  ~ Faults /\ rejected = {} /\ starts > 0 => \E s \in Servers : pc[s] # "down"

SurvivalInv ==
  ~ Faults /\ rejected = {} => TrackingFirst /\ SomeoneLeads /\ SomeoneSurvives

LEMMA InitSurvival == Init => SurvivalInv
  BY DEF Init, SurvivalInv, TrackingFirst, SomeoneLeads, SomeoneSurvives

\* A leader is not stopped by its own step.
LEMMA LeaderGoesOn ==
  ASSUME IInv, ~ Faults, rejected = {}, NEW s \in Servers, Leads(s), Step(s)
  PROVE  Leads(s)'
<1> USE MigrationAssumption DEF Goto, Database, Leads
<1>0. TypeOK /\ RecordedOnce /\ Turn(s)
  BY DEF IInv
<1>1. CASE LoopEnds(s)
  BY <1>0, <1>1 DEF LoopEnds, TypeOK
<1>2. CASE CheckApplied(s)
  BY <1>0, <1>2 DEF CheckApplied, TypeOK
<1>3. CASE Execute(s)
  <2>1. next[s] \in Files /\ effects[next[s]] = 0
    BY <1>0, <1>3 DEF Execute, Turn, RecordedOnce
  <2> QED BY <1>0, <1>3, <2>1 DEF Execute, TypeOK
<1>4. CASE Resume(s)
  <2>1. next[s] \in Files /\ effects[next[s]] = 0
    BY <1>0, <1>4 DEF Resume, Turn, RecordedOnce
  <2> QED BY <1>0, <1>4, <2>1 DEF Resume, TypeOK
<1>5. CASE Record(s)
  BY <1>0, <1>5 DEF Record, TypeOK
<1>6. CASE Commit(s)
  BY <1>0, <1>6 DEF Commit, Committed, TypeOK
<1>7. CASE Listen(s)
  BY <1>0, <1>7 DEF Listen, TypeOK
<1> QED
  BY <1>1, <1>2, <1>3, <1>4, <1>5, <1>6, <1>7 DEF Step, EnsureTracking, CreateTracking

LEMMA NextSurvival == IInv /\ SurvivalInv /\ [Next]_vars => SurvivalInv'
<1> SUFFICES ASSUME IInv, SurvivalInv, [Next]_vars, ~ Faults, rejected' = {}
             PROVE  (TrackingFirst /\ SomeoneLeads /\ SomeoneSurvives)'
  BY DEF SurvivalInv
<1> USE DEF Goto, Database
<1>0. TypeOK /\ rejected = {}
  BY DEF IInv, Next, Step, Start, EnsureTracking, CreateTracking, LoopEnds, CheckApplied, Execute,
         Resume, Record, Commit, CommitUnheard, Committed, Listen, Die, vars
<1>a. TrackingFirst /\ SomeoneLeads /\ SomeoneSurvives
  BY <1>0 DEF SurvivalInv
<1>1. CASE UNCHANGED vars
  BY <1>1, <1>a DEF vars, TrackingFirst, SomeoneLeads, SomeoneSurvives, Leads
<1>2. ASSUME NEW s \in Servers, Start(s)
      PROVE  (TrackingFirst /\ SomeoneLeads /\ SomeoneSurvives)'
  <2>1. /\ UNCHANGED <<tracking, applied>> /\ pc[s] = "down" /\ pc'[s] = "ensure"
        /\ \A t \in Servers : t # s => pc'[t] = pc[t] /\ next'[t] = next[t]
    BY <1>0, <1>2 DEF Start, TypeOK
  <2> QED BY <1>a, <2>1 DEF TrackingFirst, SomeoneLeads, SomeoneSurvives, Leads
<1>3. ASSUME NEW s \in Servers, Step(s)
      PROVE  (TrackingFirst /\ SomeoneLeads /\ SomeoneSurvives)'
  <2>1. /\ \A t \in Servers : t # s => pc'[t] = pc[t] /\ next'[t] = next[t]
        /\ UNCHANGED starts
    BY <1>0, <1>3
       DEF Step, EnsureTracking, CreateTracking, LoopEnds, CheckApplied, Execute, Resume, Record,
           Commit, Committed, Listen, TypeOK
  <2>2. CASE EnsureTracking(s)
    <3>1. /\ UNCHANGED <<tracking, applied, next>> /\ pc[s] = "ensure"
          /\ pc'[s] = IF tracking THEN "check" ELSE "create"
      BY <1>0, <2>2 DEF EnsureTracking, TypeOK
    <3> QED BY <1>a, <2>1, <3>1 DEF TrackingFirst, SomeoneLeads, SomeoneSurvives, Leads
  <2>3. CASE CreateTracking(s)
    <3>1. /\ UNCHANGED <<applied, next>> /\ tracking' /\ pc[s] = "create"
          /\ pc'[s] = IF tracking THEN "down" ELSE "check"
      BY <1>0, <2>3 DEF CreateTracking, TypeOK
    <3>2. \E t \in Servers : Leads(t)'
      BY <1>a, <2>1, <3>1 DEF SomeoneLeads, Leads
    <3> QED BY <3>1, <3>2 DEF TrackingFirst, SomeoneLeads, SomeoneSurvives, Leads
  <2>4. CASE ~ (EnsureTracking(s) \/ CreateTracking(s))
    <3>1. tracking /\ tracking' = tracking
      BY <1>3, <1>a, <2>4
         DEF TrackingFirst, Step, LoopEnds, CheckApplied, Execute, Resume, Record, Commit,
             Committed, Listen
    <3>2. PICK t \in Servers : Leads(t)
      BY <1>a, <3>1 DEF SomeoneLeads
    <3>3. \E u \in Servers : Leads(u)'
      <4>1. CASE t = s
        BY <1>0, <1>3, <3>2, <4>1, LeaderGoesOn
      <4>2. CASE t # s /\ Commit(s)
        BY <1>0, <4>2 DEF Commit, Committed, TypeOK, Leads
      <4>3. CASE t # s /\ ~ Commit(s)
        <5>1. applied' = applied
          BY <1>3, <2>4, <4>3
             DEF Step, LoopEnds, CheckApplied, Execute, Resume, Record, Listen
        <5> QED BY <2>1, <3>2, <4>3, <5>1 DEF Leads
      <4> QED BY <4>1, <4>2, <4>3
    <3> QED BY <3>1, <3>3 DEF TrackingFirst, SomeoneLeads, SomeoneSurvives, Leads
  <2> QED BY <2>2, <2>3, <2>4
<1> QED BY <1>1, <1>2, <1>3 DEF Next, CommitUnheard, Die

\* Without failures, whoever loses a race dies, but one that it can lose to
\* lives: processes that were started are never all down.
THEOREM Survival == Spec => []SomeoneSurvives
<1>1. SurvivalInv => SomeoneSurvives
  BY DEF SurvivalInv, SomeoneSurvives
<1> QED BY <1>1, InitSurvival, NextSurvival, Invariant, PTL DEF Spec

\* Without failures the processes never all stop, or all wait, while none of
\* them serves: what a process waits for is a transaction that can end.
THEOREM Rest == Spec => []RestIsServing
<1>1. SurvivalInv => RestIsServing
  <2> SUFFICES ASSUME SurvivalInv, ~ Faults, rejected = {}, starts > 0,
                      \A s \in Servers : AtRest(s), \A s \in Servers : pc[s] # "serving"
               PROVE  FALSE
    BY DEF RestIsServing
  <2>1. PICK s \in Servers : pc[s] # "down"
    BY DEF SurvivalInv, SomeoneSurvives
  <2>2. PICK t \in Holders(next[s]) : TRUE
    BY <2>1 DEF AtRest
  <2>3. t \in Servers /\ pc[t] \in {"record", "commit"}
    BY DEF Holders
  <2> QED BY <2>3 DEF AtRest
<1> QED BY <1>1, InitSurvival, NextSurvival, Invariant, PTL DEF Spec

\* How many statements a process executes before it serves or is down, at
\* most: five for each file it has not passed.
StatementsLeft(s) ==
  LET files == 5 * (N + 1 - next[s])
  IN  CASE pc[s] \in {"down", "serving"} -> 0
        [] pc[s] = "ready" -> 1
        [] pc[s] = "commit" -> files - 2
        [] pc[s] = "record" -> files - 1
        [] pc[s] = "wait" -> files
        [] pc[s] = "exec" -> files + 1
        [] pc[s] = "check" -> files + 2
        [] pc[s] = "create" -> files + 3
        [] pc[s] = "ensure" -> files + 4

LEMMA LeftRange ==
  ASSUME IInv, NEW s \in Servers
  PROVE  StatementsLeft(s) \in 0 .. 5 * N + 4
<1>1. /\ N \in Nat /\ next[s] \in 1 .. N + 1
      /\ pc[s] \in {"down", "ensure", "create", "check", "exec", "wait", "record", "commit",
                    "ready", "serving"}
  BY MigrationAssumption DEF MigrationAssumption, IInv, TypeOK
<1>2. pc[s] \in {"record", "commit"} => next[s] <= N
  BY <1>1 DEF IInv, Turn, Files
<1>3. PICK files \in Int : files = 5 * (N + 1 - next[s])
  BY <1>1
<1>4. files \in 0 .. 5 * N /\ (pc[s] \in {"record", "commit"} => files >= 5)
  BY <1>1, <1>2, <1>3
<1>5. StatementsLeft(s) \in {0, 1, files - 2, files - 1, files, files + 1, files + 2, files + 3, files + 4}
  BY <1>1, <1>3 DEF StatementsLeft
<1>6. pc[s] \notin {"record", "commit"} =>
        StatementsLeft(s) \in {0, 1, files, files + 1, files + 2, files + 3, files + 4}
  BY <1>1, <1>3 DEF StatementsLeft
<1> HIDE DEF StatementsLeft
<1> QED BY <1>1, <1>4, <1>5, <1>6

LEMMA LeftShrinks ==
  ASSUME IInv, NEW s \in Servers, Step(s)
  PROVE  StatementsLeft(s)' < StatementsLeft(s)
<1> USE DEF Goto, Database
<1>0. /\ N \in Nat /\ next[s] \in 1 .. N + 1 /\ TypeOK /\ Turn(s)
  BY MigrationAssumption DEF MigrationAssumption, IInv, TypeOK
<1>1. CASE EnsureTracking(s) \/ CreateTracking(s)
  BY <1>0, <1>1 DEF EnsureTracking, CreateTracking, TypeOK, StatementsLeft
<1>2. CASE LoopEnds(s)
  BY <1>0, <1>2 DEF LoopEnds, TypeOK, StatementsLeft
<1>3. CASE CheckApplied(s)
  <2>1. \/ pc'[s] = "check" /\ next'[s] = next[s] + 1
        \/ pc'[s] = "exec" /\ next'[s] = next[s]
    BY <1>0, <1>3 DEF CheckApplied, TypeOK
  <2>2. pc[s] = "check"
    BY <1>3 DEF CheckApplied
  <2> QED BY <1>0, <2>1, <2>2 DEF StatementsLeft
<1>4. CASE Execute(s) \/ Resume(s)
  <2>1. /\ next[s] <= N /\ next'[s] = next[s]
        /\ \/ pc[s] = "exec" /\ pc'[s] \in {"down", "record", "wait"}
           \/ pc[s] = "wait" /\ pc'[s] \in {"down", "record"}
    BY <1>0, <1>4 DEF Execute, Resume, TypeOK, Turn, Files
  <2> QED BY <1>0, <2>1 DEF StatementsLeft
<1>5. CASE Record(s)
  <2>1. /\ next[s] <= N /\ next'[s] = next[s]
        /\ pc[s] = "record" /\ pc'[s] \in {"down", "commit"}
    BY <1>0, <1>5 DEF Record, TypeOK, Turn, Files
  <2> QED BY <1>0, <2>1 DEF StatementsLeft
<1>6. CASE Commit(s)
  <2>1. /\ next[s] <= N /\ next'[s] = next[s] + 1
        /\ pc[s] = "commit" /\ pc'[s] = "check"
    BY <1>0, <1>6 DEF Commit, Committed, TypeOK, Turn, Files
  <2> QED BY <1>0, <2>1 DEF StatementsLeft
<1>7. CASE Listen(s)
  BY <1>0, <1>7 DEF Listen, TypeOK, StatementsLeft
<1> QED BY <1>1, <1>2, <1>3, <1>4, <1>5, <1>6, <1>7 DEF Step

\* A start of the backend ends, in service or down, after a bounded number of
\* statements of its own, whatever other processes commit in between.
THEOREM Bounded ==
  Spec => /\ [](\A s \in Servers : StatementsLeft(s) \in 0 .. 5 * N + 4)
          /\ [][\A s \in Servers : Step(s) => StatementsLeft(s)' < StatementsLeft(s)]_vars
<1>1. IInv => \A s \in Servers : StatementsLeft(s) \in 0 .. 5 * N + 4
  BY LeftRange
<1>2. IInv /\ [Next]_vars =>
        [\A s \in Servers : Step(s) => StatementsLeft(s)' < StatementsLeft(s)]_vars
  BY LeftShrinks
<1> QED BY <1>1, <1>2, Invariant, PTL DEF Spec
-----------------------------------------------------------------------------
(***************************************************************************)
(* Migrations implements SchemaHistory.                                    *)
(***************************************************************************)
Up == {s \in Servers : pc[s] = "serving"}

LEMMA NextHistory ==
  ASSUME IInv, [Next]_vars
  PROVE  [H!Change]_<<applied, effects, Up>>
<1> USE MigrationAssumption DEF MigrationAssumption, IInv, TypeOK, Goto, Database
<1>1. ASSUME NEW s \in Servers, Commit(s) \/ CommitUnheard(s) PROVE H!Change
  <2> DEFINE f == next[s]
  <2>1. /\ f \in Files /\ f \notin applied /\ \A g \in Files : g < f => g \in applied
        /\ applied' = applied \union {f} /\ effects' = [effects EXCEPT ![f] = @ + 1]
    BY <1>1 DEF Commit, CommitUnheard, Committed, Turn
  <2>2. applied = 1 .. f - 1
    <3>1. ASSUME NEW g \in applied PROVE g \in 1 .. f - 1
      BY <2>1 DEF AppliedIsPrefix, Files
    <3>2. ASSUME NEW g \in 1 .. f - 1 PROVE g \in applied
      BY <2>1 DEF Files
    <3> QED BY <3>1, <3>2
  <2>3. applied' = 1 .. f
    BY <2>1, <2>2 DEF Files
  <2>4. effects' = [effects EXCEPT ![f] = 1]
    <3>1. effects[f] = 0
      BY <2>1 DEF RecordedOnce
    <3> QED BY <2>1, <3>1
  <2>5. Up' = Up
    BY <1>1 DEF Up, Commit, CommitUnheard, Committed
  <2>6. H!Apply(f)
    BY <2>2, <2>3, <2>4, <2>5 DEF H!Apply, Up
  <2> QED BY <2>1, <2>6 DEF H!Change, Files
<1>2. ASSUME NEW s \in Servers, Listen(s) PROVE H!Change
  <2>1. applied = Files /\ Up' = Up \union {s} /\ UNCHANGED <<rejected, applied, effects>>
    BY <1>2 DEF Listen, Turn, Up
  <2>2. H!GoUp(s)
    BY <2>1 DEF H!GoUp, Up, Files
  <2> QED BY <2>2 DEF H!Change
<1>3. ASSUME NEW s \in Servers, Die(s) PROVE H!Change
  <2>1. Up' = Up \ {s} /\ UNCHANGED <<rejected, applied, effects>>
    BY <1>3 DEF Die, Up
  <2>2. H!GoDown(s)
    BY <2>1 DEF H!GoDown, Up
  <2> QED BY <2>2 DEF H!Change
<1>4. ASSUME NEW s \in Servers, Start(s) PROVE UNCHANGED <<applied, effects, Up>>
  BY <1>4 DEF Start, Up
<1>5. ASSUME NEW s \in Servers, EnsureTracking(s) \/ CreateTracking(s) \/ LoopEnds(s) \/ Record(s)
      PROVE  UNCHANGED <<applied, effects, Up>>
  BY <1>5 DEF EnsureTracking, CreateTracking, LoopEnds, Record, Up
<1>6. ASSUME NEW s \in Servers, CheckApplied(s) PROVE UNCHANGED <<applied, effects, Up>>
  BY <1>6 DEF CheckApplied, Up
<1>7. ASSUME NEW s \in Servers, Execute(s) \/ Resume(s) PROVE UNCHANGED <<applied, effects, Up>>
  BY <1>7 DEF Execute, Resume, Up
<1>8. UNCHANGED vars => UNCHANGED <<applied, effects, Up>>
  BY DEF vars, Up
<1> QED BY <1>1, <1>2, <1>3, <1>4, <1>5, <1>6, <1>7, <1>8 DEF Next, Step

\* The database changes only as the history allows, under any race between
\* processes and any failure.
THEOREM HistoryImplemented == Spec => HistoryKept
<1>1. Init => H!Blank
  BY DEF Init, H!Blank, Files
<1>2. IInv /\ [Next]_vars => [H!Change]_<<applied, effects, {s \in Servers : pc[s] = "serving"}>>
  BY NextHistory DEF Up
<1> QED BY <1>1, <1>2, Invariant, PTL DEF Spec, HistoryKept, H!History
=============================================================================
