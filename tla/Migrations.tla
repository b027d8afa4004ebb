----------------------------- MODULE Migrations -----------------------------
(***************************************************************************)
(* RunMigrations (internal/pkg/database/migrate.go) as run by main         *)
(* (cmd/server/main.go) of any number of backend processes that share one  *)
(* PostgreSQL database.  Nothing serialises the processes: no advisory     *)
(* lock is taken, and the question "is this file applied?" is asked        *)
(* outside the transaction that applies it.                                *)
(*                                                                         *)
(* The files are 1 .. N in the order sort.Strings puts them.               *)
(***************************************************************************)
EXTENDS Naturals

CONSTANTS
  Servers,      \* backend processes
  N,            \* number of migration files
  Rerunnable,   \* files that succeed on a database that has their effects
  Seeds,        \* of those, files of INSERT ... ON CONFLICT DO NOTHING only
  Refusals,     \* the sets of files PostgreSQL may refuse to execute
  Faults,       \* may statements fail and processes die?
  MaxStarts     \* bound on process starts

Files == 1 .. N

ASSUME MigrationAssumption ==
  /\ N \in Nat /\ MaxStarts \in Nat /\ Faults \in BOOLEAN
  /\ Refusals \subseteq SUBSET Files
  /\ Seeds \subseteq Rerunnable /\ Rerunnable \subseteq Files

VARIABLES
  rejected,     \* the files PostgreSQL refuses (the same ones every time)
  tracking,     \* does the table schema_migrations exist?
  applied,      \* its committed rows
  effects,      \* effects[f]: how often the statements of f were committed
  pc, next,     \* where a process is, and the file it looks at
  starts        \* process starts so far

vars == <<rejected, tracking, applied, effects, pc, next, starts>>

Goto(s, l) == pc' = [pc EXCEPT ![s] = l]
Database == <<rejected, tracking, applied, effects>>

\* The transactions that have created the objects of f and not ended.
Holders(f) == {t \in Servers : pc[t] \in {"record", "commit"} /\ next[t] = f /\ effects[f] = 0}

\* Mutant: the files are counted from 0.
StartAtZero(s) ==
  /\ pc[s] = "down" /\ starts < MaxStarts
  /\ starts' = starts + 1
  /\ next' = [next EXCEPT ![s] = 0]
  /\ Goto(s, "ensure")
  /\ UNCHANGED Database

Start(s) ==
  /\ pc[s] = "down" /\ starts < MaxStarts
  /\ starts' = starts + 1
  /\ next' = [next EXCEPT ![s] = 1]
  /\ Goto(s, "ensure")
  /\ UNCHANGED Database

(***************************************************************************)
(* CREATE TABLE IF NOT EXISTS schema_migrations.  PostgreSQL looks for the *)
(* table, then inserts into its catalogue; of two sessions that both find  *)
(* no table the second fails with a unique violation.                      *)
(***************************************************************************)
EnsureTracking(s) ==
  /\ pc[s] = "ensure"
  /\ Goto(s, IF tracking THEN "check" ELSE "create")
  /\ UNCHANGED <<Database, next, starts>>

CreateTracking(s) ==
  /\ pc[s] = "create"
  /\ Goto(s, IF tracking THEN "down" ELSE "check")
  /\ tracking' = TRUE
  /\ UNCHANGED <<rejected, applied, effects, next, starts>>

(***************************************************************************)
(* The loop over the files.                                                *)
(***************************************************************************)
\* Mutant: the loop expects one more file than there is.
LoopEndsLate(s) ==
  /\ pc[s] = "check" /\ next[s] > N + 1
  /\ Goto(s, "ready")
  /\ UNCHANGED <<Database, next, starts>>

LoopEnds(s) ==
  /\ pc[s] = "check" /\ next[s] > N
  /\ Goto(s, "ready")
  /\ UNCHANGED <<Database, next, starts>>

CheckApplied(s) ==
  /\ pc[s] = "check" /\ next[s] <= N
  /\ IF next[s] \in applied
       THEN next' = [next EXCEPT ![s] = @ + 1] /\ UNCHANGED pc
       ELSE Goto(s, "exec") /\ UNCHANGED next
  /\ UNCHANGED <<Database, starts>>

\* Mutant: the error of a file is logged and the loop goes on.
ExecuteGoesOn(s) ==
  /\ pc[s] = "exec"
  /\ \/ /\ next[s] \in rejected
        /\ next' = [next EXCEPT ![s] = @ + 1]
        /\ Goto(s, "check")
     \/ /\ next[s] \notin rejected
        /\ Goto(s, "record") /\ UNCHANGED next
  /\ UNCHANGED <<Database, starts>>

\* The transaction has begun.  What the file does depends on the effects
\* that are committed and on the transactions still open: the objects of an
\* open transaction are invisible, but their names are taken.
Execute(s) ==
  LET f == next[s]
  IN  /\ pc[s] = "exec"
      /\ \/ f \in rejected /\ Goto(s, "down")
         \/ /\ f \notin rejected /\ effects[f] > 0
            /\ Goto(s, IF f \in Rerunnable THEN "record" ELSE "down")
         \/ /\ f \notin rejected /\ effects[f] = 0
            /\ Goto(s, IF Holders(f) = {} THEN "record" ELSE "wait")
      /\ UNCHANGED <<Database, next, starts>>

\* The transaction that was waited for has ended.  If it committed, the
\* names are in use now: IF NOT EXISTS was evaluated before and does not help.
Resume(s) ==
  LET f == next[s]
  IN  /\ pc[s] = "wait" /\ Holders(f) = {}
      /\ Goto(s, IF effects[f] = 0 \/ f \in Seeds THEN "record" ELSE "down")
      /\ UNCHANGED <<Database, next, starts>>

\* Mutant: the row is inserted outside the transaction.
RecordAtOnce(s) ==
  /\ pc[s] = "record" /\ next[s] \notin applied
  /\ applied' = applied \union {next[s]}
  /\ Goto(s, "commit")
  /\ UNCHANGED <<rejected, tracking, effects, next, starts>>

\* Mutant: the row is inserted with ON CONFLICT DO NOTHING.
RecordTolerant(s) ==
  /\ pc[s] = "record"
  /\ Goto(s, "commit")
  /\ UNCHANGED <<Database, next, starts>>

\* INSERT INTO schema_migrations; filename is the primary key.
Record(s) ==
  /\ pc[s] = "record"
  /\ Goto(s, IF next[s] \in applied THEN "down" ELSE "commit")
  /\ UNCHANGED <<Database, next, starts>>

Committed(s) ==
  /\ pc[s] = "commit"
  /\ applied' = applied \union {next[s]}
  /\ effects' = [effects EXCEPT ![next[s]] = @ + 1]
  /\ UNCHANGED <<rejected, tracking, starts>>

Commit(s) ==
  /\ Committed(s)
  /\ next' = [next EXCEPT ![s] = @ + 1]
  /\ Goto(s, "check")

\* The server commits, but the process does not hear of it.
CommitUnheard(s) ==
  /\ Faults
  /\ Committed(s)
  /\ Goto(s, "down")
  /\ UNCHANGED next

\* Mutant: main returns instead of waiting for a signal.
ListenAndLeave(s) ==
  /\ pc[s] = "ready"
  /\ Goto(s, "down")
  /\ UNCHANGED <<Database, next, starts>>

\* RunMigrations has returned nil; main builds the router and listens.
Listen(s) ==
  /\ pc[s] = "ready"
  /\ Goto(s, "serving")
  /\ UNCHANGED <<Database, next, starts>>

\* An error ends the process (log.Fatalf), and so does a kill or, once it is
\* serving, a signal (Shutdown); PostgreSQL rolls back the transaction of a
\* connection that is gone.
Die(s) ==
  /\ Faults
  /\ pc[s] # "down"
  /\ Goto(s, "down")
  /\ UNCHANGED <<Database, next, starts>>

Init ==
  /\ rejected \in Refusals
  /\ tracking = FALSE
  /\ applied = {}
  /\ effects = [f \in Files |-> 0]
  /\ pc = [s \in Servers |-> "down"]
  /\ next = [s \in Servers |-> 1]
  /\ starts = 0

Step(s) ==
  \/ EnsureTracking(s) \/ CreateTracking(s)
  \/ LoopEnds(s) \/ CheckApplied(s) \/ Execute(s) \/ Resume(s) \/ Record(s) \/ Commit(s)
  \/ Listen(s)

Next == \E s \in Servers : Start(s) \/ Step(s) \/ CommitUnheard(s) \/ Die(s)

Spec == Init /\ [][Next]_vars

\* A process runs while its database answers.  Nothing starts a process
\* again: docker-compose.yml has no restart policy.
FairSpec == Spec /\ \A s \in Servers : WF_vars(Step(s))
-----------------------------------------------------------------------------
(***************************************************************************)
(* Properties.                                                             *)
(***************************************************************************)
TypeOK ==
  /\ rejected \in Refusals
  /\ tracking \in BOOLEAN
  /\ applied \subseteq Files
  /\ effects \in [Files -> Nat]
  /\ pc \in [Servers -> {"down", "ensure", "create", "check", "exec", "wait", "record",
                         "commit", "ready", "serving"}]
  /\ next \in [Servers -> 1 .. N + 1]
  /\ starts \in Nat

\* A file took effect if and only if it is recorded, and it took effect
\* once, although the check and the transaction are two steps that other
\* processes, a failure or a lost commit acknowledgement may come between.
RecordedOnce == \A f \in Files : effects[f] = IF f \in applied THEN 1 ELSE 0

\* A refused file stops every process that gets to it: nothing from it on
\* ever takes effect, however often processes are started.
RefusedStops == \A r \in rejected, f \in Files : f >= r => f \notin applied

\* No process has a statement it can execute: it is down, it serves, or it
\* waits for a transaction that has not ended.
AtRest(s) == pc[s] \in {"down", "serving"} \/ (pc[s] = "wait" /\ Holders(next[s]) # {})

\* Without failures the processes never come to rest while none of them
\* serves: whoever loses the race for a file dies or waits, but the one it
\* lost to goes on, and nobody waits for a transaction that does not end.
RestIsServing ==
  ~ Faults /\ rejected = {} /\ starts > 0 /\ (\A s \in Servers : AtRest(s)) =>
    \E s \in Servers : pc[s] = "serving"

\* What README.md says of docker-compose up: the backend comes up and serves.
ServesEventually == (starts > 0) ~> (\E s \in Servers : pc[s] = "serving")

\* The database changes only as SchemaHistory says.
H == INSTANCE SchemaHistory WITH up <- {s \in Servers : pc[s] = "serving"}
HistoryKept == H!History
=============================================================================
