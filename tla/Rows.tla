-------------------------------- MODULE Rows --------------------------------
(***************************************************************************)
(* What the route handlers of every domain share: a row is inserted with   *)
(* one statement, the database gives it a random UUID, and a client learns *)
(* that UUID only from an answer that shows the row.  An answer is written *)
(* after the statement has committed and may be lost on its way (the       *)
(* client timed out, the process died): then the row exists and nobody     *)
(* was told.                                                               *)
(*                                                                         *)
(* A row is named by its table and its number in it.  A request may name   *)
(* only rows the clients were told of: a UUID is not guessed, and one that *)
(* names nothing is refused or matches no row.  Requests that are refused  *)
(* before their first statement, and statements that fail, change nothing  *)
(* and are left out.                                                       *)
(***************************************************************************)
EXTENDS Integers, Sequences, FiniteSets

CONSTANTS
  MaxRows,   \* bound on the INSERTs of a behaviour
  NULL       \* the SQL NULL

ASSUME RowsAssumption == MaxRows \in Nat
ASSUME NullAssumption == NULL \notin {"user", "agent"} \X Nat

VARIABLES
  rows,      \* how many INSERTs met no constraint so far
  told       \* the rows the clients were told of

shared == <<rows, told>>

\* One INSERT that meets no constraint.
Insert == rows < MaxRows /\ rows' = rows + 1

Row(table, n) == <<table, n>>
RowsOf(table, seq) == {Row(table, n) : n \in DOMAIN seq}

\* The answer shows the rows "shown" and arrives, or it is lost.
Answered(shown) == told' \in {told, told \cup shown}

\* Scan stores a column in a Go string, which cannot take a NULL.
Scans(column) == column # NULL

RowsInit == rows = 0 /\ told = {}
=============================================================================
