---------------------------- MODULE SchemaHistory ----------------------------
(***************************************************************************)
(* What the migration runner promises about a database, whoever runs it:   *)
(* the files take effect in order, each once, and no server is up on a     *)
(* schema that is not complete.  Migrations implements it.                 *)
(***************************************************************************)
EXTENDS Naturals

CONSTANTS N, Servers

VARIABLES applied, effects, up

Blank == applied = {} /\ effects = [f \in 1 .. N |-> 0] /\ up = {}

Apply(f) ==
  /\ applied = 1 .. f - 1
  /\ applied' = 1 .. f
  /\ effects' = [effects EXCEPT ![f] = 1]
  /\ UNCHANGED up

GoUp(s) ==
  /\ applied = 1 .. N
  /\ up' = up \union {s}
  /\ UNCHANGED <<applied, effects>>

GoDown(s) ==
  /\ up' = up \ {s}
  /\ UNCHANGED <<applied, effects>>

Change ==
  \/ \E f \in 1 .. N : Apply(f)
  \/ \E s \in Servers : GoUp(s) \/ GoDown(s)

History == Blank /\ [][Change]_<<applied, effects, up>>
=============================================================================
