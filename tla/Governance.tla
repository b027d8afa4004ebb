----------------------------- MODULE Governance -----------------------------
(***************************************************************************)
(* Permissions, principles and control rules (internal/domain/governance). *)
(*                                                                         *)
(* checkPermission looks at none of its inputs: it answers with the first  *)
(* permission of the list.  Names, of permissions and of the actions asked *)
(* about, are numbers, in their sort order; no route changes or deletes a  *)
(* row.                                                                    *)
(***************************************************************************)
EXTENDS Rows

CONSTANTS
  PermissionNames,   \* names of permissions, as numbers
  PrincipleNames,
  AskedLevels,       \* levels a client asks for
  AskedBehaviors     \* behaviors a client asks for

Behaviors == {"auto", "notify", "approve", "deny"}

ASSUME GovernanceAssumption == PermissionNames \subseteq Nat /\ AskedLevels \subseteq Nat

VARIABLES
  permissions,    \* rows [level, name, behavior]
  principles,     \* rows [name]
  controlRules    \* the principle of each rule, 0 for none

governance == <<permissions, principles, controlRules>>

GovernanceInit == permissions = {} /\ principles = <<>> /\ controlRules = <<>>

-----------------------------------------------------------------------------
\* The level is checked, an unknown behavior becomes "notify"; name is UNIQUE.
\* Nothing refers to a permission's id, so who was told of it is left out.
CreatePermission(level, name, behavior) ==
  /\ level \in 1 .. 4
  /\ \A p \in permissions : p.name # name
  /\ Insert
  /\ permissions' = permissions \cup
       {[level |-> level, name |-> name,
         behavior |-> IF behavior \in Behaviors THEN behavior ELSE "notify"]}

createPermission ==
  /\ \E level \in AskedLevels, name \in PermissionNames, behavior \in AskedBehaviors :
       CreatePermission(level, name, behavior)
  /\ UNCHANGED <<told, principles, controlRules>>

CreatePrinciple(name) ==
  /\ \A n \in DOMAIN principles : principles[n].name # name
  /\ Insert
  /\ principles' = Append(principles, [name |-> name])
  /\ Answered({Row("principle", Len(principles) + 1)})

createPrinciple ==
  /\ \E name \in PrincipleNames : CreatePrinciple(name)
  /\ UNCHANGED <<permissions, controlRules>>

listPrinciples ==
  /\ Answered(RowsOf("principle", principles))
  /\ UNCHANGED <<rows, governance>>

\* principle_id may be left out.
CreateControlRule(principle) ==
  /\ principle \in {0} \cup DOMAIN principles
  /\ Insert
  /\ controlRules' = Append(controlRules, principle)

createControlRule ==
  /\ \E principle \in {0} \cup {n \in DOMAIN principles : Row("principle", n) \in told} :
       CreateControlRule(principle)
  /\ UNCHANGED <<told, permissions, principles>>

\* Mutant: the list is ordered by level only, and a later row of the level
\* comes first.
ComesFirstNewestOfLevel(p, q) ==
  p.level < q.level \/ (p.level = q.level /\ p.name >= q.name)

\* ORDER BY level, name.
ComesFirst(p, q) == p.level < q.level \/ (p.level = q.level /\ p.name <= q.name)

FirstRows == {p \in permissions : \A q \in permissions : ComesFirst(p, q)}

\* The answer without a row: "no matching permission".
NoMatch == [allowed |-> FALSE, level |-> 0, behavior |-> ""]

\* The first row decides, whatever action is asked about; who asks, and about
\* which resource, is ignored too and left out.  The answer's reason follows
\* from its behavior.
CheckPermission(action) ==
  IF permissions = {} THEN NoMatch
  ELSE LET first == CHOOSE p \in FirstRows : TRUE
       IN  [allowed |-> first.behavior \in {"auto", "notify"},
            level |-> first.level, behavior |-> first.behavior]

GovernanceNext == createPermission \/ createPrinciple \/ listPrinciples \/ createControlRule

GovernanceTypeOK ==
  /\ permissions \subseteq [level : 1 .. 4, name : PermissionNames, behavior : Behaviors]
  /\ principles \in Seq([name : PrincipleNames])
  /\ controlRules \in Seq(0 .. Len(principles))
=============================================================================
