---------------------------- MODULE Organization ----------------------------
(***************************************************************************)
(* Organizations, their MVRUs, members and relationships                   *)
(* (internal/domain/organization), over the actors of Identity.            *)
(*                                                                         *)
(* There is no route that lists organizations or members, and none that    *)
(* deletes an organization or an MVRU.  GET /muvrs/{id} shows only rows    *)
(* its caller knows and is left out.                                       *)
(***************************************************************************)
EXTENDS Identity

CONSTANT Roles           \* the seeded roles

VARIABLES
  organizations,  \* rows [name]
  muvrs,          \* rows [organization, parent, status], parent 0 for none
  members,        \* rows [mvru, user, agent, role], user or agent NULL
  relationships,  \* pairs <<source, target>>
  chart           \* one GET /organizations/{id}: [pc, org, since, shown]

organization == <<organizations, muvrs, members, relationships, chart>>

idle == [pc |-> "idle", org |-> 0, since |-> {}, shown |-> {}]

OrganizationInit ==
  /\ organizations = <<>> /\ muvrs = <<>>
  /\ members = {} /\ relationships = {}
  /\ chart = idle

-----------------------------------------------------------------------------
Told(table, n) == Row(table, n) \in told
ToldMVRUs == {m \in DOMAIN muvrs : Told("mvru", m)}

CreateOrganization ==
  /\ Insert
  /\ organizations' = Append(organizations, [name |-> "any"])
  /\ Answered({Row("organization", Len(organizations) + 1)})

createOrganization ==
  CreateOrganization /\ UNCHANGED <<identity, muvrs, members, relationships, chart>>

\* organization_id and parent_id must exist; the parent may be an MVRU of
\* another organization.
CreateMVRU(org, parent) ==
  /\ org \in DOMAIN organizations /\ parent \in {0} \cup DOMAIN muvrs
  /\ Insert
  /\ muvrs' = Append(muvrs, [organization |-> org, parent |-> parent, status |-> "designing"])
  /\ Answered({Row("mvru", Len(muvrs) + 1)})

createMVRU ==
  /\ \E org \in {o \in DOMAIN organizations : Told("organization", o)},
        parent \in {0} \cup ToldMVRUs : CreateMVRU(org, parent)
  /\ UNCHANGED <<identity, organizations, members, relationships, chart>>

\* Mutant: the UPDATE has lost its WHERE id = $2.
UpdateEveryStatus(m, status) == [n \in DOMAIN muvrs |-> [muvrs[n] EXCEPT !.status = status]]

UpdateMVRUStatus(m, status) == [muvrs EXCEPT ![m].status = status]

\* Only two of the five states can be asked for, from any state.
updateMVRUStatus ==
  /\ \E m \in ToldMVRUs, status \in {"active", "evaluating"} :
       muvrs' = UpdateMVRUStatus(m, status)
  /\ UNCHANGED <<shared, identity, organizations, members, relationships, chart>>

\* COALESCE(user_id, agent_id).
Actor(user, agent) == IF user # NULL THEN user ELSE agent

\* Mutant: the columns user_id and agent_id have no REFERENCES.
AddAnyMember(m, user, agent, role) ==
  /\ user = NULL \/ agent = NULL
  /\ Insert
  /\ members' = {x \in members : x.mvru # m \/ Actor(x.user, x.agent) # Actor(user, agent)}
                  \cup {[mvru |-> m, user |-> user, agent |-> agent, role |-> role]}

\* chk_one_actor, the foreign keys, and ON CONFLICT: the row the actor has in
\* this MVRU gets the new role.
AddMember(m, user, agent, role) ==
  /\ user = NULL \/ agent = NULL
  /\ user \in {NULL} \cup RowsOf("user", users)
  /\ agent \in {NULL} \cup RowsOf("agent", agents)
  /\ Insert
  /\ members' = {x \in members : x.mvru # m \/ Actor(x.user, x.agent) # Actor(user, agent)}
                  \cup {[mvru |-> m, user |-> user, agent |-> agent, role |-> role]}

\* One of the ids is given; it may be the id of anything.
addMember ==
  /\ \E m \in ToldMVRUs, user, agent \in {NULL} \cup told, role \in Roles :
       /\ user # NULL \/ agent # NULL
       /\ AddMember(m, user, agent, role)
  /\ UNCHANGED <<told, identity, organizations, muvrs, relationships, chart>>

\* user_id wins over agent_id; without either nothing is deleted.
RemoveMember(m, user, agent) ==
  {x \in members : /\ x.mvru = m
                   /\ IF user # NULL THEN x.user = user ELSE agent # NULL /\ x.agent = agent}

removeMember ==
  /\ \E m \in ToldMVRUs, user, agent \in {NULL} \cup told :
       members' = members \ RemoveMember(m, user, agent)
  /\ UNCHANGED <<shared, identity, organizations, muvrs, relationships, chart>>

\* chk_no_self_ref and the foreign keys.  Nothing reads the table: equal rows
\* are one pair here.
CreateRelationship(source, target) ==
  /\ source # target
  /\ Insert
  /\ relationships' = relationships \cup {<<source, target>>}

createRelationship ==
  /\ \E source, target \in ToldMVRUs : CreateRelationship(source, target)
  /\ UNCHANGED <<told, identity, organizations, muvrs, members, chart>>

-----------------------------------------------------------------------------
\* getOrganization reads the organization first and, in a second statement,
\* the MVRUs its chart is built from.

ListMVRUs(org) == {m \in DOMAIN muvrs : muvrs[m].organization = org}

GetOrganizationByID ==
  /\ chart.pc # "chart"
  /\ \E o \in {n \in DOMAIN organizations : Told("organization", n)} :
       chart' = [pc |-> "chart", org |-> o, since |-> ListMVRUs(o), shown |-> {}]
  /\ UNCHANGED <<shared, identity, organizations, muvrs, members, relationships>>

\* Mutant: childMap is keyed by the row's own id, not by its parent's.
GetOrgChartByOwnId(org) ==
  LET all == ListMVRUs(org)
      childMap == [p \in DOMAIN muvrs |-> {m \in all : m = p}]
      roots == {m \in all : muvrs[m].parent = 0}
  IN  roots \cup UNION {childMap[r] : r \in roots}

\* The roots, and under each root its children in childMap.  A root is copied
\* before its children get theirs, so the chart has two levels.
GetOrgChart(org) ==
  LET all == ListMVRUs(org)
      childMap == [p \in DOMAIN muvrs |-> {m \in all : muvrs[m].parent = p}]
      roots == {m \in all : muvrs[m].parent = 0}
  IN  roots \cup UNION {childMap[r] : r \in roots}

getOrganization ==
  /\ chart.pc = "chart"
  /\ LET shown == GetOrgChart(chart.org)
     IN  /\ chart' = [chart EXCEPT !.pc = "answered", !.shown = shown]
         /\ Answered({Row("mvru", m) : m \in shown})
  /\ UNCHANGED <<rows, identity, organizations, muvrs, members, relationships>>

OrganizationNext ==
  \/ createOrganization \/ createMVRU \/ updateMVRUStatus
  \/ addMember \/ removeMember \/ createRelationship
  \/ GetOrganizationByID \/ getOrganization

OrganizationTypeOK ==
  /\ organizations \in Seq([name : {"any"}])
  /\ muvrs \in Seq([organization : Nat, parent : Nat, status : {"designing", "active", "evaluating"}])
  /\ \A m \in DOMAIN muvrs : muvrs[m].organization \in DOMAIN organizations /\ muvrs[m].parent < m
  /\ members \subseteq [mvru : DOMAIN muvrs, user : {NULL} \cup RowsOf("user", users),
                        agent : {NULL} \cup RowsOf("agent", agents), role : Roles]
  /\ \A x \in members : (x.user = NULL) # (x.agent = NULL)
  /\ relationships \subseteq (DOMAIN muvrs) \X (DOMAIN muvrs)
  /\ chart \in [pc : {"idle", "chart", "answered"}, org : Nat,
                since : SUBSET DOMAIN muvrs, shown : SUBSET DOMAIN muvrs]
=============================================================================
