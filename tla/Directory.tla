----------------------------- MODULE Directory ------------------------------
(***************************************************************************)
(* The composition of the domains that say who exists, where they belong   *)
(* and what they may do: Identity, Organization, Bindings and Governance.  *)
(* Their rows refer to one another by UUIDs that the clients carry from    *)
(* the answers of one domain into the requests of another.                 *)
(***************************************************************************)
EXTENDS Bindings, Governance

vars == <<shared, identity, organization, bound, governance>>

Init == RowsInit /\ IdentityInit /\ OrganizationInit /\ BindingsInit /\ GovernanceInit

Next ==
  \/ IdentityNext /\ UNCHANGED <<organization, bound, governance>>
  \/ OrganizationNext /\ UNCHANGED <<bound, governance>>
  \/ BindingsNext /\ UNCHANGED governance
  \/ GovernanceNext /\ UNCHANGED <<identity, organization, bound>>

Spec == Init /\ [][Next]_vars
-----------------------------------------------------------------------------
\* Every table has its type: each reference is to a row that exists, an MVRU's
\* parent is older than it (so the MVRUs are a forest), a member is one actor,
\* and clients were told only of rows that were inserted.
TypeOK ==
  /\ rows \in 0 .. MaxRows
  /\ told \subseteq RowsOf("agent", agents) \cup RowsOf("organization", organizations)
                      \cup RowsOf("mvru", muvrs) \cup RowsOf("capability", capabilities)
                      \cup RowsOf("principle", principles) \cup {Row("binding", n) : n \in 1 .. rows}
                      \cup RowsOf("user", users)
  /\ IdentityTypeOK /\ OrganizationTypeOK /\ BindingsTypeOK /\ GovernanceTypeOK

\* README.md:7 promises that agents and humans are treated alike, each with an
\* identity: whoever registered is let in with the credential of its own.  It
\* holds for agents.  It does not hold for humans (identity/repository.go:21
\* and :39): avatar_url is NULL in every row and is scanned into a string.
ActorsAlike ==
  /\ \A n \in DOMAIN agents : AuthenticateAgent(n, agents[n].key)
  /\ \A n \in DOMAIN users :
       Row("user", n) \in AuthenticateUser(users[n].email, users[n].password)

\* What nobody was told of stays out of everything: a row whose answer was
\* lost holds no token, is nobody's parent, member, end of a relationship or
\* side of a binding, has no layer configuration and no rules, and is as its
\* INSERT left it.  A retried create leaves such a row behind, harmless.
UntoldIsInert ==
  /\ \A n \in DOMAIN agents : Row("agent", n) \notin told =>
       /\ Row("agent", n) \notin tokens
       /\ \A x \in members : x.agent # Row("agent", n)
  /\ \A o \in DOMAIN organizations : ~Told("organization", o) => ListMVRUs(o) = {}
  /\ \A m \in DOMAIN muvrs : ~Told("mvru", m) =>
       /\ muvrs[m].status = "designing"
       /\ \A c \in DOMAIN muvrs : muvrs[c].parent # m
       /\ \A x \in members : x.mvru # m
       /\ \A r \in relationships : r[1] # m /\ r[2] # m
       /\ \A b \in bindings : b.mvru # m
       /\ \A l \in layerConfigs : l[1] # m
  /\ \A c \in DOMAIN capabilities : ~Told("capability", c) =>
       \A b \in bindings : b.capability # c
  /\ \A p \in DOMAIN principles : ~Told("principle", p) =>
       \A r \in DOMAIN controlRules : controlRules[r] # p

\* Where an MVRU can be seen on its organization's chart: as a root, or right
\* under a root of the same organization.
Showable(org) ==
  {m \in DOMAIN muvrs :
     /\ muvrs[m].organization = org
     /\ LET p == muvrs[m].parent
        IN  p = 0 \/ (muvrs[p].organization = org /\ muvrs[p].parent = 0)}

\* GET /organizations/{id} reads twice: its chart shows every MVRU that was
\* showable when the request read the organization, and nothing that is not
\* showable now.  Deeper MVRUs, and those under another organization's MVRU,
\* never appear (organization/repository.go:166).
ChartIsHonest ==
  chart.pc = "answered" =>
    /\ chart.since \cap Showable(chart.org) \subseteq chart.shown
    /\ chart.shown \subseteq Showable(chart.org)

\* A binding goes only by its own id, one at a time: an unbind that is
\* retried or late, when the capability was bound again, takes nothing else.
UnbindTakesOne ==
  [][\A a, b \in bindings \ bindings' :
       a = b /\ Row("binding", a.id) \in told]_bindings

\* The gate's answer is settled by the permission that sorts first: creating
\* one that sorts after any other never changes what checkPermission answers,
\* whatever action it is asked about.
DecisionKept ==
  [][\A p \in permissions' \ permissions :
       (\E q \in permissions : q.level < p.level \/ (q.level = p.level /\ q.name < p.name))
         => \A action \in PermissionNames :
              CheckPermission(action)' = CheckPermission(action)]_permissions
=============================================================================
