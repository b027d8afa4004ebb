--------------------------- MODULE DirectoryProofs --------------------------
(***************************************************************************)
(* Proofs about Directory.  As in RecordsProofs, the inductive invariant   *)
(* has a part per domain, and a step of one domain leaves the parts of the *)
(* others as they are: told only grows, and no table loses what others     *)
(* refer to.  The parts say positively what UntoldIsInert denies: whatever *)
(* is referred to was told of.                                             *)
(***************************************************************************)
EXTENDS Directory, TLAPS, SequenceTheorems

\* The part of Identity: an agent's number is its key, and only agents that
\* the clients were told of have a token.
IdentityInv ==
  /\ IdentityTypeOK
  /\ \A n \in DOMAIN agents : agents[n].key = n
  /\ tokens \subseteq told \cap RowsOf("agent", agents)

\* The part of Organization.
Referred ==
  /\ \A m \in DOMAIN muvrs :
       /\ Told("organization", muvrs[m].organization)
       /\ muvrs[m].parent = 0 \/ Told("mvru", muvrs[m].parent)
       /\ Told("mvru", m) \/ muvrs[m].status = "designing"
  /\ \A x \in members : Told("mvru", x.mvru) /\ x.user = NULL /\ x.agent \in told
  /\ \A r \in relationships : Told("mvru", r[1]) /\ Told("mvru", r[2])

ChartInv ==
  chart.pc = "answered" =>
    /\ chart.since \cap Showable(chart.org) \subseteq chart.shown
    /\ chart.shown \subseteq Showable(chart.org)

OrganizationInv == OrganizationTypeOK /\ Referred /\ ChartInv

\* The part of Bindings: ids are unique.
BindingsInv ==
  /\ BindingsTypeOK
  /\ \A b \in bindings : /\ Told("capability", b.capability) /\ Told("mvru", b.mvru)
                         /\ b.id \in 1 .. rows
  /\ \A a, b \in bindings : a.id = b.id => a = b
  /\ \A l \in layerConfigs : Told("mvru", l[1])

\* The part of Governance.
GovernanceInv ==
  /\ GovernanceTypeOK
  /\ \A r \in DOMAIN controlRules : controlRules[r] = 0 \/ Told("principle", controlRules[r])

\* Clients were told only of rows that are there, and of no user.
IRows == RowsOf("agent", agents)
ORows == RowsOf("organization", organizations) \cup RowsOf("mvru", muvrs)
BRows == RowsOf("capability", capabilities) \cup {Row("binding", n) : n \in 1 .. rows}
GRows == RowsOf("principle", principles)

ToldInv == told \subseteq IRows \cup ORows \cup BRows \cup GRows

IInv == /\ rows \in 0 .. MaxRows /\ ToldInv
        /\ IdentityInv /\ OrganizationInv /\ BindingsInv /\ GovernanceInv

-----------------------------------------------------------------------------
\* Appending a row to a table, or changing one, gives a table of the same type.
LEMMA Appended ==
  ASSUME NEW S, NEW s \in Seq(S), NEW e \in S
  PROVE  /\ Append(s, e) \in Seq(S)
         /\ DOMAIN s = 1 .. Len(s) /\ Len(s) \in Nat
         /\ Len(Append(s, e)) = Len(s) + 1
         /\ DOMAIN Append(s, e) = 1 .. (Len(s) + 1)
         /\ \A i \in DOMAIN s : Append(s, e)[i] = s[i]
         /\ Append(s, e)[Len(s) + 1] = e
OBVIOUS

LEMMA Changed ==
  ASSUME NEW S, NEW s \in Seq(S), NEW i \in DOMAIN s, NEW e \in S
  PROVE  /\ [s EXCEPT ![i] = e] \in Seq(S)
         /\ DOMAIN [s EXCEPT ![i] = e] = DOMAIN s
         /\ \A j \in DOMAIN s : [s EXCEPT ![i] = e][j] = IF j = i THEN e ELSE s[j]
OBVIOUS

-----------------------------------------------------------------------------
\* The steps of Identity.
UserRows == [email : Emails, password : Passwords, avatar_url : {NULL}]
AgentRows == [key : Nat]

IdentityKept == DOMAIN users \subseteq DOMAIN users' /\ DOMAIN agents \subseteq DOMAIN agents'
IdentityTells == told \subseteq told' /\ told' \subseteq told \cup IRows'

\* No login succeeds: the row of a user cannot be scanned.
LEMMA NoSubjects ==
  ASSUME IdentityTypeOK, NEW email, NEW password
  PROVE  AuthenticateUser(email, password) = {}
<1>1. users \in Seq(UserRows)
  BY DEF IdentityTypeOK, UserRows
<1>2. \A n \in DOMAIN users : users[n] \in UserRows
  BY <1>1
<1>3. \A n \in DOMAIN users : users[n].avatar_url = NULL
  BY <1>2 DEF UserRows
<1>4. GetUserByEmail(email) = {}
  BY <1>3 DEF GetUserByEmail, Scans
<1>5. QED
  BY <1>4 DEF AuthenticateUser

LEMMA IdentityStep ==
  ASSUME IdentityInv, ToldInv, IdentityNext
  PROVE  IdentityInv' /\ IdentityKept /\ IdentityTells
<1>1. users \in Seq(UserRows) /\ agents \in Seq(AgentRows)
  BY DEF IdentityInv, IdentityTypeOK, UserRows, AgentRows
<1>2. CASE register
  <2>1. PICK email \in Emails, password \in Passwords : CreateUser(email, password)
    BY <1>2 DEF register
  <2> DEFINE e == [email |-> email, password |-> password, avatar_url |-> NULL]
  <2>2. users' = Append(users, e) /\ told' = told /\ UNCHANGED <<agents, tokens>>
    BY <1>2, <2>1 DEF register, CreateUser, Answered, Scans
  <2>3. e \in UserRows
    BY DEF UserRows
  <2>4. users' \in Seq(UserRows) /\ DOMAIN users \subseteq DOMAIN users'
    <3> HIDE DEF e
    <3> QED BY <1>1, <2>2, <2>3, Appended
  <2>5. QED
    BY <2>2, <2>4 DEF IdentityInv, IdentityTypeOK, UserRows, IdentityKept, IdentityTells
<1>3. CASE login
  <2>1. told' = told /\ UNCHANGED <<users, agents, tokens>>
    BY <1>3, NoSubjects DEF login, Answered, IdentityInv
  <2>2. QED
    BY <2>1 DEF IdentityInv, IdentityTypeOK, IdentityKept, IdentityTells
<1>4. CASE registerAgent
  <2> DEFINE n == Len(agents) + 1
             e == [key |-> n]
  <2>1. /\ agents' = Append(agents, e) /\ told' \in {told, told \cup {Row("agent", n)}}
        /\ UNCHANGED <<users, tokens>>
    BY <1>4 DEF registerAgent, CreateAgent, Answered
  <2>2. e \in AgentRows /\ e.key = n
    BY <1>1 DEF AgentRows
  <2>3. /\ agents' \in Seq(AgentRows)
        /\ DOMAIN agents = 1 .. Len(agents) /\ Len(agents) \in Nat
        /\ DOMAIN agents' = 1 .. n
        /\ \A i \in DOMAIN agents : agents'[i] = agents[i]
        /\ agents'[n] = e
    <3> HIDE DEF e
    <3> QED BY <1>1, <2>1, <2>2, Appended, SMT
  <2> HIDE DEF e
  <2>4. IdentityTypeOK'
    BY <2>1, <2>3 DEF IdentityInv, IdentityTypeOK, AgentRows
  <2>5. \A k \in DOMAIN agents' : agents'[k].key = k
    BY <2>2, <2>3 DEF IdentityInv
  <2>6. IdentityKept /\ IdentityTells
    BY <2>1, <2>3 DEF IdentityKept, IdentityTells, IRows, RowsOf
  <2>7. tokens' \subseteq told' \cap RowsOf("agent", agents')
    BY <2>1, <2>6 DEF IdentityInv, IdentityKept, IdentityTells, RowsOf
  <2>8. QED
    BY <2>4, <2>5, <2>6, <2>7 DEF IdentityInv
<1>5. CASE authenticateAgent
  <2>1. PICK n \in 1 .. rows, key \in {k \in 1 .. rows : Row("agent", k) \in told} :
          /\ AuthenticateAgent(n, key)
          /\ tokens' = tokens \cup {Row("agent", n)}
          /\ UNCHANGED <<shared, users, agents>>
    BY <1>5 DEF authenticateAgent
  <2>2. n \in DOMAIN agents /\ n = key /\ Row("agent", n) \in told
    BY <2>1 DEF AuthenticateAgent, IdentityInv
  <2>3. tokens' \subseteq told' \cap RowsOf("agent", agents')
    BY <2>1, <2>2 DEF IdentityInv, shared, RowsOf
  <2>4. IdentityTypeOK'
    BY <1>1, <2>1, <2>2 DEF IdentityInv, IdentityTypeOK, Row
  <2>5. QED
    BY <2>1, <2>3, <2>4 DEF IdentityInv, IdentityKept, IdentityTells, shared
<1>6. QED
  BY <1>2, <1>3, <1>4, <1>5 DEF IdentityNext
-----------------------------------------------------------------------------
\* The steps of Organization.
OrganizationRows == [name : {"any"}]
MVRURows == [organization : Nat, parent : Nat, status : {"designing", "active", "evaluating"}]
MemberRows == [mvru : DOMAIN muvrs, user : {NULL} \cup RowsOf("user", users),
               agent : {NULL} \cup RowsOf("agent", agents), role : Roles]

OrganizationKept ==
  DOMAIN organizations \subseteq DOMAIN organizations' /\ DOMAIN muvrs \subseteq DOMAIN muvrs'
OrganizationTells == told \subseteq told' /\ told' \subseteq told \cup ORows'

\* What an MVRU refers to.
LEMMA MVRURefers ==
  ASSUME OrganizationTypeOK
  PROVE  /\ DOMAIN muvrs = 1 .. Len(muvrs) /\ Len(muvrs) \in Nat
         /\ \A m \in DOMAIN muvrs :
              /\ muvrs[m] \in MVRURows
              /\ muvrs[m].organization \in DOMAIN organizations
              /\ muvrs[m].parent \in Nat /\ muvrs[m].parent < m
              /\ muvrs[m].parent \in {0} \cup DOMAIN muvrs
<1>1. muvrs \in Seq(MVRURows)
  BY DEF OrganizationTypeOK, MVRURows
<1>2. /\ DOMAIN muvrs = 1 .. Len(muvrs) /\ Len(muvrs) \in Nat
      /\ \A m \in DOMAIN muvrs : muvrs[m] \in MVRURows
  BY <1>1
<1>3. \A m \in DOMAIN muvrs : muvrs[m].parent \in Nat
  BY <1>2 DEF MVRURows
<1>4. \A m \in DOMAIN muvrs : muvrs[m].organization \in DOMAIN organizations /\ muvrs[m].parent < m
  BY DEF OrganizationTypeOK
<1>5. \A m \in DOMAIN muvrs : muvrs[m].parent \in {0} \cup DOMAIN muvrs
  BY <1>2, <1>3, <1>4
<1>6. QED
  BY <1>2, <1>3, <1>4, <1>5

\* What GetOrgChart walks to is what can be seen.
LEMMA ChartIsShowable ==
  ASSUME OrganizationTypeOK, NEW org
  PROVE  GetOrgChart(org) = Showable(org)
<1>1. \A m \in DOMAIN muvrs : muvrs[m].parent \in {0} \cup DOMAIN muvrs
  BY MVRURefers
<1>2. 0 \notin DOMAIN muvrs
  BY MVRURefers
<1>3. QED
  BY <1>1, <1>2 DEF GetOrgChart, Showable, ListMVRUs

LEMMA OCreateOrganization ==
  ASSUME OrganizationInv, ToldInv, createOrganization
  PROVE  OrganizationInv' /\ OrganizationKept /\ OrganizationTells
<1> DEFINE n == Len(organizations) + 1
           e == [name |-> "any"]
<1>1. /\ organizations' = Append(organizations, e)
      /\ told' \in {told, told \cup {Row("organization", n)}}
      /\ UNCHANGED <<identity, muvrs, members, relationships, chart>>
  BY DEF createOrganization, CreateOrganization, Answered
<1>2. organizations \in Seq(OrganizationRows) /\ e \in OrganizationRows
  BY DEF OrganizationInv, OrganizationTypeOK, OrganizationRows
<1>3. /\ organizations' \in Seq(OrganizationRows)
      /\ DOMAIN organizations = 1 .. Len(organizations) /\ Len(organizations) \in Nat
      /\ DOMAIN organizations' = 1 .. n
  <2> HIDE DEF e
  <2> QED BY <1>1, <1>2, Appended, SMT
<1>4. OrganizationKept /\ OrganizationTells
  BY <1>1, <1>3 DEF OrganizationKept, OrganizationTells, ORows, RowsOf
<1>5. OrganizationTypeOK'
  BY <1>1, <1>3, <1>4 DEF OrganizationInv, OrganizationTypeOK, OrganizationRows, OrganizationKept,
                          identity, RowsOf
<1>6. Referred' /\ ChartInv'
  BY <1>1, <1>4 DEF OrganizationInv, Referred, Told, ChartInv, Showable, OrganizationTells
<1>7. QED
  BY <1>4, <1>5, <1>6 DEF OrganizationInv

LEMMA OCreateMVRU ==
  ASSUME OrganizationInv, ToldInv, createMVRU
  PROVE  OrganizationInv' /\ OrganizationKept /\ OrganizationTells
<1>1. PICK org \in DOMAIN organizations, parent \in {0} \cup ToldMVRUs :
        Told("organization", org) /\ CreateMVRU(org, parent)
  BY DEF createMVRU
<1> DEFINE n == Len(muvrs) + 1
           e == [organization |-> org, parent |-> parent, status |-> "designing"]
<1>2. /\ muvrs' = Append(muvrs, e)
      /\ told' \in {told, told \cup {Row("mvru", n)}}
      /\ UNCHANGED <<identity, organizations, members, relationships, chart>>
  BY <1>1 DEF createMVRU, CreateMVRU, Answered
<1>3. /\ muvrs \in Seq(MVRURows)
      /\ DOMAIN muvrs = 1 .. Len(muvrs) /\ Len(muvrs) \in Nat
      /\ org \in Nat /\ parent \in Nat /\ parent < n
      /\ parent = 0 \/ Told("mvru", parent)
  BY <1>1 DEF OrganizationInv, OrganizationTypeOK, MVRURows, ToldMVRUs
<1>4. /\ e \in MVRURows /\ e.organization = org /\ e.parent = parent
      /\ e.status = "designing"
  BY <1>3 DEF MVRURows
<1>5. /\ muvrs' \in Seq(MVRURows)
      /\ DOMAIN muvrs' = 1 .. n
      /\ \A i \in DOMAIN muvrs : muvrs'[i] = muvrs[i]
      /\ muvrs'[n] = e
  <2> HIDE DEF e
  <2> QED BY <1>2, <1>3, <1>4, Appended, SMT
<1> HIDE DEF e
<1>6. OrganizationKept /\ OrganizationTells
  BY <1>2, <1>3, <1>5 DEF OrganizationKept, OrganizationTells, ORows, RowsOf
<1>7. OrganizationTypeOK'
  <2>1. \A m \in DOMAIN muvrs' :
          muvrs'[m].organization \in DOMAIN organizations' /\ muvrs'[m].parent < m
    BY <1>1, <1>2, <1>3, <1>4, <1>5, MVRURefers DEF OrganizationInv
  <2>2. /\ members' \subseteq MemberRows'
        /\ relationships' \subseteq (DOMAIN muvrs') \X (DOMAIN muvrs')
    BY <1>2, <1>6 DEF OrganizationInv, OrganizationTypeOK, MemberRows, OrganizationKept, identity,
                      RowsOf
  <2>3. chart' \in [pc : {"idle", "chart", "answered"}, org : Nat,
                    since : SUBSET DOMAIN muvrs', shown : SUBSET DOMAIN muvrs']
    BY <1>2, <1>6 DEF OrganizationInv, OrganizationTypeOK, OrganizationKept
  <2>4. QED
    BY <1>2, <1>5, <2>1, <2>2, <2>3
       DEF OrganizationInv, OrganizationTypeOK, MVRURows, MemberRows
<1>8. Referred'
  <2> told \subseteq told'
    BY <1>6 DEF OrganizationTells
  <2>1. \A m \in DOMAIN muvrs' :
          /\ Row("organization", muvrs'[m].organization) \in told'
          /\ muvrs'[m].parent = 0 \/ Row("mvru", muvrs'[m].parent) \in told'
          /\ Row("mvru", m) \in told' \/ muvrs'[m].status = "designing"
    <3>1. TAKE m \in DOMAIN muvrs'
    <3>2. CASE m = n
      BY <1>1, <1>3, <1>4, <1>5, <3>2 DEF Told
    <3>3. CASE m # n
      BY <1>3, <1>5, <3>3 DEF OrganizationInv, Referred, Told
    <3>4. QED
      BY <3>2, <3>3
  <2>2. /\ \A x \in members : /\ Row("mvru", x.mvru) \in told' /\ x.user = NULL
                              /\ x.agent \in told'
        /\ \A r \in relationships : Row("mvru", r[1]) \in told' /\ Row("mvru", r[2]) \in told'
    BY DEF OrganizationInv, Referred, Told
  <2>3. QED
    BY <1>2, <2>1, <2>2 DEF Referred, Told
<1>9. ChartInv'
  <2>1. \A m \in DOMAIN muvrs : m \in Showable(chart.org) <=> m \in Showable(chart.org)'
    BY <1>2, <1>3, <1>5, MVRURefers DEF OrganizationInv, Showable
  <2>2. chart.since \subseteq DOMAIN muvrs
    BY DEF OrganizationInv, OrganizationTypeOK
  <2>3. Showable(chart.org) \subseteq DOMAIN muvrs
    BY DEF Showable
  <2>4. QED
    BY <1>2, <2>1, <2>2, <2>3 DEF OrganizationInv, ChartInv
<1>10. QED
  BY <1>6, <1>7, <1>8, <1>9 DEF OrganizationInv

LEMMA OUpdateStatus ==
  ASSUME OrganizationInv, ToldInv, updateMVRUStatus
  PROVE  OrganizationInv' /\ OrganizationKept /\ OrganizationTells
<1>1. PICK m \in ToldMVRUs, status \in {"active", "evaluating"} : muvrs' = UpdateMVRUStatus(m, status)
  BY DEF updateMVRUStatus
<1>2. told' = told /\ UNCHANGED <<identity, organizations, members, relationships, chart>>
  BY DEF updateMVRUStatus, shared
<1> DEFINE e == [muvrs[m] EXCEPT !.status = status]
<1>3. m \in DOMAIN muvrs /\ Told("mvru", m) /\ muvrs' = [muvrs EXCEPT ![m] = e]
  BY <1>1 DEF ToldMVRUs, UpdateMVRUStatus
<1>4. e \in MVRURows /\ e.organization = muvrs[m].organization /\ e.parent = muvrs[m].parent
  <2>1. muvrs[m] \in MVRURows
    BY <1>3, MVRURefers DEF OrganizationInv
  <2>2. QED
    BY <1>1, <2>1 DEF MVRURows
<1>5. /\ muvrs' \in Seq(MVRURows) /\ DOMAIN muvrs' = DOMAIN muvrs
      /\ \A j \in DOMAIN muvrs : muvrs'[j] = IF j = m THEN e ELSE muvrs[j]
  <2>1. muvrs \in Seq(MVRURows)
    BY DEF OrganizationInv, OrganizationTypeOK, MVRURows
  <2> HIDE DEF e
  <2>2. QED
    BY <1>3, <1>4, <2>1, Changed, SMT
<1> HIDE DEF e
<1>6. \A j \in DOMAIN muvrs : /\ muvrs'[j].organization = muvrs[j].organization
                              /\ muvrs'[j].parent = muvrs[j].parent
  BY <1>4, <1>5
<1>7. OrganizationKept /\ OrganizationTells
  BY <1>2, <1>5 DEF OrganizationKept, OrganizationTells
<1>8. OrganizationTypeOK'
  BY <1>2, <1>5, <1>6 DEF OrganizationInv, OrganizationTypeOK, MVRURows, identity, RowsOf
<1>9. Referred'
  BY <1>2, <1>3, <1>5, <1>6 DEF OrganizationInv, Referred, Told
<1>10. ChartInv'
  <2>1. Showable(chart.org)' = Showable(chart.org)
    BY <1>2, <1>5, <1>6, MVRURefers DEF OrganizationInv, Showable
  <2>2. QED
    BY <1>2, <2>1 DEF OrganizationInv, ChartInv
<1>11. QED
  BY <1>7, <1>8, <1>9, <1>10 DEF OrganizationInv

LEMMA OMembers ==
  ASSUME OrganizationInv, ToldInv, addMember \/ removeMember \/ createRelationship
  PROVE  OrganizationInv' /\ OrganizationKept /\ OrganizationTells
<1>1. told' = told /\ UNCHANGED <<identity, organizations, muvrs, chart>>
  BY DEF addMember, removeMember, createRelationship, shared
<1>2. \A x \in members' : /\ x \in MemberRows /\ (x.user = NULL) # (x.agent = NULL)
                          /\ Told("mvru", x.mvru) /\ x.user = NULL /\ x.agent \in told
  <2>1. \A x \in members : /\ x \in MemberRows /\ (x.user = NULL) # (x.agent = NULL)
                           /\ Told("mvru", x.mvru) /\ x.user = NULL /\ x.agent \in told
    BY DEF OrganizationInv, OrganizationTypeOK, Referred, MemberRows
  <2>2. CASE addMember
    <3>1. PICK m \in ToldMVRUs, user \in {NULL} \cup told, agent \in {NULL} \cup told, role \in Roles :
            (user # NULL \/ agent # NULL) /\ AddMember(m, user, agent, role)
      BY <2>2 DEF addMember
    <3> DEFINE e == [mvru |-> m, user |-> user, agent |-> agent, role |-> role]
    <3>2. user = NULL
      BY <3>1 DEF AddMember, ToldInv, IRows, ORows, BRows, GRows, RowsOf, Row
    <3>3. agent # NULL /\ agent \in told /\ agent \in RowsOf("agent", agents)
          /\ m \in DOMAIN muvrs /\ Told("mvru", m)
      BY <3>1, <3>2 DEF AddMember, ToldMVRUs
    <3>4. e \in MemberRows /\ (e.user = NULL) # (e.agent = NULL)
          /\ Told("mvru", e.mvru) /\ e.user = NULL /\ e.agent \in told
      BY <3>1, <3>2, <3>3 DEF MemberRows
    <3>5. \A x \in members' : x \in members \/ x = e
      BY <3>1 DEF AddMember
    <3> HIDE DEF e
    <3>6. QED
      BY <2>1, <3>4, <3>5
  <2>3. CASE removeMember
    BY <2>1, <2>3 DEF removeMember
  <2>4. CASE createRelationship
    BY <2>1, <2>4 DEF createRelationship
  <2>5. QED
    BY <2>2, <2>3, <2>4
<1>3. \A r \in relationships' :
        r \in (DOMAIN muvrs) \X (DOMAIN muvrs) /\ Told("mvru", r[1]) /\ Told("mvru", r[2])
  <2>1. CASE createRelationship
    <3>1. PICK source \in ToldMVRUs, target \in ToldMVRUs : CreateRelationship(source, target)
      BY <2>1 DEF createRelationship
    <3>2. QED
      BY <3>1 DEF CreateRelationship, ToldMVRUs, OrganizationInv, OrganizationTypeOK, Referred
  <2>2. CASE addMember \/ removeMember
    BY <2>2 DEF addMember, removeMember, OrganizationInv, OrganizationTypeOK, Referred
  <2>3. QED
    BY <2>1, <2>2
<1>4. OrganizationTypeOK'
  BY <1>1, <1>2, <1>3 DEF OrganizationInv, OrganizationTypeOK, MemberRows, identity, RowsOf
<1>5. Referred' /\ ChartInv'
  BY <1>1, <1>2, <1>3 DEF OrganizationInv, Referred, ChartInv, Told, Showable
<1>6. QED
  BY <1>1, <1>4, <1>5 DEF OrganizationInv, OrganizationKept, OrganizationTells

LEMMA OReads ==
  ASSUME OrganizationInv, ToldInv, GetOrganizationByID \/ getOrganization
  PROVE  OrganizationInv' /\ OrganizationKept /\ OrganizationTells
<1>1. UNCHANGED <<identity, organizations, muvrs, members, relationships>>
  BY DEF GetOrganizationByID, getOrganization
<1>2. CASE GetOrganizationByID
  <2>1. PICK o \in DOMAIN organizations :
          chart' = [pc |-> "chart", org |-> o, since |-> ListMVRUs(o), shown |-> {}]
    BY <1>2 DEF GetOrganizationByID
  <2>2. told' = told /\ o \in Nat /\ ListMVRUs(o) \subseteq DOMAIN muvrs
    BY <1>2 DEF GetOrganizationByID, shared, OrganizationInv, OrganizationTypeOK, ListMVRUs
  <2>3. OrganizationTypeOK'
    BY <1>1, <2>1, <2>2 DEF OrganizationInv, OrganizationTypeOK, identity, RowsOf
  <2>4. Referred' /\ ChartInv'
    BY <1>1, <2>1, <2>2 DEF OrganizationInv, Referred, ChartInv, Told
  <2>5. QED
    BY <1>1, <2>2, <2>3, <2>4 DEF OrganizationInv, OrganizationKept, OrganizationTells
<1>3. CASE getOrganization
  <2> DEFINE shown == Showable(chart.org)
  <2>1. /\ chart' = [chart EXCEPT !.pc = "answered", !.shown = shown]
        /\ Answered({Row("mvru", m) : m \in shown})
    BY <1>3, ChartIsShowable DEF getOrganization, OrganizationInv
  <2>2. shown \subseteq DOMAIN muvrs
    BY DEF Showable
  <2>3. OrganizationTells
    BY <1>1, <2>1, <2>2 DEF Answered, OrganizationTells, ORows, RowsOf
  <2>4. OrganizationTypeOK'
    <3> HIDE DEF shown
    <3> QED BY <1>1, <2>1, <2>2 DEF OrganizationInv, OrganizationTypeOK, identity, RowsOf
  <2>5. ChartInv'
    <3>1. chart'.org = chart.org /\ chart'.shown = shown
      BY <2>1 DEF OrganizationInv, OrganizationTypeOK
    <3>2. Showable(chart.org)' = shown
      BY <1>1, <3>1 DEF Showable
    <3>3. QED
      BY <3>1, <3>2 DEF ChartInv
  <2>6. Referred'
    BY <1>1, <2>3 DEF OrganizationInv, Referred, Told, OrganizationTells
  <2>7. QED
    BY <1>1, <2>3, <2>4, <2>5, <2>6 DEF OrganizationInv, OrganizationKept
<1>4. QED
  BY <1>2, <1>3

LEMMA OrganizationStep ==
  ASSUME OrganizationInv, ToldInv, OrganizationNext
  PROVE  OrganizationInv' /\ OrganizationKept /\ OrganizationTells
BY OCreateOrganization, OCreateMVRU, OUpdateStatus, OMembers, OReads DEF OrganizationNext
-----------------------------------------------------------------------------
\* The steps of Bindings.
CapabilityRows == [name : Names]

BindingsKept == DOMAIN capabilities \subseteq DOMAIN capabilities' /\ rows' \in {rows, rows + 1}
BindingsTells == told \subseteq told' /\ told' \subseteq told \cup BRows'

\* A step removes one binding at most, by an id that was told.
TakesOne == \A a, b \in bindings \ bindings' : a = b /\ Row("binding", a.id) \in told

LEMMA BCreate ==
  ASSUME BindingsInv, ToldInv, rows \in Nat, createCapability
  PROVE  BindingsInv' /\ BindingsKept /\ BindingsTells /\ TakesOne
<1>1. PICK name \in Names : CreateCapability(name)
  BY DEF createCapability
<1> DEFINE n == Len(capabilities) + 1
           e == [name |-> name]
<1>2. /\ capabilities' = Append(capabilities, e) /\ rows' = rows + 1
      /\ told' \in {told, told \cup {Row("capability", n)}}
      /\ UNCHANGED <<organization, bindings, layerConfigs>>
  BY <1>1 DEF createCapability, CreateCapability, Insert, Answered
<1>3. capabilities \in Seq(CapabilityRows) /\ e \in CapabilityRows
  BY DEF BindingsInv, BindingsTypeOK, CapabilityRows
<1>4. /\ capabilities' \in Seq(CapabilityRows)
      /\ DOMAIN capabilities = 1 .. Len(capabilities) /\ Len(capabilities) \in Nat
      /\ DOMAIN capabilities' = 1 .. n
  <2> HIDE DEF e
  <2> QED BY <1>2, <1>3, Appended, SMT
<1>5. BindingsKept /\ BindingsTells
  BY <1>2, <1>4 DEF BindingsKept, BindingsTells, BRows, RowsOf
<1>6. BindingsTypeOK'
  BY <1>2, <1>4, <1>5 DEF BindingsInv, BindingsTypeOK, CapabilityRows, BindingsKept, organization
<1>7. BindingsInv'
  BY <1>2, <1>5, <1>6 DEF BindingsInv, Told, BindingsTells
<1>8. QED
  BY <1>2, <1>5, <1>7 DEF TakesOne

LEMMA BBind ==
  ASSUME BindingsInv, ToldInv, rows \in Nat, bindCapability
  PROVE  BindingsInv' /\ BindingsKept /\ BindingsTells /\ TakesOne
<1>1. PICK c \in DOMAIN capabilities, m \in ToldMVRUs :
        Told("capability", c) /\ BindCapability(c, m)
  BY DEF bindCapability
<1> DEFINE e == [id |-> rows + 1, capability |-> c, mvru |-> m]
<1>2. /\ bindings' = bindings \cup {e} /\ rows' = rows + 1
      /\ told' \in {told, told \cup {Row("binding", rows + 1)}}
      /\ UNCHANGED <<organization, capabilities, layerConfigs>>
  BY <1>1 DEF bindCapability, BindCapability, Insert, Answered
<1>3. m \in DOMAIN muvrs /\ Told("mvru", m)
  BY <1>1 DEF ToldMVRUs
<1>4. BindingsKept /\ BindingsTells
  BY <1>2 DEF BindingsKept, BindingsTells, BRows
<1>5. BindingsTypeOK'
  BY <1>1, <1>2, <1>3 DEF BindingsInv, BindingsTypeOK, organization
<1>6. \A b \in bindings' : Told("capability", b.capability)' /\ Told("mvru", b.mvru)'
                           /\ b.id \in 1 .. rows'
  BY <1>1, <1>2, <1>3, <1>4 DEF BindingsInv, Told, BindingsTells
<1>7. \A a, b \in bindings' : a.id = b.id => a = b
  <2>1. e.id = rows + 1 /\ \A b \in bindings : b.id \in 1 .. rows
    BY DEF BindingsInv
  <2>2. \A b \in bindings : b.id # e.id
    BY <2>1
  <2> HIDE DEF e
  <2>3. QED
    BY <1>2, <2>2 DEF BindingsInv
<1>8. \A l \in layerConfigs' : Told("mvru", l[1])'
  BY <1>2, <1>4 DEF BindingsInv, Told, BindingsTells
<1>9. QED
  BY <1>2, <1>4, <1>5, <1>6, <1>7, <1>8 DEF BindingsInv, TakesOne

LEMMA BUnbind ==
  ASSUME BindingsInv, ToldInv, rows \in Nat, unbindCapability
  PROVE  BindingsInv' /\ BindingsKept /\ BindingsTells /\ TakesOne
<1>1. PICK id \in 1 .. rows : /\ Told("binding", id)
                              /\ bindings' = bindings \ UnbindCapability(id)
  BY DEF unbindCapability
<1>2. UNCHANGED <<rows, told, organization, capabilities, layerConfigs>>
  BY DEF unbindCapability, shared
<1>3. bindings' \subseteq bindings
  BY <1>1
<1>4. BindingsInv'
  BY <1>2, <1>3 DEF BindingsInv, BindingsTypeOK, Told, organization
<1>5. TakesOne
  BY <1>1 DEF TakesOne, UnbindCapability, BindingsInv, Told
<1>6. QED
  BY <1>2, <1>4, <1>5 DEF BindingsKept, BindingsTells

LEMMA BOthers ==
  ASSUME BindingsInv, ToldInv, rows \in Nat, listCapabilities \/ listBindings \/ setLayerConfig
  PROVE  BindingsInv' /\ BindingsKept /\ BindingsTells /\ TakesOne
<1>1. UNCHANGED <<organization, capabilities, bindings>>
  BY DEF listCapabilities, listBindings, setLayerConfig, bound
<1>2. BindingsTells /\ BindingsKept
  <2>1. CASE listCapabilities
    BY <1>1, <2>1 DEF listCapabilities, ListCapabilities, Answered, BindingsTells, BindingsKept, BRows
  <2>2. CASE listBindings
    <3>1. PICK m \in ToldMVRUs : Answered(ListBoundCapabilities(m))
      BY <2>2 DEF listBindings
    <3>2. ListBoundCapabilities(m) \subseteq BRows /\ rows' = rows
      BY <2>2 DEF ListBoundCapabilities, BRows, BindingsInv, listBindings
    <3>3. QED
      BY <1>1, <3>1, <3>2 DEF Answered, BindingsTells, BindingsKept, BRows
  <2>3. CASE setLayerConfig
    BY <1>1, <2>3 DEF setLayerConfig, SetLayerConfig, Insert, BindingsTells, BindingsKept
  <2>4. QED
    BY <2>1, <2>2, <2>3
<1>3. \A l \in layerConfigs' : l \in (DOMAIN muvrs) \X Layers /\ Told("mvru", l[1])
  <2>1. CASE setLayerConfig
    <3>1. PICK m \in ToldMVRUs, layer \in Layers : SetLayerConfig(m, layer)
      BY <2>1 DEF setLayerConfig
    <3>2. QED
      BY <3>1 DEF SetLayerConfig, ToldMVRUs, BindingsInv, BindingsTypeOK
  <2>2. CASE listCapabilities \/ listBindings
    BY <2>2 DEF listCapabilities, listBindings, bound, BindingsInv, BindingsTypeOK
  <2>3. QED
    BY <2>1, <2>2
<1>4. BindingsInv'
  BY <1>1, <1>2, <1>3 DEF BindingsInv, BindingsTypeOK, BindingsKept, BindingsTells, Told, organization
<1>5. QED
  BY <1>1, <1>2, <1>4 DEF TakesOne

LEMMA BindingsStep ==
  ASSUME BindingsInv, ToldInv, rows \in Nat, BindingsNext
  PROVE  BindingsInv' /\ BindingsKept /\ BindingsTells /\ TakesOne
BY BCreate, BBind, BUnbind, BOthers DEF BindingsNext
-----------------------------------------------------------------------------
\* The steps of Governance.
PermissionRows == [level : 1 .. 4, name : PermissionNames, behavior : Behaviors]
PrincipleRows == [name : PrincipleNames]

\* A step adds one permission at most.
GovernanceKept ==
  /\ DOMAIN principles \subseteq DOMAIN principles'
  /\ permissions \subseteq permissions' /\ \A p, q \in permissions' \ permissions : p = q
GovernanceTells == told \subseteq told' /\ told' \subseteq told \cup GRows'

LEMMA GPermission ==
  ASSUME GovernanceInv, ToldInv, createPermission
  PROVE  GovernanceInv' /\ GovernanceKept /\ GovernanceTells
<1>1. PICK level \in AskedLevels, name \in PermissionNames, behavior \in AskedBehaviors :
        CreatePermission(level, name, behavior)
  BY DEF createPermission
<1> DEFINE e == [level |-> level, name |-> name,
                 behavior |-> IF behavior \in Behaviors THEN behavior ELSE "notify"]
<1>2. permissions' = permissions \cup {e} /\ UNCHANGED <<told, principles, controlRules>>
  BY <1>1 DEF createPermission, CreatePermission
<1>3. e \in PermissionRows
  BY <1>1 DEF CreatePermission, PermissionRows, Behaviors
<1> HIDE DEF e
<1>4. GovernanceTypeOK'
  BY <1>2, <1>3 DEF GovernanceInv, GovernanceTypeOK, PermissionRows
<1>5. QED
  BY <1>2, <1>4 DEF GovernanceInv, GovernanceKept, GovernanceTells, Told

LEMMA GPrinciple ==
  ASSUME GovernanceInv, ToldInv, createPrinciple
  PROVE  GovernanceInv' /\ GovernanceKept /\ GovernanceTells
<1>1. PICK name \in PrincipleNames : CreatePrinciple(name)
  BY DEF createPrinciple
<1> DEFINE n == Len(principles) + 1
           e == [name |-> name]
<1>2. /\ principles' = Append(principles, e)
      /\ told' \in {told, told \cup {Row("principle", n)}}
      /\ UNCHANGED <<permissions, controlRules>>
  BY <1>1 DEF createPrinciple, CreatePrinciple, Answered
<1>3. principles \in Seq(PrincipleRows) /\ e \in PrincipleRows
  BY DEF GovernanceInv, GovernanceTypeOK, PrincipleRows
<1>4. /\ principles' \in Seq(PrincipleRows)
      /\ DOMAIN principles = 1 .. Len(principles) /\ Len(principles) \in Nat
      /\ DOMAIN principles' = 1 .. n /\ Len(principles') = n
  <2> HIDE DEF e
  <2> QED BY <1>2, <1>3, Appended, SMT
<1>5. GovernanceKept /\ GovernanceTells
  BY <1>2, <1>4 DEF GovernanceKept, GovernanceTells, GRows, RowsOf
<1>6. controlRules' \in Seq(0 .. Len(principles'))
  <2>1. controlRules \in Seq(0 .. Len(principles))
    BY DEF GovernanceInv, GovernanceTypeOK
  <2>2. 0 .. Len(principles) \subseteq 0 .. Len(principles')
    BY <1>4
  <2>3. QED
    BY <1>2, <2>1, <2>2
<1>7. GovernanceTypeOK'
  BY <1>2, <1>4, <1>6 DEF GovernanceInv, GovernanceTypeOK, PrincipleRows
<1>8. QED
  BY <1>2, <1>5, <1>7 DEF GovernanceInv, GovernanceTells, Told

LEMMA GOthers ==
  ASSUME GovernanceInv, ToldInv, listPrinciples \/ createControlRule
  PROVE  GovernanceInv' /\ GovernanceKept /\ GovernanceTells
<1>1. CASE listPrinciples
  <2>1. UNCHANGED governance /\ GovernanceTells
    BY <1>1 DEF listPrinciples, Answered, GovernanceTells, GRows, governance
  <2>2. QED
    BY <2>1 DEF GovernanceInv, GovernanceTypeOK, GovernanceKept, GovernanceTells, governance, Told
<1>2. CASE createControlRule
  <2>1. PICK p \in {0} \cup {n \in DOMAIN principles : Row("principle", n) \in told} :
          CreateControlRule(p)
    BY <1>2 DEF createControlRule
  <2> DEFINE R == 0 .. Len(principles)
  <2>2. /\ controlRules' = Append(controlRules, p)
        /\ UNCHANGED <<told, permissions, principles>>
    BY <1>2, <2>1 DEF createControlRule, CreateControlRule
  <2>3. principles \in Seq(PrincipleRows) /\ controlRules \in Seq(R)
    BY DEF GovernanceInv, GovernanceTypeOK, PrincipleRows
  <2>4. p \in R /\ (p = 0 \/ Told("principle", p))
    BY <2>1, <2>3 DEF Told
  <2>5. controlRules' \in Seq(R)
        /\ \A r \in DOMAIN controlRules' : controlRules'[r] = 0 \/ Told("principle", controlRules'[r])
    <3> HIDE DEF R
    <3>1. /\ controlRules' \in Seq(R)
          /\ DOMAIN controlRules = 1 .. Len(controlRules) /\ Len(controlRules) \in Nat
          /\ DOMAIN controlRules' = 1 .. (Len(controlRules) + 1)
          /\ \A i \in DOMAIN controlRules : controlRules'[i] = controlRules[i]
          /\ controlRules'[Len(controlRules) + 1] = p
      BY <2>2, <2>3, <2>4, Appended, SMT
    <3>2. \A r \in DOMAIN controlRules' : r \in DOMAIN controlRules \/ r = Len(controlRules) + 1
      BY <3>1
    <3>3. QED
      BY <2>4, <3>1, <3>2 DEF GovernanceInv
  <2>6. QED
    BY <2>2, <2>5 DEF GovernanceInv, GovernanceTypeOK, GovernanceKept, GovernanceTells, Told
<1>3. QED
  BY <1>1, <1>2

LEMMA GovernanceStep ==
  ASSUME GovernanceInv, ToldInv, GovernanceNext
  PROVE  GovernanceInv' /\ GovernanceKept /\ GovernanceTells
BY GPermission, GPrinciple, GOthers DEF GovernanceNext

\* Permissions are compared by numbers.
LEMMA PermissionsSort ==
  ASSUME NEW r \in PermissionRows
  PROVE  r.level \in Int /\ r.name \in Int
<1>1. PermissionNames \subseteq Int
  BY GovernanceAssumption DEF GovernanceAssumption
<1>2. r.level \in Int
  BY DEF PermissionRows
<1>3. r.name \in Int
  BY <1>1 DEF PermissionRows
<1>4. QED
  BY <1>2, <1>3

\* A permission that sorts after another one does not become the first row.
LEMMA FirstStays ==
  ASSUME GovernanceInv, GovernanceInv', GovernanceKept,
         NEW p \in permissions' \ permissions, NEW q \in permissions,
         q.level < p.level \/ (q.level = p.level /\ q.name < p.name),
         NEW action \in PermissionNames
  PROVE  CheckPermission(action)' = CheckPermission(action)
<1>1. permissions' = permissions \cup {p}
  BY DEF GovernanceKept
<1>2. \A r \in permissions' : r.level \in Int /\ r.name \in Int
  <2>1. permissions' \subseteq PermissionRows
    BY DEF GovernanceInv, GovernanceTypeOK, PermissionRows
  <2>2. QED
    BY <2>1, PermissionsSort
<1>3. ~ComesFirst(p, q)
  BY <1>1, <1>2 DEF ComesFirst
<1>4. \A r \in permissions : ComesFirst(r, q) => ComesFirst(r, p)
  BY <1>1, <1>2 DEF ComesFirst
<1>5. FirstRows' = {r \in permissions' : \A s \in permissions' : ComesFirst(r, s)}
  BY DEF FirstRows, ComesFirst
<1>6. \A r : r \in FirstRows' <=> r \in FirstRows
  <2> HIDE DEF ComesFirst
  <2> QED BY <1>1, <1>3, <1>4, <1>5 DEF FirstRows
<1>7. FirstRows' = FirstRows
  BY <1>6
<1>8. permissions # {} /\ permissions' # {}
  BY <1>1
<1>9. QED
  BY <1>7, <1>8 DEF CheckPermission
-----------------------------------------------------------------------------
\* A step of one domain leaves the parts of the others as they are.
LEMMA IdentityFrame ==
  ASSUME IdentityInv, UNCHANGED identity, told \subseteq told'
  PROVE  IdentityInv' /\ IdentityKept
BY DEF IdentityInv, IdentityTypeOK, IdentityKept, identity, RowsOf

LEMMA OrganizationFrame ==
  ASSUME OrganizationInv, UNCHANGED organization, told \subseteq told', IdentityKept
  PROVE  OrganizationInv' /\ OrganizationKept
<1>1. /\ UNCHANGED <<organizations, muvrs, members, relationships, chart>>
      /\ OrganizationKept
  BY DEF organization, OrganizationKept
<1>2. RowsOf("user", users) \subseteq RowsOf("user", users')
      /\ RowsOf("agent", agents) \subseteq RowsOf("agent", agents')
  BY DEF IdentityKept, RowsOf
<1>3. members' \subseteq MemberRows'
  BY <1>1, <1>2 DEF OrganizationInv, OrganizationTypeOK, MemberRows
<1>4. OrganizationTypeOK'
  BY <1>1, <1>3 DEF OrganizationInv, OrganizationTypeOK, MemberRows
<1>5. Referred'
  BY <1>1 DEF OrganizationInv, Referred, Told
<1>6. ChartInv'
  BY <1>1 DEF OrganizationInv, ChartInv, Showable
<1>7. QED
  BY <1>1, <1>4, <1>5, <1>6 DEF OrganizationInv

LEMMA BindingsFrame ==
  ASSUME BindingsInv, UNCHANGED bound, told \subseteq told', OrganizationKept,
         rows \in Nat, rows' \in {rows, rows + 1}
  PROVE  BindingsInv' /\ BindingsKept /\ TakesOne
<1>1. UNCHANGED <<capabilities, bindings, layerConfigs>>
  BY DEF bound
<1>2. BindingsTypeOK'
  BY <1>1 DEF BindingsInv, BindingsTypeOK, OrganizationKept
<1>3. \A b \in bindings : b.id \in 1 .. rows'
  BY DEF BindingsInv
<1>4. BindingsInv'
  BY <1>1, <1>2, <1>3 DEF BindingsInv, Told
<1>5. QED
  BY <1>1, <1>4 DEF BindingsKept, TakesOne

LEMMA GovernanceFrame ==
  ASSUME GovernanceInv, UNCHANGED governance, told \subseteq told'
  PROVE  GovernanceInv' /\ GovernanceKept
BY DEF GovernanceInv, GovernanceTypeOK, GovernanceKept, governance, Told

\* No table loses a row that clients were told of.
LEMMA ToldStays ==
  ASSUME ToldInv, rows \in Nat,
         IdentityKept, OrganizationKept, BindingsKept, GovernanceKept,
         told' \subseteq told \cup IRows' \cup ORows' \cup BRows' \cup GRows'
  PROVE  ToldInv'
<1>1. IRows \subseteq IRows' /\ ORows \subseteq ORows' /\ GRows \subseteq GRows'
  BY DEF IRows, ORows, GRows, RowsOf, IdentityKept, OrganizationKept, GovernanceKept
<1>2. 1 .. rows \subseteq 1 .. rows'
  BY DEF BindingsKept
<1>3. BRows \subseteq BRows'
  BY <1>2 DEF BRows, RowsOf, BindingsKept
<1>4. QED
  BY <1>1, <1>3 DEF ToldInv

\* What the actions of a domain leave alone in the domains it builds on.
LEMMA OrganizationLeaves ==
  ASSUME OrganizationNext
  PROVE  UNCHANGED identity
BY DEF OrganizationNext, createOrganization, createMVRU, updateMVRUStatus, addMember,
   removeMember, createRelationship, GetOrganizationByID, getOrganization

LEMMA BindingsLeave ==
  ASSUME BindingsNext
  PROVE  UNCHANGED <<identity, organization>>
BY DEF BindingsNext, createCapability, listCapabilities, bindCapability, unbindCapability,
   listBindings, setLayerConfig

-----------------------------------------------------------------------------
\* Only an INSERT counts, and only up to the bound.
LEMMA RowsStep ==
  ASSUME rows \in 0 .. MaxRows, Next
  PROVE  rows' \in 0 .. MaxRows /\ rows' \in {rows, rows + 1}
<1>1. rows' = rows \/ Insert
  <2>1. CASE IdentityNext
    BY <2>1 DEF IdentityNext, register, CreateUser, login, registerAgent, CreateAgent,
       authenticateAgent, shared
  <2>2. CASE OrganizationNext
    BY <2>2 DEF OrganizationNext, createOrganization, CreateOrganization, createMVRU, CreateMVRU,
       updateMVRUStatus, addMember, AddMember, removeMember, createRelationship,
       CreateRelationship, GetOrganizationByID, getOrganization, shared
  <2>3. CASE BindingsNext
    BY <2>3 DEF BindingsNext, createCapability, CreateCapability, listCapabilities,
       bindCapability, BindCapability, unbindCapability, listBindings, setLayerConfig,
       SetLayerConfig, shared
  <2>4. CASE GovernanceNext
    BY <2>4 DEF GovernanceNext, createPermission, CreatePermission, createPrinciple,
       CreatePrinciple, listPrinciples, createControlRule, CreateControlRule
  <2>5. QED
    BY <2>1, <2>2, <2>3, <2>4 DEF Next
<1>2. MaxRows \in Nat
  BY RowsAssumption DEF RowsAssumption
<1>3. QED
  BY <1>1, <1>2 DEF Insert

LEMMA Initial == Init => IInv
<1> SUFFICES ASSUME Init PROVE IInv
  OBVIOUS
<1> USE DEF Init, RowsInit, IdentityInit, OrganizationInit, BindingsInit, GovernanceInit
<1>1. rows \in 0 .. MaxRows /\ ToldInv
  <2>1. MaxRows \in Nat
    BY RowsAssumption DEF RowsAssumption
  <2>2. QED
    BY <2>1 DEF ToldInv
<1>2. IdentityInv
  BY DEF IdentityInv, IdentityTypeOK
<1>3. OrganizationInv
  <2>1. OrganizationTypeOK
    BY DEF OrganizationTypeOK, idle
  <2>2. Referred /\ ChartInv
    BY DEF Referred, ChartInv, idle
  <2>3. QED
    BY <2>1, <2>2 DEF OrganizationInv
<1>4. BindingsInv
  BY DEF BindingsInv, BindingsTypeOK
<1>5. GovernanceInv
  BY DEF GovernanceInv, GovernanceTypeOK
<1>6. QED
  BY <1>1, <1>2, <1>3, <1>4, <1>5 DEF IInv

\* A step keeps the invariant, unbinds one binding at most, and adds
\* permissions one at a time.
LEMMA Step ==
  ASSUME IInv, [Next]_vars
  PROVE  IInv' /\ TakesOne /\ GovernanceKept
<1> USE DEF IInv
<1>1. rows \in Nat
  OBVIOUS
<1>2. CASE IdentityNext /\ UNCHANGED <<organization, bound, governance>> /\ Next
  <2>1. IdentityInv' /\ IdentityKept /\ IdentityTells
    BY <1>2, IdentityStep
  <2>2. rows' \in 0 .. MaxRows /\ rows' \in {rows, rows + 1} /\ told \subseteq told'
    BY <1>2, <2>1, RowsStep DEF IdentityTells
  <2>3. OrganizationInv' /\ OrganizationKept
    BY <1>2, <2>1, <2>2, OrganizationFrame
  <2>4. BindingsInv' /\ BindingsKept /\ TakesOne
    BY <1>1, <1>2, <2>2, <2>3, BindingsFrame
  <2>5. GovernanceInv' /\ GovernanceKept
    BY <1>2, <2>2, GovernanceFrame
  <2>6. ToldInv'
    BY <1>1, <2>1, <2>3, <2>4, <2>5, ToldStays DEF IdentityTells
  <2>7. QED
    BY <2>1, <2>2, <2>3, <2>4, <2>5, <2>6
<1>3. CASE OrganizationNext /\ UNCHANGED <<bound, governance>> /\ Next
  <2>1. OrganizationInv' /\ OrganizationKept /\ OrganizationTells
    BY <1>3, OrganizationStep
  <2>2. rows' \in 0 .. MaxRows /\ rows' \in {rows, rows + 1} /\ told \subseteq told'
    BY <1>3, <2>1, RowsStep DEF OrganizationTells
  <2>3. IdentityInv' /\ IdentityKept
    BY <1>3, <2>2, OrganizationLeaves, IdentityFrame
  <2>4. BindingsInv' /\ BindingsKept /\ TakesOne
    BY <1>1, <1>3, <2>1, <2>2, BindingsFrame
  <2>5. GovernanceInv' /\ GovernanceKept
    BY <1>3, <2>2, GovernanceFrame
  <2>6. ToldInv'
    BY <1>1, <2>1, <2>3, <2>4, <2>5, ToldStays DEF OrganizationTells
  <2>7. QED
    BY <2>1, <2>2, <2>3, <2>4, <2>5, <2>6
<1>4. CASE BindingsNext /\ UNCHANGED governance /\ Next
  <2>1. BindingsInv' /\ BindingsKept /\ BindingsTells /\ TakesOne
    BY <1>1, <1>4, BindingsStep
  <2>2. rows' \in 0 .. MaxRows /\ told \subseteq told' /\ UNCHANGED <<identity, organization>>
    BY <1>4, <2>1, RowsStep, BindingsLeave DEF BindingsTells
  <2>3. IdentityInv' /\ IdentityKept
    BY <2>2, IdentityFrame
  <2>4. OrganizationInv' /\ OrganizationKept
    BY <2>2, <2>3, OrganizationFrame
  <2>5. GovernanceInv' /\ GovernanceKept
    BY <1>4, <2>2, GovernanceFrame
  <2>6. ToldInv'
    BY <1>1, <2>1, <2>3, <2>4, <2>5, ToldStays DEF BindingsTells
  <2>7. QED
    BY <2>1, <2>2, <2>3, <2>4, <2>5, <2>6
<1>5. CASE GovernanceNext /\ UNCHANGED <<identity, organization, bound>> /\ Next
  <2>1. GovernanceInv' /\ GovernanceKept /\ GovernanceTells
    BY <1>5, GovernanceStep
  <2>2. rows' \in 0 .. MaxRows /\ rows' \in {rows, rows + 1} /\ told \subseteq told'
    BY <1>5, <2>1, RowsStep DEF GovernanceTells
  <2>3. IdentityInv' /\ IdentityKept
    BY <1>5, <2>2, IdentityFrame
  <2>4. OrganizationInv' /\ OrganizationKept
    BY <1>5, <2>2, <2>3, OrganizationFrame
  <2>5. BindingsInv' /\ BindingsKept /\ TakesOne
    BY <1>1, <1>5, <2>2, <2>4, BindingsFrame
  <2>6. ToldInv'
    BY <1>1, <2>1, <2>3, <2>4, <2>5, ToldStays DEF GovernanceTells
  <2>7. QED
    BY <2>1, <2>2, <2>3, <2>4, <2>5, <2>6
<1>6. CASE UNCHANGED vars
  <2>1. UNCHANGED <<identity, organization, bound, governance>> /\ told' = told /\ rows' = rows
    BY <1>6 DEF vars, shared
  <2>2. IdentityInv' /\ IdentityKept
    BY <2>1, IdentityFrame
  <2>3. OrganizationInv' /\ OrganizationKept
    BY <2>1, <2>2, OrganizationFrame
  <2>4. BindingsInv' /\ BindingsKept /\ TakesOne
    BY <1>1, <2>1, <2>3, BindingsFrame
  <2>5. GovernanceInv' /\ GovernanceKept
    BY <2>1, GovernanceFrame
  <2>6. ToldInv'
    BY <1>1, <2>1, <2>2, <2>3, <2>4, <2>5, ToldStays
  <2>7. QED
    BY <2>1, <2>2, <2>3, <2>4, <2>5, <2>6
<1>7. QED
  BY <1>2, <1>3, <1>4, <1>5, <1>6 DEF Next

\* The inductive invariant holds in every state of every behaviour.
THEOREM Invariant == Spec => []IInv
<1>1. IInv /\ [Next]_vars => IInv'
  BY Step
<1>2. QED
  BY Initial, <1>1, PTL DEF Spec

\* Type correctness and the references between the tables, for any sets of
\* names, roles and layers and any bound.
THEOREM Types == Spec => []TypeOK
<1>1. IInv => TypeOK
  BY DEF IInv, IdentityInv, OrganizationInv, BindingsInv, GovernanceInv,
         ToldInv, IRows, ORows, BRows, GRows, TypeOK
<1>2. QED
  BY Invariant, <1>1, PTL

\* How far the finding about humans (ActorsAlike) goes: no order of requests
\* helps.  The row of a human is there and takes the email, but no answer ever
\* shows its id, no login succeeds and no MVRU gets the human as a member.
HumansShutOut ==
  \A n \in DOMAIN users :
    LET user == Row("user", n)
    IN  user \notin told /\ user \notin tokens /\ \A x \in members : x.user # user

\* No human who registers ever gets an id, a token or a membership.
THEOREM ShutOut == Spec => []HumansShutOut
<1>1. ASSUME IInv PROVE HumansShutOut
  <2>1. SUFFICES ASSUME NEW n \in DOMAIN users
                 PROVE  /\ Row("user", n) \notin told /\ Row("user", n) \notin tokens
                        /\ \A x \in members : x.user # Row("user", n)
    BY DEF HumansShutOut
  <2>2. Row("user", n) \notin told
    BY <1>1 DEF IInv, ToldInv, IRows, ORows, BRows, GRows, RowsOf, Row
  <2>3. Row("user", n) \notin tokens
    BY <1>1, <2>2 DEF IInv, IdentityInv
  <2>4. Row("user", n) # NULL
    <3>1. users \in Seq(UserRows)
      BY <1>1 DEF IInv, IdentityInv, IdentityTypeOK, UserRows
    <3>2. n \in Nat
      BY <3>1
    <3>3. QED
      BY <3>2, NullAssumption DEF NullAssumption, Row
  <2>5. QED
    BY <1>1, <2>2, <2>3, <2>4 DEF IInv, OrganizationInv, Referred
<1>2. QED
  BY Invariant, <1>1, PTL

\* What nobody was told of stays out of everything.
THEOREM Inert == Spec => []UntoldIsInert
<1>1. ASSUME IInv PROVE UntoldIsInert
  <2>1. \A n \in DOMAIN agents : Row("agent", n) \notin told =>
          Row("agent", n) \notin tokens /\ \A x \in members : x.agent # Row("agent", n)
    BY <1>1 DEF IInv, IdentityInv, OrganizationInv, Referred
  <2>2. \A o \in DOMAIN organizations : ~Told("organization", o) => ListMVRUs(o) = {}
    BY <1>1 DEF IInv, OrganizationInv, Referred, ListMVRUs
  <2>3. \A m \in DOMAIN muvrs : ~Told("mvru", m) =>
          /\ muvrs[m].status = "designing"
          /\ \A c \in DOMAIN muvrs : muvrs[c].parent # m
          /\ \A x \in members : x.mvru # m
          /\ \A r \in relationships : r[1] # m /\ r[2] # m
          /\ \A b \in bindings : b.mvru # m
          /\ \A l \in layerConfigs : l[1] # m
    <3>1. 0 \notin DOMAIN muvrs
      BY <1>1, MVRURefers DEF IInv, OrganizationInv
    <3>2. QED
      BY <1>1, <3>1 DEF IInv, OrganizationInv, Referred, BindingsInv
  <2>4. \A c \in DOMAIN capabilities : ~Told("capability", c) =>
          \A b \in bindings : b.capability # c
    BY <1>1 DEF IInv, BindingsInv
  <2>5. \A p \in DOMAIN principles : ~Told("principle", p) =>
          \A r \in DOMAIN controlRules : controlRules[r] # p
    <3>1. principles \in Seq(PrincipleRows)
      BY <1>1 DEF IInv, GovernanceInv, GovernanceTypeOK, PrincipleRows
    <3>2. 0 \notin DOMAIN principles
      BY <3>1
    <3>3. QED
      BY <1>1, <3>2 DEF IInv, GovernanceInv
  <2>6. QED
    BY <2>1, <2>2, <2>3, <2>4, <2>5 DEF UntoldIsInert
<1>2. QED
  BY Invariant, <1>1, PTL

\* A chart shows what was showable when its request began, and nothing that
\* is not showable now.
THEOREM Honest == Spec => []ChartIsHonest
<1>1. IInv => ChartIsHonest
  BY DEF IInv, OrganizationInv, ChartInv, ChartIsHonest
<1>2. QED
  BY Invariant, <1>1, PTL

\* An unbind takes one binding at most, by an id that was told.
THEOREM Unbinds == Spec => UnbindTakesOne
<1>1. IInv /\ [Next]_vars => TakesOne
  BY Step
<1>2. QED
  BY Invariant, <1>1, PTL DEF Spec, UnbindTakesOne, TakesOne

\* A new permission that sorts after another one changes no answer of the gate.
Settled ==
  \A p \in permissions' \ permissions :
    (\E q \in permissions : q.level < p.level \/ (q.level = p.level /\ q.name < p.name))
      => \A action \in PermissionNames : CheckPermission(action)' = CheckPermission(action)

THEOREM Decision == Spec => DecisionKept
<1>1. IInv /\ [Next]_vars => Settled
  BY Step, FirstStays DEF IInv, Settled
<1>2. QED
  BY Invariant, <1>1, PTL DEF Spec, DecisionKept, Settled
=============================================================================
