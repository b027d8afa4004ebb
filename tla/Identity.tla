------------------------------ MODULE Identity ------------------------------
(***************************************************************************)
(* Users, agents and their tokens (internal/domain/identity).              *)
(*                                                                         *)
(* An agent's API key is a random UUID that only the answer to its         *)
(* registration shows; with the agent's number standing for the key, a     *)
(* client holds key n when it was told of agent n.  is_active is left out  *)
(* (no operation clears it), and so are names, levels and the lifetime of  *)
(* a token: ValidateToken has no caller.                                   *)
(***************************************************************************)
EXTENDS Rows

CONSTANTS Emails, Passwords

VARIABLES
  users,     \* rows [email, password, avatar_url]
  agents,    \* rows [key]
  tokens     \* the subjects a token was issued for

identity == <<users, agents, tokens>>

IdentityInit == users = <<>> /\ agents = <<>> /\ tokens = {}

-----------------------------------------------------------------------------
\* INSERT INTO users: the email is UNIQUE and avatar_url stays NULL.  The row
\* is committed before RETURNING is scanned; a scan that fails hides it.
CreateUser(email, password) ==
  LET user == [email |-> email, password |-> password, avatar_url |-> NULL]
  IN  /\ \A n \in DOMAIN users : users[n].email # email
      /\ Insert
      /\ users' = Append(users, user)
      /\ Answered(IF Scans(user.avatar_url) THEN {Row("user", Len(users) + 1)} ELSE {})

register ==
  /\ \E email \in Emails, password \in Passwords : CreateUser(email, password)
  /\ UNCHANGED <<agents, tokens>>

GetUserByEmail(email) ==
  {n \in DOMAIN users : users[n].email = email /\ Scans(users[n].avatar_url)}

\* Who logs in: nobody, unless the row is read and the password is its own.
AuthenticateUser(email, password) ==
  {Row("user", n) : n \in {m \in GetUserByEmail(email) : users[m].password = password}}

login ==
  \E email \in Emails, password \in Passwords :
    LET subjects == AuthenticateUser(email, password)
    IN  /\ tokens' = tokens \cup subjects
        /\ Answered(subjects)
        /\ UNCHANGED <<rows, users, agents>>

CreateAgent ==
  /\ Insert
  /\ agents' = Append(agents, [key |-> Len(agents) + 1])
  /\ Answered({Row("agent", Len(agents) + 1)})

registerAgent == CreateAgent /\ UNCHANGED <<users, tokens>>

\* Mutant: the presented key is not compared with the agent's hash.
AuthenticateAnyAgent(n, key) == n \in DOMAIN agents

\* The row is there and the key hashes to what it holds.
AuthenticateAgent(n, key) == n \in DOMAIN agents /\ agents[n].key = key

\* The agent id is no secret; the key is one of those the clients hold.
authenticateAgent ==
  \E n \in 1 .. rows, key \in {k \in 1 .. rows : Row("agent", k) \in told} :
    /\ AuthenticateAgent(n, key)
    /\ tokens' = tokens \cup {Row("agent", n)}
    /\ UNCHANGED <<shared, users, agents>>

IdentityNext == register \/ login \/ registerAgent \/ authenticateAgent

IdentityTypeOK ==
  /\ users \in Seq([email : Emails, password : Passwords, avatar_url : {NULL}])
  /\ agents \in Seq([key : Nat])
  /\ tokens \subseteq {"user", "agent"} \X Nat
=============================================================================
