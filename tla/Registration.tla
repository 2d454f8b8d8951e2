----------------------------- MODULE Registration -----------------------------
(***************************************************************************)
(* The registration endpoint (lmchat/routes/auth.py register_endpoint,     *)
(* services/auth_service.py register): the first account becomes the       *)
(* administrator, later ones need an invite, which makes them one. Every   *)
(* query of the endpoint is a transaction of its own; register counts and  *)
(* inserts in one, which keeps other writers out on SQLite alone.          *)
(***************************************************************************)
EXTENDS Naturals, FiniteSets

CONSTANTS
  Registrations,    \* registrations
  Names,       \* user names
  Invites,     \* rows of admin_invites, unexpired
  NoInvite,
  OneWriter    \* TRUE on SQLite: a transaction that writes excludes all others

ASSUME RegAssumption == NoInvite \notin Invites /\ Names # {} /\ OneWriter \in BOOLEAN

VARIABLES
  users,   \* the users table: the admin flag of every name taken
  spent,   \* the invites with used_at set
  request  \* each request: where it is, its name, its invite, what it is granted

regVars == <<users, spent, request>>

RegTypeOK ==
  /\ DOMAIN users \subseteq Names /\ \A n \in DOMAIN users : users[n] \in BOOLEAN
  /\ spent \subseteq Invites
  /\ request \in [Registrations ->
       [at : {"idle", "gate", "insert", "counted", "consume", "done", "refused", "failed"},
        name : Names, invite : Invites \cup {NoInvite}, admin : {"no", "first", "invite"}]]

RegInit ==
  /\ users = [n \in {} |-> FALSE]
  /\ spent = {}
  /\ LET n == CHOOSE m \in Names : TRUE IN
       request = [r \in Registrations |->
         [at |-> "idle", name |-> n, invite |-> NoInvite, admin |-> "no"]]

RequestAt(r, at) == request[r].at = at
RequestGoes(r, at) == request' = [request EXCEPT ![r].at = at]

(* The invite is looked up: one that is spent, or no token at all, leaves  *)
(* the setup gate to pass.                                                 *)
LookUpInvite(r) ==
  /\ RequestAt(r, "idle")
  /\ \E n \in Names, i \in Invites \cup {NoInvite} :
       request' = [request EXCEPT ![r] =
         [at |-> "gate", name |-> n, invite |-> IF i \in spent THEN NoInvite ELSE i,
          admin |-> "no"]]
  /\ UNCHANGED <<users, spent>>

(* Registration is open to the first account and to invites; a wrong setup *)
(* token or a bad password refuses the request too.                        *)
PassGate(r) ==
  /\ RequestAt(r, "gate")
  /\ \/ RequestGoes(r, "refused")
     \/ /\ request[r].invite # NoInvite \/ DOMAIN users = {}
        /\ request[r].name \notin DOMAIN users
        /\ RequestGoes(r, "insert")
  /\ UNCHANGED <<users, spent>>

AddUser(r, admin) ==
  users' = [n \in DOMAIN users \cup {request[r].name} |->
              IF n = request[r].name THEN admin ELSE users[n]]

CountsUsers(r) ==
  /\ RequestAt(r, "insert")
  /\ request' = [request EXCEPT
       ![r].at = "counted", ![r].admin = IF DOMAIN users = {} THEN "first" ELSE "no"]
  /\ UNCHANGED <<users, spent>>

(* Faulty: the transaction does not begin with a write.                    *)
CountUsersUnlocked(r) == CountsUsers(r)

(* register, _insert_user: on SQLite an UPDATE of no row takes the write   *)
(* lock before the COUNT, elsewhere nothing does.                          *)
WriteLockFree == OneWriter => \A q \in Registrations : ~RequestAt(q, "counted")
CountUsers(r) == WriteLockFree /\ CountsUsers(r)

(* The INSERT of that transaction; a name taken meanwhile is an            *)
(* IntegrityError.                                                         *)
InsertUser(r) ==
  /\ RequestAt(r, "counted")
  /\ IF request[r].name \in DOMAIN users
     THEN RequestGoes(r, "refused") /\ UNCHANGED users
     ELSE /\ AddUser(r, request[r].admin = "first")
          /\ RequestGoes(r, IF request[r].invite = NoInvite THEN "done" ELSE "consume")
  /\ UNCHANGED spent

(* The transaction is rolled back: an error, or the request is cancelled.  *)
RegisterFails(r) ==
  /\ RequestAt(r, "counted")
  /\ RequestGoes(r, "refused")
  /\ UNCHANGED <<users, spent>>

(* Compare and swap on used_at, and the promotion in the same transaction; *)
(* who loses the race keeps a plain account.                               *)
ConsumeInvite(r) ==
  /\ RequestAt(r, "consume") /\ WriteLockFree
  /\ IF request[r].invite \in spent
     THEN RequestGoes(r, "done") /\ UNCHANGED <<users, spent>>
     ELSE /\ spent' = spent \cup {request[r].invite}
          /\ users' = [users EXCEPT ![request[r].name] = TRUE]
          /\ request' = [request EXCEPT ![r].at = "done",
               ![r].admin = IF @ = "first" THEN "first" ELSE "invite"]

(* The write is given up after its retries, or the process stops: the      *)
(* account stays as it was inserted.                                       *)
ConsumeFails(r) ==
  /\ RequestAt(r, "consume")
  /\ RequestGoes(r, "failed")
  /\ UNCHANGED <<users, spent>>

RegNext == \E r \in Registrations :
  \/ LookUpInvite(r) \/ PassGate(r)
  \/ CountUsers(r) \/ InsertUser(r) \/ RegisterFails(r)
  \/ ConsumeInvite(r) \/ ConsumeFails(r)

RegSpec == RegInit /\ [][RegNext]_regVars

-----------------------------------------------------------------------------
(* On SQLite, every administrator is the first account or spent an invite  *)
(* of its own: two first registrations cannot both be granted ("exactly    *)
(* one wins the grant"), nor two that submit the same token. Without       *)
(* OneWriter two registrations may both count no user.                     *)
Admins == {n \in DOMAIN users : users[n]}
AdminsAccountedFor ==
  Cardinality(Admins) <= 1 + Cardinality(spent \cap
    {request[r].invite : r \in {q \in Registrations : request[q].admin = "invite"}})
=============================================================================
