--------------------------- MODULE Client_proofs ---------------------------
(* What holds of Registration, Quota and ChatPage for every number of       *)
(* registrations, invites, requests, days, failing writes, chats and        *)
(* messages.                                                                *)
EXTENDS Registration, Quota, ChatPage, TLAPS, FiniteSetTheorems

-----------------------------------------------------------------------------
(* Registration. Inductive: who was granted an invite's promotion is done, *)
(* who is waiting to spend one has an account, and who was the first is an *)
(* administrator once it has one; on SQLite whoever has counted is alone,  *)
(* and what it counted still holds.                                        *)

Places == {"idle", "gate", "insert", "counted", "consume", "done", "refused", "failed"}
Inserted == {"consume", "done", "failed"}
RequestRow == [at : Places, name : Names, invite : Invites \cup {NoInvite},
               admin : {"no", "first", "invite"}]

Promoted == {q \in Registrations : request[q].admin = "invite"}
SpentForIt == spent \cap {request[r].invite : r \in Promoted}

RequestOK(r) ==
  /\ request[r].admin = "invite" => request[r].at = "done"
  /\ request[r].admin = "first" /\ request[r].at \in Inserted => request[r].name \in Admins
  /\ request[r].at = "consume" => request[r].name \in DOMAIN users

CountHolds(r) ==
  request[r].at = "counted" =>
    /\ request[r].admin = "first" => DOMAIN users = {}
    /\ \A q \in Registrations : request[q].at = "counted" => q = r

RegShape ==
  /\ request \in [Registrations -> RequestRow]
  /\ IsFiniteSet(DOMAIN users) /\ IsFiniteSet(spent)
  /\ \A r \in Registrations : RequestOK(r) /\ CountHolds(r)

RegInv == RegShape /\ Cardinality(Admins) <= 1 + Cardinality(SpentForIt)

(* A request that moves on without a grant.                                *)
OnlyMoves(r) ==
  /\ UNCHANGED <<users, spent>>
  /\ request[r].admin # "invite" /\ request'[r].admin # "invite"
  /\ \A q \in Registrations : q # r => request'[q] = request[q]

LEMMA FiniteAdmins ==
  ASSUME RegShape
  PROVE  /\ IsFiniteSet(Admins) /\ Cardinality(Admins) \in Nat
         /\ IsFiniteSet(SpentForIt) /\ Cardinality(SpentForIt) \in Nat
BY FS_Subset, FS_CardinalityType DEF RegShape, Admins, SpentForIt

LEMMA SameGrants ==
  ASSUME RegShape, NEW r \in Registrations, request[r].admin # "invite",
         request'[r].admin # "invite",
         \A q \in Registrations : q # r => request'[q] = request[q]
  PROVE  /\ Promoted' = Promoted
         /\ {request'[q].invite : q \in Promoted'} = {request[q].invite : q \in Promoted}
BY DEF Promoted

LEMMA OnlyMovesKeeps ==
  ASSUME RegInv, RegShape', NEW r \in Registrations, OnlyMoves(r)
  PROVE  RegInv'
<1>1. Admins' = Admins BY DEF OnlyMoves, Admins
<1>2. SpentForIt' = SpentForIt BY SameGrants DEF RegInv, OnlyMoves, SpentForIt
<1> QED BY <1>1, <1>2 DEF RegInv

(* A record with a field replaced, for each of the updates of the module.  *)
LEMMA RequestUpdated ==
  ASSUME RegShape, NEW r \in Registrations, NEW rec \in
           RequestRow,
         request' = [request EXCEPT ![r] = rec]
  PROVE  /\ request'[r] = rec
         /\ request' \in [Registrations -> RequestRow]
         /\ \A q \in Registrations : q # r => request'[q] = request[q]
BY DEF RegShape

LEMMA LookUpKeeps ==
  ASSUME RegInv, NEW r \in Registrations, LookUpInvite(r) PROVE RegInv'
<1>1. PICK n \in Names, i \in Invites \cup {NoInvite} :
        request' = [request EXCEPT ![r] =
          [at |-> "gate", name |-> n, invite |-> IF i \in spent THEN NoInvite ELSE i,
           admin |-> "no"]]
  BY DEF LookUpInvite
<1>2. /\ request'[r].at = "gate" /\ request'[r].admin = "no"
      /\ request' \in [Registrations -> RequestRow]
      /\ \A q \in Registrations : q # r => request'[q] = request[q]
  <2> DEFINE rec == [at |-> "gate", name |-> n, invite |-> IF i \in spent THEN NoInvite ELSE i,
                     admin |-> "no"]
  <2>1. rec \in RequestRow BY DEF RequestRow, Places
  <2>2. request' = [request EXCEPT ![r] = rec] BY <1>1
  <2>3. rec.at = "gate" /\ rec.admin = "no" OBVIOUS
  <2> HIDE DEF rec
  <2> QED BY <2>1, <2>2, <2>3, RequestUpdated DEF RegInv
<1>3. UNCHANGED <<users, spent>> BY DEF LookUpInvite
<1>4. RegShape'
  <2>1. RequestOK(r)' /\ CountHolds(r)' BY <1>2 DEF RequestOK, CountHolds
  <2>2. \A q \in Registrations : q # r => RequestOK(q)' /\ CountHolds(q)'
    BY <1>2, <1>3 DEF RegInv, RegShape, RequestOK, CountHolds, Admins
  <2> QED BY <1>2, <1>3, <2>1, <2>2 DEF RegInv, RegShape
<1>5. OnlyMoves(r)
  BY <1>2, <1>3 DEF OnlyMoves, RegInv, RegShape, RequestOK, LookUpInvite, RequestAt
<1> QED BY <1>4, <1>5, OnlyMovesKeeps

(* A request moves on, with its name, invite and grant as they were.       *)
LEMMA GoesKeeps ==
  ASSUME RegInv, NEW r \in Registrations, NEW at \in Places, RequestGoes(r, at),
         UNCHANGED <<users, spent>>, request[r].at # "done",
         at \in {"insert", "refused"} \/ (at \in {"done", "failed"} /\ request[r].at = "consume")
  PROVE  RegInv'
<1>1. request[r].admin # "invite" BY DEF RegInv, RegShape, RequestOK
<1>2. /\ request'[r] = [request[r] EXCEPT !.at = at]
      /\ request' \in [Registrations -> RequestRow]
      /\ \A q \in Registrations : q # r => request'[q] = request[q]
  <2>1. [request[r] EXCEPT !.at = at] \in RequestRow
    BY DEF RegInv, RegShape, RequestRow
  <2>2. request' = [request EXCEPT ![r] = [request[r] EXCEPT !.at = at]] BY DEF RequestGoes
  <2> QED BY <2>1, <2>2, RequestUpdated DEF RegInv
<1>3. /\ request'[r].at = at /\ request'[r].admin = request[r].admin
      /\ request'[r].name = request[r].name
  BY <1>2 DEF RegInv, RegShape
<1>4. RegShape'
  <2>1. RequestOK(r)' /\ CountHolds(r)'
    BY <1>1, <1>3 DEF RegInv, RegShape, RequestOK, CountHolds, Inserted, Admins
  <2>2. \A q \in Registrations : q # r => RequestOK(q)' /\ CountHolds(q)'
    <3>1. request'[r].at # "counted" BY <1>3
    <3>2. \A q \in Registrations : q # r => RequestOK(q)'
      BY <1>2 DEF RegInv, RegShape, RequestOK, Admins
    <3>3. \A q \in Registrations : q # r => CountHolds(q)'
      BY <1>2, <3>1 DEF RegInv, RegShape, CountHolds
    <3> QED BY <3>2, <3>3
  <2> QED BY <1>2, <2>1, <2>2 DEF RegInv, RegShape
<1>5. OnlyMoves(r) BY <1>1, <1>2, <1>3 DEF OnlyMoves
<1> QED BY <1>4, <1>5, OnlyMovesKeeps

(* On SQLite a registration counts only while no other has counted.        *)
LEMMA CountUsersKeeps ==
  ASSUME OneWriter, RegInv, NEW r \in Registrations, CountUsers(r) PROVE RegInv'
<1> DEFINE grant == IF DOMAIN users = {} THEN "first" ELSE "no"
           rec == [at |-> "counted", name |-> request[r].name, invite |-> request[r].invite,
                   admin |-> grant]
<1>1. /\ request' = [request EXCEPT ![r].at = "counted", ![r].admin = grant]
      /\ request[r].at = "insert" /\ UNCHANGED <<users, spent>>
      /\ \A q \in Registrations : request[q].at # "counted"
  BY DEF CountUsers, CountsUsers, WriteLockFree, RequestAt
<1>2. request[r] \in RequestRow BY DEF RegInv, RegShape
<1>3. rec \in RequestRow BY <1>2 DEF RequestRow, Places
<1>4. /\ request'[r] = rec
      /\ request' \in [Registrations -> RequestRow]
      /\ \A q \in Registrations : q # r => request'[q] = request[q]
  <2>1. DOMAIN request = Registrations /\ request = [q \in Registrations |-> request[q]]
    BY DEF RegInv, RegShape
  <2>2. request[r] = [at |-> request[r].at, name |-> request[r].name,
                      invite |-> request[r].invite, admin |-> request[r].admin]
    BY <1>2 DEF RequestRow
  <2>3. request'[r] = rec BY <1>1, <2>1, <2>2
  <2>4. \A q \in Registrations : q # r => request'[q] = request[q] BY <1>1, <2>1
  <2>5. DOMAIN request' = Registrations /\ request' = [q \in Registrations |-> request'[q]]
    BY <1>1, <2>1
  <2>6. \A q \in Registrations : request'[q] \in RequestRow
    BY <1>3, <2>3, <2>4 DEF RegInv, RegShape
  <2> QED BY <2>3, <2>4, <2>5, <2>6
<1>5. request'[r].at = "counted" /\ request'[r].admin = grant BY <1>4
<1> HIDE DEF rec
<1>6. RegShape'
  <2>1. RequestOK(r)' /\ CountHolds(r)'
    BY <1>1, <1>4, <1>5 DEF RequestOK, CountHolds, Inserted
  <2>2. \A q \in Registrations : q # r => RequestOK(q)' /\ CountHolds(q)'
    BY <1>1, <1>4 DEF RegInv, RegShape, RequestOK, CountHolds, Admins
  <2> QED BY <1>1, <1>4, <2>1, <2>2 DEF RegInv, RegShape
<1>7. OnlyMoves(r)
  BY <1>1, <1>4, <1>5 DEF OnlyMoves, RegInv, RegShape, RequestOK
<1> QED BY <1>6, <1>7, OnlyMovesKeeps

(* The first account is an administrator, any later one is not.            *)
LEMMA InsertKeeps ==
  ASSUME RegInv, NEW r \in Registrations, InsertUser(r), request[r].name \notin DOMAIN users
  PROVE  RegInv'
<1> DEFINE name == request[r].name
           first == request[r].admin = "first"
           at == IF request[r].invite = NoInvite THEN "done" ELSE "consume"
<1>1. /\ AddUser(r, first) /\ UNCHANGED spent
      /\ RequestGoes(r, at)
      /\ request[r].at = "counted"
  BY DEF InsertUser, RequestAt
<1>2. request[r] \in RequestRow BY DEF RegInv, RegShape
<1>3. request[r].admin # "invite" /\ CountHolds(r)
  BY <1>1 DEF RegInv, RegShape, RequestOK
<1>4. /\ request'[r] = [request[r] EXCEPT !.at = at]
      /\ request' \in [Registrations -> RequestRow]
      /\ \A q \in Registrations : q # r => request'[q] = request[q]
  <2>1. [request[r] EXCEPT !.at = at] \in RequestRow BY <1>2 DEF RequestRow, Places
  <2>2. request' = [request EXCEPT ![r] = [request[r] EXCEPT !.at = at]]
    BY <1>1 DEF RequestGoes
  <2> QED BY <2>1, <2>2, RequestUpdated DEF RegInv
<1>a. /\ request'[r].at = at /\ request'[r].admin = request[r].admin
      /\ request'[r].name = name
  BY <1>2, <1>4 DEF RequestRow
<1>5. /\ DOMAIN users' = DOMAIN users \cup {name}
      /\ users'[name] = first
      /\ \A n \in DOMAIN users : users'[n] = users[n]
  BY <1>1 DEF AddUser
<1>6. Admins' = IF first THEN {name} ELSE Admins
  <2>1. CASE first
    <3>1. DOMAIN users = {} BY <1>1, <1>3, <2>1 DEF CountHolds
    <3> QED BY <1>5, <2>1, <3>1 DEF Admins
  <2>2. CASE ~first BY <1>5, <2>2 DEF Admins
  <2> QED BY <2>1, <2>2
<1>7. Admins \subseteq Admins' BY <1>5 DEF Admins
<1>8. RegShape'
  <2>1. IsFiniteSet(DOMAIN users') /\ IsFiniteSet(spent')
    BY <1>1, <1>5, FS_AddElement DEF RegInv, RegShape
  <2>2. RequestOK(r)' /\ CountHolds(r)'
    BY <1>3, <1>5, <1>6, <1>a DEF RequestOK, CountHolds, Inserted
  <2>3. \A q \in Registrations : q # r => RequestOK(q)'
    BY <1>4, <1>5, <1>7 DEF RegInv, RegShape, RequestOK
  <2>4. \A q \in Registrations : q # r => request'[q].at # "counted"
    BY <1>1, <1>3, <1>4 DEF CountHolds
  <2>5. \A q \in Registrations : q # r => CountHolds(q)' BY <2>4 DEF CountHolds
  <2> QED BY <1>4, <2>1, <2>2, <2>3, <2>5 DEF RegShape
<1>9. SpentForIt' = SpentForIt
  BY <1>1, <1>3, <1>4, <1>a, SameGrants DEF RegInv, SpentForIt
<1>10. Cardinality(Admins') <= 1 + Cardinality(SpentForIt)
  <2>1. CASE first
    <3>1. Cardinality(Admins') = 1 BY <1>6, <2>1, FS_Singleton
    <3> QED BY <3>1, FiniteAdmins DEF RegInv
  <2>2. CASE ~first BY <1>6, <2>2 DEF RegInv
  <2> QED BY <2>1, <2>2
<1> QED BY <1>8, <1>9, <1>10 DEF RegInv

(* A promotion spends an invite that nobody was promoted for.              *)
LEMMA ConsumeKeeps ==
  ASSUME RegInv, NEW r \in Registrations, ConsumeInvite(r), request[r].invite \notin spent
  PROVE  RegInv'
<1> DEFINE name == request[r].name
           token == request[r].invite
           grant == IF request[r].admin = "first" THEN "first" ELSE "invite"
           rec == [at |-> "done", name |-> name, invite |-> token, admin |-> grant]
<1>1. /\ spent' = spent \cup {token} /\ users' = [users EXCEPT ![name] = TRUE]
      /\ request' = [request EXCEPT ![r].at = "done",
                       ![r].admin = IF @ = "first" THEN "first" ELSE "invite"]
      /\ request[r].at = "consume"
  BY DEF ConsumeInvite, RequestAt
<1>2. request[r] \in RequestRow BY DEF RegInv, RegShape
<1>3. rec \in RequestRow BY <1>2 DEF RequestRow, Places
<1>4. /\ request'[r] = rec
      /\ request' \in [Registrations -> RequestRow]
      /\ \A q \in Registrations : q # r => request'[q] = request[q]
  <2>1. DOMAIN request = Registrations /\ request = [q \in Registrations |-> request[q]]
    BY DEF RegInv, RegShape
  <2>2. request[r] = [at |-> request[r].at, name |-> name, invite |-> token,
                      admin |-> request[r].admin]
    BY <1>2 DEF RequestRow
  <2>3. request'[r] = rec BY <1>1, <2>1, <2>2
  <2>4. \A q \in Registrations : q # r => request'[q] = request[q] BY <1>1, <2>1
  <2>5. DOMAIN request' = Registrations /\ request' = [q \in Registrations |-> request'[q]]
    BY <1>1, <2>1
  <2>6. \A q \in Registrations : request'[q] \in RequestRow
    BY <1>3, <2>3, <2>4 DEF RegInv, RegShape
  <2> QED BY <2>3, <2>4, <2>5, <2>6
<1>5. name \in DOMAIN users /\ request[r].admin # "invite"
      /\ (request[r].admin = "first" => name \in Admins)
  BY <1>1 DEF RegInv, RegShape, RequestOK, Inserted
<1>6. DOMAIN users' = DOMAIN users /\ Admins' = Admins \cup {name} BY <1>1, <1>5 DEF Admins
<1>7. RegShape'
  <2>1. IsFiniteSet(DOMAIN users') /\ IsFiniteSet(spent')
    BY <1>1, <1>6, FS_AddElement DEF RegInv, RegShape
  <2>0. request'[r].at = "done" /\ request'[r].name = name /\ name \in Admins'
    BY <1>4, <1>6
  <2>2. RequestOK(r)' /\ CountHolds(r)' BY <2>0 DEF RequestOK, CountHolds
  <2>3. \A q \in Registrations : q # r => RequestOK(q)' /\ CountHolds(q)'
    BY <1>1, <1>4, <1>6, <2>0 DEF RegInv, RegShape, RequestOK, CountHolds
  <2> QED BY <1>4, <2>1, <2>2, <2>3 DEF RegShape
<1>8. CASE request[r].admin = "first"
  <2>1. Admins' = Admins BY <1>5, <1>6, <1>8
  <2>2. Promoted' = Promoted
        /\ {request'[q].invite : q \in Promoted'} = {request[q].invite : q \in Promoted}
    <3>1. request'[r].admin # "invite" BY <1>4, <1>8
    <3> QED BY <1>4, <1>5, <3>1, SameGrants DEF RegInv
  <2>3. SpentForIt \in SUBSET SpentForIt' BY <1>1, <2>2 DEF SpentForIt
  <2>4. IsFiniteSet(SpentForIt') /\ Cardinality(SpentForIt') \in Nat
    BY <1>7, FS_Subset, FS_CardinalityType DEF RegShape, SpentForIt
  <2>5. Cardinality(SpentForIt) <= Cardinality(SpentForIt') BY <2>3, <2>4, FS_Subset
  <2> QED BY <1>7, <2>1, <2>4, <2>5, FiniteAdmins DEF RegInv
<1>9. CASE request[r].admin # "first"
  <2>1. Promoted' = Promoted \cup {r} BY <1>4, <1>9 DEF Promoted
  <2>2. r \notin Promoted BY <1>5 DEF Promoted
  <2>3. {request'[q].invite : q \in Promoted'} = {request[q].invite : q \in Promoted} \cup {token}
    BY <1>4, <2>1, <2>2 DEF Promoted
  <2>4. SpentForIt' = SpentForIt \cup {token} BY <1>1, <2>3 DEF SpentForIt
  <2>5. token \notin SpentForIt BY DEF SpentForIt
  <2>6. Cardinality(SpentForIt') = Cardinality(SpentForIt) + 1
    BY <2>4, <2>5, FiniteAdmins, FS_AddElement DEF RegInv
  <2>7. Cardinality(Admins') <= Cardinality(Admins) + 1 /\ Cardinality(Admins') \in Nat
    <3>1. IsFiniteSet(Admins) /\ Cardinality(Admins) \in Nat BY FiniteAdmins DEF RegInv
    <3>2. CASE name \in Admins
      <4>1. Admins' = Admins BY <1>6, <3>2
      <4> QED BY <3>1, <4>1
    <3>3. CASE name \notin Admins
      <4>1. Cardinality(Admins \cup {name}) = Cardinality(Admins) + 1
        BY <3>1, <3>3, FS_AddElement
      <4> QED BY <1>6, <3>1, <4>1
    <3> QED BY <3>2, <3>3
  <2> QED BY <1>7, <2>6, <2>7, FiniteAdmins DEF RegInv
<1> QED BY <1>8, <1>9

LEMMA RegInit_Inv == ASSUME Names # {} PROVE RegInit => RegInv
<1> SUFFICES ASSUME RegInit PROVE RegInv OBVIOUS
<1>1. (CHOOSE m \in Names : TRUE) \in Names OBVIOUS
<1>2. request \in [Registrations -> RequestRow]
  BY <1>1 DEF RegInit, RequestRow, Places
<1>3. IsFiniteSet(DOMAIN users) /\ IsFiniteSet(spent) BY FS_EmptySet DEF RegInit
<1>4. \A r \in Registrations : RequestOK(r) /\ CountHolds(r)
  BY DEF RegInit, RequestOK, CountHolds
<1>5. RegShape BY <1>2, <1>3, <1>4 DEF RegShape
<1>6. Admins = {} BY DEF RegInit, Admins
<1> QED BY <1>5, <1>6, FS_EmptySet, FiniteAdmins DEF RegInv

(* On SQLite: however many registrations run at once, with whatever        *)
(* invites and whatever failures in between, there are no more             *)
(* administrators than the first account and the invites that were spent   *)
(* on a promotion (register, _consume_and_promote: "exactly one wins the   *)
(* grant"). It does not hold where register takes no write lock.           *)
THEOREM AdministratorsAreEarned == ASSUME OneWriter PROVE RegSpec => []AdminsAccountedFor
<1>1. RegInit => RegInv BY RegAssumption, RegInit_Inv
<1>2. RegInv /\ [RegNext]_regVars => RegInv'
  <2> SUFFICES ASSUME RegInv, [RegNext]_regVars PROVE RegInv' OBVIOUS
  <2>1. ASSUME NEW r \in Registrations, PassGate(r) PROVE RegInv'
    BY <2>1, GoesKeeps DEF PassGate, RequestAt, Places
  <2>2. ASSUME NEW r \in Registrations, InsertUser(r) PROVE RegInv'
    BY <2>2, InsertKeeps, GoesKeeps DEF InsertUser, RequestAt, Places
  <2>6. ASSUME NEW r \in Registrations, RegisterFails(r) PROVE RegInv'
    BY <2>6, GoesKeeps DEF RegisterFails, RequestAt, Places
  <2>3. ASSUME NEW r \in Registrations, ConsumeInvite(r) PROVE RegInv'
    BY <2>3, ConsumeKeeps, GoesKeeps DEF ConsumeInvite, RequestAt, Places
  <2>4. ASSUME NEW r \in Registrations, ConsumeFails(r) PROVE RegInv'
    BY <2>4, GoesKeeps DEF ConsumeFails, RequestAt, Places
  <2>5. CASE UNCHANGED regVars
    BY <2>5 DEF regVars, RegInv, RegShape, RequestOK, CountHolds, Admins, SpentForIt, Promoted
  <2> QED BY <2>1, <2>2, <2>3, <2>4, <2>5, <2>6, LookUpKeeps, CountUsersKeeps DEF RegNext
<1>3. RegInv => AdminsAccountedFor
  <2> SUFFICES ASSUME RegInv PROVE AdminsAccountedFor OBVIOUS
  <2>1. SpentForIt = spent \cap
          {request[r].invite : r \in {q \in Registrations : request[q].admin = "invite"}}
    BY DEF SpentForIt, Promoted
  <2> QED BY <2>1 DEF RegInv, AdminsAccountedFor
<1> QED BY <1>1, <1>2, <1>3, PTL DEF RegSpec

-----------------------------------------------------------------------------
(* Quota. Inductive: the counters of a day are bounded by the highest      *)
(* limit, which bounds the limit in force; a day's row counts exactly the  *)
(* requests admitted on it, and none of those is about to be counted.      *)

UsageRow == [exists : BOOLEAN, requests : Nat, tokens : Nat]
QuotaTypes ==
  /\ today \in Days /\ limit \in Nat /\ ceiling \in Nat /\ limit <= ceiling
  /\ usage \in [Days -> UsageRow]
  /\ req \in [Requests ->
       [at : {"idle", "count", "running", "charge", "done", "refused"}, tokens : Nat]]
  /\ admitted \in [Days -> SUBSET Requests]

BeforeCount(r) == req[r].at \in {"idle", "count"}
DayOK(d) ==
  /\ usage[d].requests <= ceiling /\ usage[d].tokens <= ceiling
  /\ ~usage[d].exists => usage[d].requests = 0 /\ usage[d].tokens = 0
  /\ IsFiniteSet(admitted[d]) /\ Cardinality(admitted[d]) = usage[d].requests
  /\ \A r \in admitted[d] : ~BeforeCount(r)

QuotaInv == QuotaTypes /\ \A d \in Days : DayOK(d)

LEMMA QuotaInit_Inv == QuotaInit => QuotaInv
<1> SUFFICES ASSUME QuotaInit PROVE QuotaInv OBVIOUS
<1>1. QuotaTypes
  BY QuotaAssumption DEF QuotaInit, QuotaTypes, Days, NoRow, UsageRow
<1>2. ASSUME NEW d \in Days PROVE DayOK(d)
  BY <1>1, FS_EmptySet DEF QuotaInit, QuotaTypes, DayOK, NoRow
<1> QED BY <1>1, <1>2 DEF QuotaInv

(* The row of today is made, or it is there: it counts what it counted.    *)
LEMMA EnsuredRow ==
  ASSUME QuotaInv, EnsureUsageRow
  PROVE  /\ usage' \in [Days -> UsageRow]
         /\ \A d \in Days : /\ usage'[d].requests = usage[d].requests
                            /\ usage'[d].tokens = usage[d].tokens
                            /\ usage[d].exists => usage'[d].exists
<1>1. today \in Days /\ usage \in [Days -> UsageRow] BY DEF QuotaInv, QuotaTypes
<1>2. usage[today] \in UsageRow BY <1>1
<1>3. /\ usage'[today] = IF usage[today].exists THEN usage[today] ELSE FreshRow
      /\ usage' = [d \in Days |-> usage'[d]]
      /\ \A d \in Days : d # today => usage'[d] = usage[d]
  BY <1>1 DEF EnsureUsageRow
<1>4. FreshRow \in UsageRow BY DEF FreshRow, UsageRow
<1>5. /\ usage'[today].requests = usage[today].requests
      /\ usage'[today].tokens = usage[today].tokens
      /\ usage[today].exists => usage'[today].exists
  BY <1>1, <1>3 DEF QuotaInv, DayOK, FreshRow
<1>6. \A d \in Days : usage'[d] \in UsageRow BY <1>1, <1>2, <1>3, <1>4
<1> QED BY <1>3, <1>5, <1>6

(* A request moves on without touching what the days count.                *)
LEMMA RequestMoves ==
  ASSUME QuotaInv, NEW r \in Requests,
         NEW at \in {"idle", "count", "running", "charge", "done", "refused"}, NEW n \in Nat,
         req' = [req EXCEPT ![r] = [at |-> at, tokens |-> n]],
         UNCHANGED <<today, limit, ceiling, admitted>>,
         usage' \in [Days -> UsageRow],
         \A d \in Days : /\ usage'[d].requests = usage[d].requests
                         /\ usage'[d].tokens = usage[d].tokens
                         /\ usage[d].exists => usage'[d].exists,
         at \in {"idle", "count"} => BeforeCount(r)
  PROVE  QuotaInv'
<1>1. /\ req' \in [Requests ->
           [at : {"idle", "count", "running", "charge", "done", "refused"}, tokens : Nat]]
      /\ \A q \in Requests : BeforeCount(q)' => BeforeCount(q)
  BY DEF QuotaInv, QuotaTypes, BeforeCount
<1>2. QuotaTypes' BY <1>1 DEF QuotaInv, QuotaTypes, Days
<1>3. ASSUME NEW d \in Days PROVE DayOK(d)'
  BY <1>1 DEF QuotaInv, QuotaTypes, DayOK
<1> QED BY <1>2, <1>3 DEF QuotaInv, Days

LEMMA RequestRecord ==
  ASSUME QuotaInv, NEW r \in Requests
  PROVE  /\ req[r].at \in {"idle", "count", "running", "charge", "done", "refused"}
         /\ req[r].tokens \in Nat
         /\ req[r] = [at |-> req[r].at, tokens |-> req[r].tokens]
         /\ DOMAIN req = Requests
BY DEF QuotaInv, QuotaTypes

LEMMA GoesIsUpdate ==
  ASSUME QuotaInv, NEW r \in Requests, NEW at, ReqGoes(r, at)
  PROVE  req' = [req EXCEPT ![r] = [at |-> at, tokens |-> req[r].tokens]]
<1>1. PICK a, n : req[r] = [at |-> a, tokens |-> n] BY RequestRecord
<1>3. [req[r] EXCEPT !.at = at] = [at |-> at, tokens |-> req[r].tokens] BY <1>1
<1>2. req' = [req EXCEPT ![r] = [req[r] EXCEPT !.at = at]] BY DEF ReqGoes
<1> QED BY <1>2, <1>3

LEMMA BeginKeeps ==
  ASSUME QuotaInv, NEW r \in Requests, BeginRequest(r) PROVE QuotaInv'
<1>1. req' = [req EXCEPT ![r] = [at |-> "count", tokens |-> req[r].tokens]]
  BY GoesIsUpdate DEF BeginRequest
<1>2. BeforeCount(r) BY DEF BeginRequest, ReqAt, BeforeCount
<1> QED BY <1>1, <1>2, EnsuredRow, RequestRecord, RequestMoves DEF BeginRequest

LEMMA CountFailsKeeps ==
  ASSUME QuotaInv, NEW r \in Requests, CountFails(r) PROVE QuotaInv'
<1>1. req' = [req EXCEPT ![r] = [at |-> "running", tokens |-> req[r].tokens]]
  BY GoesIsUpdate DEF CountFails
<1>2. usage \in [Days -> UsageRow] BY DEF QuotaInv, QuotaTypes
<1> QED BY <1>1, <1>2, RequestRecord, RequestMoves DEF CountFails

LEMMA EndTurnKeeps ==
  ASSUME QuotaInv, NEW r \in Requests, EndTurn(r) PROVE QuotaInv'
<1>1. PICK n \in Turns : req' = [req EXCEPT ![r].at = "charge", ![r].tokens = n] BY DEF EndTurn
<1>2. n \in Nat BY QuotaAssumption
<1>3. req' = [req EXCEPT ![r] = [at |-> "charge", tokens |-> n]]
  <2>1. PICK a, m : req[r] = [at |-> a, tokens |-> m] BY RequestRecord
  <2>2. DOMAIN req = Requests BY RequestRecord
  <2>3. req'[r] = [at |-> "charge", tokens |-> n] BY <1>1, <2>1, <2>2
  <2>4. \A q \in Requests : q # r => req'[q] = req[q] BY <1>1, <2>2
  <2>5. DOMAIN req' = Requests /\ req' = [q \in Requests |-> req'[q]] BY <1>1, <2>2
  <2> QED BY <2>2, <2>3, <2>4, <2>5
<1> QED BY <1>2, <1>3, EnsuredRow, RequestMoves DEF EndTurn, BeforeCount

(* One more request and one more row of admitted: the request is new there. *)
LEMMA CountKeeps ==
  ASSUME QuotaInv, NEW r \in Requests, CountRequest(r) PROVE QuotaInv'
<1>1. CASE ~WithinRequests
  <2>1. req' = [req EXCEPT ![r] = [at |-> "refused", tokens |-> req[r].tokens]]
    BY <1>1, GoesIsUpdate DEF CountRequest
  <2>2. usage \in [Days -> UsageRow] BY DEF QuotaInv, QuotaTypes
  <2> QED BY <1>1, <2>1, <2>2, RequestRecord, RequestMoves DEF CountRequest
<1>2. CASE WithinRequests
  <2> DEFINE row == [exists |-> usage[today].exists, requests |-> usage[today].requests + 1,
                     tokens |-> usage[today].tokens]
  <2>1. /\ usage' = [usage EXCEPT ![today].requests = @ + 1]
        /\ admitted' = [admitted EXCEPT ![today] = @ \cup {r}]
        /\ req' = [req EXCEPT ![r] = [at |-> "running", tokens |-> req[r].tokens]]
        /\ UNCHANGED <<today, limit, ceiling>>
    BY <1>2, GoesIsUpdate DEF CountRequest
  <2>2. /\ today \in Days /\ usage[today] \in UsageRow /\ BeforeCount(r)
        /\ limit \in Nat /\ ceiling \in Nat /\ limit <= ceiling
        /\ admitted \in [Days -> SUBSET Requests]
    BY DEF QuotaInv, QuotaTypes, CountRequest, ReqAt, BeforeCount
  <2>3. usage' = [usage EXCEPT ![today] = row] /\ row \in UsageRow
    <3>1. row \in UsageRow BY <2>2 DEF UsageRow
    <3>2. PICK e, n, t : usage[today] = [exists |-> e, requests |-> n, tokens |-> t]
      BY <2>2 DEF UsageRow
    <3>3. [usage[today] EXCEPT !.requests = usage[today].requests + 1] = row BY <3>2
    <3>4. usage' = [usage EXCEPT ![today] = [usage[today] EXCEPT !.requests = usage[today].requests + 1]]
      BY <2>1
    <3> QED BY <3>1, <3>3, <3>4
  <2>4. usage'[today] = row /\ usage' \in [Days -> UsageRow]
        /\ \A d \in Days : d # today => usage'[d] = usage[d]
    BY <2>2, <2>3 DEF QuotaInv, QuotaTypes
  <2>5. admitted'[today] = admitted[today] \cup {r} /\ admitted' \in [Days -> SUBSET Requests]
        /\ \A d \in Days : d # today => admitted'[d] = admitted[d]
    BY <2>1, <2>2
  <2>6. /\ \A q \in Requests : BeforeCount(q)' => BeforeCount(q)
        /\ ~BeforeCount(r)'
        /\ req' \in [Requests ->
             [at : {"idle", "count", "running", "charge", "done", "refused"}, tokens : Nat]]
    BY <2>1, RequestRecord DEF BeforeCount, QuotaInv, QuotaTypes
  <2>7. QuotaTypes' BY <2>1, <2>2, <2>4, <2>5, <2>6 DEF QuotaTypes, Days
  <2>8. DayOK(today)'
    <3>1. DayOK(today) BY <2>2 DEF QuotaInv
    <3>2. r \notin admitted[today] BY <2>2, <3>1 DEF DayOK
    <3>3. /\ IsFiniteSet(admitted'[today])
          /\ Cardinality(admitted'[today]) = Cardinality(admitted[today]) + 1
      <4>1. IsFiniteSet(admitted[today]) BY <3>1 DEF DayOK
      <4> QED BY ONLY ZenonT(30), <4>1, <2>5, <3>2, FS_AddElement
    <3>4. row.requests <= ceiling /\ row.tokens <= ceiling /\ row.exists
      BY <1>2, <2>2, <3>1 DEF WithinRequests, DayOK, UsageRow
    <3>5. Cardinality(admitted'[today]) = row.requests BY <3>1, <3>3 DEF DayOK
    <3>6. \A q \in admitted'[today] : ~BeforeCount(q)'
      BY <2>2, <2>5, <2>6, <3>1 DEF DayOK
    <3> HIDE DEF row
    <3> QED BY <2>1, <2>4, <3>3, <3>4, <3>5, <3>6 DEF DayOK
  <2>9. ASSUME NEW d \in Days, d # today PROVE DayOK(d)'
    BY <2>1, <2>2, <2>4, <2>5, <2>6, <2>9 DEF QuotaInv, DayOK
  <2> QED BY <2>1, <2>7, <2>8, <2>9 DEF QuotaInv, Days
<1> QED BY <1>1, <1>2

(* The tokens that fit are added, those that do not are dropped.           *)
LEMMA ChargeKeeps ==
  ASSUME QuotaInv, NEW r \in Requests, ChargeTokens(r) PROVE QuotaInv'
<1>1. /\ req' = [req EXCEPT ![r] = [at |-> "done", tokens |-> req[r].tokens]]
      /\ UNCHANGED <<today, limit, ceiling, admitted>>
  BY GoesIsUpdate DEF ChargeTokens
<1>2. CASE ~(usage[today].exists /\ WithinTokens(r))
  <2>1. usage' = usage BY <1>2 DEF ChargeTokens
  <2>2. usage \in [Days -> UsageRow] BY DEF QuotaInv, QuotaTypes
  <2> QED BY <1>1, <2>1, <2>2, RequestRecord, RequestMoves
<1>3. CASE usage[today].exists /\ WithinTokens(r)
  <2> DEFINE row == [exists |-> usage[today].exists, requests |-> usage[today].requests,
                     tokens |-> usage[today].tokens + req[r].tokens]
  <2>1. usage' = [usage EXCEPT ![today].tokens = @ + req[r].tokens]
    BY <1>3 DEF ChargeTokens
  <2>2. /\ today \in Days /\ usage[today] \in UsageRow /\ req[r].tokens \in Nat
        /\ limit \in Nat /\ ceiling \in Nat /\ limit <= ceiling
    BY RequestRecord DEF QuotaInv, QuotaTypes
  <2>3. usage' = [usage EXCEPT ![today] = row] /\ row \in UsageRow
    <3>1. row \in UsageRow BY <2>2 DEF UsageRow
    <3>2. PICK e, n, t : usage[today] = [exists |-> e, requests |-> n, tokens |-> t]
      BY <2>2 DEF UsageRow
    <3>3. [usage[today] EXCEPT !.tokens = usage[today].tokens + req[r].tokens] = row BY <3>2
    <3>4. usage' = [usage EXCEPT ![today] = [usage[today] EXCEPT !.tokens = usage[today].tokens + req[r].tokens]]
      BY <2>1
    <3> QED BY <3>1, <3>3, <3>4
  <2>4. usage'[today] = row /\ usage' \in [Days -> UsageRow]
        /\ \A d \in Days : d # today => usage'[d] = usage[d]
    BY <2>2, <2>3 DEF QuotaInv, QuotaTypes
  <2>5. /\ \A q \in Requests : BeforeCount(q)' => BeforeCount(q)
        /\ req' \in [Requests ->
             [at : {"idle", "count", "running", "charge", "done", "refused"}, tokens : Nat]]
    BY <1>1, RequestRecord DEF BeforeCount, QuotaInv, QuotaTypes
  <2>6. QuotaTypes' BY <1>1, <2>4, <2>5 DEF QuotaInv, QuotaTypes, Days
  <2>7. DayOK(today)'
    <3>1. DayOK(today) BY <2>2 DEF QuotaInv
    <3>2. row.requests = usage[today].requests /\ row.exists
          /\ row.requests <= ceiling /\ row.tokens <= ceiling
      BY <1>3, <2>2, <3>1 DEF WithinTokens, DayOK, UsageRow
    <3>3. admitted[today] \in SUBSET Requests BY <2>2 DEF QuotaInv, QuotaTypes
    <3> HIDE DEF row
    <3> QED BY <1>1, <2>4, <2>5, <3>1, <3>2, <3>3 DEF DayOK
  <2>8. ASSUME NEW d \in Days, d # today PROVE DayOK(d)'
    BY <1>1, <2>4, <2>5, <2>8 DEF QuotaInv, QuotaTypes, DayOK
  <2> QED BY <1>1, <2>6, <2>7, <2>8 DEF QuotaInv, Days
<1> QED BY <1>2, <1>3

(* A limit that is raised raises the ceiling, one that is lowered leaves   *)
(* it; a new day starts with no row.                                       *)
LEMMA ClockAndLimitKeep ==
  ASSUME QuotaInv, SetQuota \/ Midnight PROVE QuotaInv'
<1>1. /\ UNCHANGED <<usage, req, admitted>> /\ today' \in Days
      /\ limit' \in Nat /\ ceiling' \in Nat /\ limit' <= ceiling' /\ ceiling <= ceiling'
  <2>1. today \in Days /\ limit \in Nat /\ ceiling \in Nat /\ limit <= ceiling
        /\ Limits \subseteq Nat /\ LastDay \in Nat
    BY QuotaAssumption DEF QuotaInv, QuotaTypes
  <2>2. CASE SetQuota
    <3>1. limit' \in Nat /\ ceiling' = IF limit' > ceiling THEN limit' ELSE ceiling
      BY <2>1, <2>2 DEF SetQuota
    <3> QED BY <2>1, <2>2, <3>1 DEF SetQuota
  <2>3. CASE Midnight BY <2>1, <2>3 DEF Midnight, Days
  <2> QED BY <2>2, <2>3
<1>2. QuotaTypes' BY <1>1 DEF QuotaInv, QuotaTypes, Days
<1>3. ASSUME NEW d \in Days PROVE DayOK(d)'
  <2>1. usage[d] \in UsageRow /\ ceiling \in Nat /\ DayOK(d) BY DEF QuotaInv, QuotaTypes
  <2> QED BY <1>1, <2>1 DEF DayOK, BeforeCount, UsageRow
<1> QED BY <1>2, <1>3 DEF QuotaInv, Days

(* However many requests, midnights, failing writes and changes of the     *)
(* limit there are, in whatever order, no day's counters pass the highest  *)
(* limit that was in force, and the day's row counts each request it let   *)
(* through once (consume_request, consume_tokens).                         *)
THEOREM BudgetsAreKept == QuotaSpec => []DailyBudgetKept
<1>1. QuotaInv /\ [QuotaNext]_quotaVars => QuotaInv'
  <2> SUFFICES ASSUME QuotaInv, [QuotaNext]_quotaVars PROVE QuotaInv' OBVIOUS
  <2>1. CASE UNCHANGED quotaVars
    BY <2>1 DEF quotaVars, QuotaInv, QuotaTypes, DayOK, BeforeCount, Days
  <2> QED BY <2>1, ClockAndLimitKeep, BeginKeeps, CountKeeps, CountFailsKeeps, EndTurnKeeps,
             ChargeKeeps DEF QuotaNext
<1>2. QuotaInv => DailyBudgetKept BY DEF QuotaInv, DayOK, DailyBudgetKept
<1> QED BY <1>1, <1>2, QuotaInit_Inv, PTL DEF QuotaSpec

-----------------------------------------------------------------------------
(* The page. Inductive: what is queued or connected for a chat was sent    *)
(* from it, a stopped slot has no connection, and the poll of a stopped    *)
(* slot on screen is about the very reply that was cut there.              *)

PageFields ==
  {"view", "slot", "conn", "list", "get", "pending", "queue", "stopped", "poll"}
Items == [of : Messages, chat : Chats]
ListRows == [of : Messages, text : Nat, by : {"user", "assistant"}]
SlotRow == [status : {"idle", "streaming", "complete", "error", "stopped"},
            of : Messages \cup {None}, text : Nat]
GetRow == [at : {"none", "asked", "read"}, list : SUBSET ListRows, then : SUBSET {"clear", "poll"}]
PollRow == [at : {"none", "wait", "fetch"}, left : Int, of : Messages \cup {None}, text : Nat]
PageTurn == [chat : Chats \cup {None}, text : Nat,
             state : {"unsent", "sent", "draft", "ended", "settled", "refused"}]

(* A page whose queue and connections are for items of I.                  *)
PageShape(p, I) ==
  /\ DOMAIN p = PageFields /\ p.view \in Chats
  /\ p.slot \in [Chats -> SlotRow] /\ p.conn \in [Chats -> Messages \cup {None}]
  /\ p.list \in [Chats -> SUBSET ListRows] /\ p.get \in [Chats -> GetRow]
  /\ p.poll \in PollRow /\ p.queue \in Seq(I)
  /\ \A c \in Chats : p.conn[c] # None =>
       [of |-> p.conn[c], chat |-> c] \in I /\ p.slot[c].status # "stopped"

(* The poll is about the reply that was stopped on screen.                 *)
Synced(p) ==
  p.slot[p.view].status = "stopped" =>
    p.poll.of = p.slot[p.view].of /\ p.poll.text = p.slot[p.view].text
Rerun(was, now) ==
  was.view # now.view \/ was.slot[was.view].status # now.slot[now.view].status

(* What the effects of one rendering leave alone: the screen, the lists,   *)
(* the connections of the other chats; the slot on screen may be started.  *)
Calm(now, q, I) ==
  /\ PageShape(q, I) /\ q.view = now.view /\ q.list = now.list
  /\ \A c \in Chats : c # now.view => q.conn[c] = now.conn[c]
Started(now, q) ==
  q.slot[now.view] = now.slot[now.view] \/ q.slot[now.view].status = "streaming"

LEMMA SubmitCalm ==
  ASSUME NEW I, I \subseteq Items, NEW p, PageShape(p, I), NEW item \in I,
         item.chat = p.view, NEW rendered
  PROVE  LET q == Submit(p, item.chat, item.of, rendered) IN
         /\ Calm(p, q, I) /\ Started(p, q) /\ q.poll = p.poll
         /\ q.slot[p.view].status = "streaming"
<1> DEFINE c == p.view m == item.of
           begun == [Idle EXCEPT !.status = "streaming"]
           q == Submit(p, item.chat, item.of, rendered)
<1>1. c \in Chats /\ m \in Messages /\ [of |-> m, chat |-> c] \in I
  BY DEF PageShape, Items
<1>2. begun \in SlotRow /\ begun.status = "streaming" BY PageAssumption DEF Idle, SlotRow
<1>3. q = [p EXCEPT !.conn = [p.conn EXCEPT ![c] = m], !.slot = [p.slot EXCEPT ![c] = begun],
                    !.pending = [of |-> m, base |-> Cardinality(rendered)]]
  BY DEF Submit, Start
<1> HIDE DEF q, begun
<1>4. /\ DOMAIN q = PageFields /\ q.view = p.view /\ q.list = p.list /\ q.get = p.get
      /\ q.poll = p.poll /\ q.queue = p.queue
      /\ q.conn = [p.conn EXCEPT ![c] = m] /\ q.slot = [p.slot EXCEPT ![c] = begun]
  BY <1>3 DEF PageShape, PageFields
<1>5. PageShape(q, I) BY <1>1, <1>2, <1>4, PageAssumption DEF PageShape
<1>6. q.slot[p.view].status = "streaming" BY <1>1, <1>2, <1>4 DEF PageShape
<1> QED BY <1>1, <1>4, <1>5, <1>6 DEF Calm, Started, PageShape, q

LEMMA DrainCalm ==
  ASSUME NEW I, I \subseteq Items, NEW was, NEW now, PageShape(now, I)
  PROVE  LET q == Drain(was, now, now) IN
         Calm(now, q, I) /\ Started(now, q) /\ q.poll = now.poll
<1> DEFINE q == Drain(was, now, now)
           head == Head(now.queue)
           rest == [now EXCEPT !.queue = Tail(now.queue)]
           shorter == [now EXCEPT !.stopped = None]
<1>1. Calm(now, now, I) /\ Started(now, now) BY DEF Calm, Started
<1>2. CASE q = now BY <1>1, <1>2
<1>3. CASE q = shorter
  <2>1. /\ DOMAIN shorter = PageFields /\ shorter.view = now.view /\ shorter.list = now.list
        /\ shorter.get = now.get /\ shorter.poll = now.poll /\ shorter.queue = now.queue
        /\ shorter.conn = now.conn /\ shorter.slot = now.slot
    BY DEF PageShape, PageFields
  <2> QED BY <1>3, <2>1 DEF Calm, Started, PageShape
<1>4. CASE /\ q = Submit(rest, head.chat, head.of, Shown(now))
           /\ now.queue # <<>> /\ head.chat = now.view
  <2>1. now.queue \in Seq(I) BY DEF PageShape
  <2>2. head \in I /\ Tail(now.queue) \in Seq(I) BY <1>4, <2>1
  <2>3. /\ DOMAIN rest = PageFields /\ rest.view = now.view /\ rest.list = now.list
        /\ rest.get = now.get /\ rest.poll = now.poll /\ rest.queue = Tail(now.queue)
        /\ rest.conn = now.conn /\ rest.slot = now.slot
    BY DEF PageShape, PageFields
  <2>4. PageShape(rest, I) BY <2>2, <2>3 DEF PageShape
  <2>5. head.chat = rest.view BY <1>4, <2>3
  <2>6. LET s == Submit(rest, head.chat, head.of, Shown(now)) IN
        Calm(rest, s, I) /\ Started(rest, s) /\ s.poll = rest.poll
    <3> HIDE DEF head, rest
    <3> QED BY SMTT(20), <2>2, <2>4, <2>5, SubmitCalm
  <2>7. Calm(rest, q, I) /\ Started(rest, q) /\ q.poll = rest.poll BY <1>4, <2>6
  <2> QED BY <2>3, <2>7 DEF Calm, Started
<1>5. q = now \/ q = shorter \/
      /\ q = Submit(rest, head.chat, head.of, Shown(now))
      /\ now.queue # <<>> /\ head.chat = now.view
  BY DEF Drain
<1> QED BY <1>2, <1>3, <1>4, <1>5

LEMMA CompleteCalm ==
  ASSUME NEW I, NEW was, NEW now, NEW p, now.view \in Chats, Calm(now, p, I), Started(now, p)
  PROVE  LET q == Complete(was, now, p) IN
         Calm(now, q, I) /\ Started(now, q) /\ q.poll = p.poll
<1> DEFINE c == now.view
           g == [at |-> "asked", list |-> {}, then |-> p.get[c].then \cup {"clear"}]
           q == [p EXCEPT !.get = [p.get EXCEPT ![c] = g]]
<1>1. Complete(was, now, p) \in {p, q} BY DEF Complete, Refetch
<1>2. p.get \in [Chats -> GetRow] BY DEF Calm, PageShape
<1>3. g \in GetRow BY <1>2 DEF GetRow
<1> HIDE DEF g
<1>4. /\ DOMAIN q = PageFields /\ q.view = p.view /\ q.list = p.list
      /\ q.get = [p.get EXCEPT ![c] = g] /\ q.poll = p.poll /\ q.queue = p.queue
      /\ q.conn = p.conn /\ q.slot = p.slot
  BY DEF Calm, PageShape, PageFields
<1>5. Calm(now, q, I) /\ Started(now, q) /\ q.poll = p.poll
  BY <1>2, <1>3, <1>4 DEF Calm, Started, PageShape
<1> QED BY <1>1, <1>5

LEMMA ReconcileCalm ==
  ASSUME NEW I, NEW was, NEW now, NEW p, PageShape(now, I), Calm(now, p, I), Started(now, p)
  PROVE  LET q == Reconcile(was, now, p) IN
         /\ Calm(now, q, I) /\ Started(now, q)
         /\ ~Rerun(was, now) => q.poll = p.poll
         /\ Rerun(was, now) /\ now.slot[now.view].status = "stopped" =>
              q.poll.of = now.slot[now.view].of /\ q.poll.text = now.slot[now.view].text
<1> DEFINE slot == now.slot[now.view]
           gets == [c \in Chats |-> [p.get[c] EXCEPT !.then = p.get[c].then \ {"poll"}]]
           cleaned == [p EXCEPT !.poll = NoPoll, !.get = gets]
           start == [at |-> "wait", left |-> MaxPolls, of |-> slot.of, text |-> slot.text]
           polling == [cleaned EXCEPT !.poll = start]
           q == Reconcile(was, now, p)
<1>1. q = IF ~Rerun(was, now) THEN p ELSE IF slot.status # "stopped" THEN cleaned ELSE polling
  BY DEF Reconcile, Rerun
<1> HIDE DEF q
<1>2. p.get \in [Chats -> GetRow] BY DEF Calm, PageShape
<1>3. gets \in [Chats -> GetRow] BY <1>2 DEF GetRow
<1>4. NoPoll \in PollRow BY DEF NoPoll, PollRow
<1>5. start \in PollRow /\ start.of = slot.of /\ start.text = slot.text
  BY PageAssumption DEF PageShape, SlotRow, PollRow
<1> HIDE DEF gets, start
<1>6. /\ DOMAIN cleaned = PageFields /\ cleaned.view = p.view /\ cleaned.list = p.list
      /\ cleaned.get = gets /\ cleaned.poll = NoPoll /\ cleaned.queue = p.queue
      /\ cleaned.conn = p.conn /\ cleaned.slot = p.slot
  BY DEF Calm, PageShape, PageFields
<1> HIDE DEF cleaned
<1>7. /\ DOMAIN polling = PageFields /\ polling.view = p.view /\ polling.list = p.list
      /\ polling.get = gets /\ polling.poll = start /\ polling.queue = p.queue
      /\ polling.conn = p.conn /\ polling.slot = p.slot
  BY <1>6 DEF PageFields
<1> HIDE DEF polling
<1>8. Calm(now, cleaned, I) /\ Started(now, cleaned)
  BY <1>3, <1>4, <1>6 DEF Calm, Started, PageShape
<1>9. Calm(now, polling, I) /\ Started(now, polling)
  BY <1>3, <1>5, <1>7 DEF Calm, Started, PageShape
<1> QED BY <1>1, <1>5, <1>7, <1>8, <1>9 DEF q

LEMMA ZombieCalm ==
  ASSUME NEW I, NEW was, NEW now, NEW p, PageShape(now, I), Calm(now, p, I)
  PROVE  LET q == Zombie(was, now, p) IN
         /\ Calm(now, q, I) /\ q.poll = p.poll
         /\ q.slot[now.view] \in {p.slot[now.view], Idle}
         /\ was.view = now.view => q = p
<1> DEFINE q == [p EXCEPT !.slot = [p.slot EXCEPT ![now.view] = Idle]]
<1>1. Zombie(was, now, p) \in {p, q} /\ (was.view = now.view => Zombie(was, now, p) = p)
  BY DEF Zombie, Reset
<1>2. Idle \in SlotRow /\ Idle.status = "idle" BY DEF Idle, SlotRow
<1>3. /\ DOMAIN q = PageFields /\ q.view = p.view /\ q.list = p.list
      /\ q.get = p.get /\ q.poll = p.poll /\ q.queue = p.queue
      /\ q.conn = p.conn /\ q.slot = [p.slot EXCEPT ![now.view] = Idle]
  BY DEF Calm, PageShape, PageFields
<1>4. Calm(now, q, I) /\ q.poll = p.poll /\ q.slot[now.view] = Idle
  BY <1>2, <1>3 DEF Calm, PageShape
<1> QED BY <1>1, <1>4

LEMMA BubbleCalm ==
  ASSUME NEW I, NEW was, NEW now, NEW p, Calm(now, p, I)
  PROVE  LET q == Forget(was, now, Grown(was, now, p)) IN
         Calm(now, q, I) /\ q.poll = p.poll /\ q.slot = p.slot
<1> DEFINE q == [p EXCEPT !.pending = NoPending] r == [q EXCEPT !.pending = NoPending]
<1>1. Forget(was, now, Grown(was, now, p)) \in {p, q, r} BY DEF Forget, Grown
<1>2. /\ DOMAIN q = PageFields /\ q.view = p.view /\ q.list = p.list
      /\ q.get = p.get /\ q.poll = p.poll /\ q.queue = p.queue
      /\ q.conn = p.conn /\ q.slot = p.slot
  BY DEF Calm, PageShape, PageFields
<1>3. /\ DOMAIN r = PageFields /\ r.view = p.view /\ r.list = p.list
      /\ r.get = p.get /\ r.poll = p.poll /\ r.queue = p.queue
      /\ r.conn = p.conn /\ r.slot = p.slot
  <2> HIDE DEF q
  <2> QED BY <1>2 DEF PageFields
<1> HIDE DEF q, r
<1>4. Calm(now, q, I) BY <1>2 DEF Calm, PageShape
<1>5. Calm(now, r, I) BY <1>3 DEF Calm, PageShape
<1> QED BY <1>1, <1>2, <1>3, <1>4, <1>5

(* One rendering: a stopped slot on screen was there before, and its poll  *)
(* is about it; it is not reset unless the chat was switched.              *)
LEMMA EffectsCalm ==
  ASSUME NEW I, I \subseteq Items, NEW was, NEW now, PageShape(now, I),
         Synced(now) \/ Rerun(was, now)
  PROVE  LET q == Effects(was, now) IN
         /\ Calm(now, q, I) /\ Synced(q)
         /\ was.view = now.view => Started(now, q)
<1>1. CASE was = now BY <1>1 DEF Effects, Rerun, Calm, Started
<1>2. CASE was # now
  <2> DEFINE d == Drain(was, now, now)
             a == Complete(was, now, d)
             r == Reconcile(was, now, a)
             z == Zombie(was, now, r)
             q == Forget(was, now, Grown(was, now, z))
             v == now.view
  <2>1. now.view \in Chats /\ Idle.status = "idle" BY DEF PageShape, Idle
  <2>2. Effects(was, now) = q BY <1>2 DEF Effects
  <2>3. Calm(now, d, I) /\ Started(now, d) /\ d.poll = now.poll BY DrainCalm
  <2> HIDE DEF d
  <2>4. Calm(now, a, I) /\ Started(now, a) /\ a.poll = now.poll BY <2>1, <2>3, CompleteCalm
  <2> HIDE DEF a
  <2>5. /\ Calm(now, r, I) /\ Started(now, r)
        /\ ~Rerun(was, now) => r.poll = now.poll
        /\ Rerun(was, now) /\ now.slot[v].status = "stopped" =>
             r.poll.of = now.slot[v].of /\ r.poll.text = now.slot[v].text
    BY <2>4, ReconcileCalm
  <2> HIDE DEF r
  <2>6. /\ Calm(now, z, I) /\ z.poll = r.poll /\ z.slot[v] \in {r.slot[v], Idle}
        /\ was.view = v => z = r
    BY <2>5, ZombieCalm
  <2> HIDE DEF z
  <2>7. Calm(now, q, I) /\ q.poll = z.poll /\ q.slot = z.slot BY <2>6, BubbleCalm
  <2> HIDE DEF q
  <2>8. was.view = v => Started(now, q) BY <2>5, <2>6, <2>7 DEF Started
  <2>9. Synced(q)
    <3> SUFFICES ASSUME q.slot[v].status = "stopped"
                 PROVE  q.poll.of = q.slot[v].of /\ q.poll.text = q.slot[v].text
      BY <2>7 DEF Synced, Calm
    <3>1. q.slot[v] = now.slot[v] BY <2>1, <2>5, <2>6, <2>7 DEF Started
    <3>2. CASE Rerun(was, now) BY <2>5, <2>6, <2>7, <3>1, <3>2
    <3>3. CASE ~Rerun(was, now) BY <2>5, <2>6, <2>7, <3>1, <3>3 DEF Synced
    <3> QED BY <3>2, <3>3
  <2> QED BY <2>2, <2>7, <2>8, <2>9
<1> QED BY <1>1, <1>2

(* An event and its renderings, as far as they matter here.                *)
EventRuns(p, I) ==
  /\ PageShape(page', I) /\ Synced(page')
  /\ page'.view = p.view /\ page'.list = p.list
  /\ \A c \in Chats : c # p.view => page'.conn[c] = p.conn[c]
  /\ page.view = p.view /\ page'.slot[p.view].status = "idle" => p.slot[p.view].status = "idle"

LEMMA EventCalm ==
  ASSUME NEW I, I \subseteq Items, NEW p, PageShape(p, I), Synced(p) \/ Rerun(page, p), Event(p)
  PROVE  EventRuns(p, I)
<1>1. PICK second \in {Effects(page, p)} : \E third \in {Effects(p, second)} :
        \E fourth \in {Effects(second, third)} : page' = fourth
  BY DEF Event
<1>2. PICK third \in {Effects(p, second)} : page' = Effects(second, third) BY <1>1
<1>3. second = Effects(page, p) /\ third = Effects(p, second) BY <1>1, <1>2
<1>4. Calm(p, second, I) /\ Synced(second) /\ (page.view = p.view => Started(p, second))
  BY <1>3, EffectsCalm
<1>5. PageShape(second, I) /\ second.view = p.view BY <1>4 DEF Calm
<1>6. Calm(second, third, I) /\ Synced(third) /\ Started(second, third)
  BY <1>3, <1>4, <1>5, EffectsCalm
<1>7. PageShape(third, I) /\ third.view = p.view BY <1>5, <1>6 DEF Calm
<1>8. Calm(third, page', I) /\ Synced(page') /\ Started(third, page')
  BY <1>2, <1>5, <1>6, <1>7, EffectsCalm
<1> QED BY <1>4, <1>5, <1>6, <1>7, <1>8 DEF EventRuns, Calm, Started

Assigned == {i \in Items : turns[i.of].chat = i.chat}

PageTurns ==
  turns \in [Messages -> PageTurn]
  /\ \A m \in Messages : turns[m].state = "unsent" => turns[m].chat = None
PageInv == PageTurns /\ PageShape(page, Assigned) /\ Synced(page)

GoesOn ==
  \A c \in Chats : c # page'.view /\ page.conn[c] # None => page'.conn[c] \in {page.conn[c], None}
KeepsText(p) ==
  LET slot == page.slot[page.view] IN
  p.view = page.view /\ slot.status = "stopped" /\ p.slot[page.view].status = "idle"
    => \A row \in ReplyTo(slot.of, Shown(p)) : row.text >= slot.text

(* What an event may make of the page before its effects run.              *)
Ready(p) ==
  /\ PageShape(p, Assigned') /\ (Synced(p) \/ Rerun(page, p)) /\ KeepsText(p)
  /\ \A c \in Chats : c # p.view => p.conn[c] \in {page.conn[c], None}

(* ... mostly it does not take a stopped slot off the screen.              *)
Quiet(p) ==
  /\ PageShape(p, Assigned') /\ p.view = page.view
  /\ p.poll.of = page.poll.of /\ p.poll.text = page.poll.text
  /\ \/ p.slot[page.view] = page.slot[page.view]
     \/ page.slot[page.view].status # "stopped" \/ p.slot[page.view].status = "streaming"
  /\ \A c \in Chats : c # page.view => p.conn[c] \in {page.conn[c], None}

LEMMA ReadyRuns ==
  ASSUME PageInv, PageTurns', NEW p, Ready(p), Event(p)
  PROVE  PageInv' /\ GoesOn /\ KeepsText(page')
<1>1. Assigned' \subseteq Items BY DEF Assigned
<1>2. PageShape(p, Assigned') /\ (Synced(p) \/ Rerun(page, p)) BY DEF Ready
<1>3. EventRuns(p, Assigned') BY <1>1, <1>2, EventCalm
<1>4. PageInv' BY <1>3 DEF EventRuns, PageInv
<1>5. GoesOn BY <1>3 DEF EventRuns, Ready, GoesOn
<1>6. KeepsText(page') BY <1>3 DEF EventRuns, Ready, KeepsText, Shown
<1> QED BY <1>4, <1>5, <1>6

LEMMA QuietIsReady == ASSUME PageInv, NEW p, Quiet(p) PROVE Ready(p)
<1>1. Synced(page) BY DEF PageInv
<1>2. Synced(p) \/ Rerun(page, p) BY <1>1 DEF Quiet, Synced, Rerun
<1>3. KeepsText(p) BY DEF Quiet, KeepsText
<1> QED BY <1>2, <1>3 DEF Quiet, Ready

LEMMA ShapeGrows ==
  ASSUME NEW I, NEW J, I \subseteq J, NEW p, PageShape(p, I) PROVE PageShape(p, J)
<1>1. p.queue \in Seq(J)
  <2>1. p.queue \in Seq(I) BY DEF PageShape
  <2>2. \A i \in 1 .. Len(p.queue) : p.queue[i] \in J BY <2>1
  <2> QED BY <2>1, <2>2
<1> QED BY <1>1 DEF PageShape

(* A message keeps its chat: what was assigned stays so.                   *)
LEMMA TurnsMove ==
  ASSUME PageInv, NEW m \in Messages, NEW tr \in PageTurn, tr.state # "unsent",
         tr.chat = turns[m].chat \/ turns[m].chat = None, turns' = [turns EXCEPT ![m] = tr]
  PROVE  PageTurns' /\ PageShape(page, Assigned')
<1>1. PageTurns' BY DEF PageInv, PageTurns
<1>2. Assigned \subseteq Assigned'
  BY PageAssumption DEF Assigned, Items, PageInv, PageTurns
<1> QED BY <1>1, <1>2, ShapeGrows DEF PageInv

LEMMA TurnsStay == ASSUME PageInv, UNCHANGED turns PROVE PageTurns' /\ PageShape(page, Assigned')
<1>1. Assigned' = Assigned BY DEF Assigned
<1> QED BY <1>1 DEF PageInv, PageTurns

LEMMA RemoveAtSeq ==
  ASSUME NEW S, NEW s \in Seq(S), NEW i \in DOMAIN s PROVE RemoveAt(s, i) \in Seq(S)
<1>1. i \in 1 .. Len(s) OBVIOUS
<1>2. SubSeq(s, 1, i - 1) \in Seq(S) /\ SubSeq(s, i + 1, Len(s)) \in Seq(S) BY <1>1
<1> QED BY <1>2 DEF RemoveAt

PageStep == PageInv' /\ GoesOn /\ KeepsText(page')

LEMMA SendKeeps == ASSUME PageInv, NEW m \in Messages, Send(m) PROVE PageStep
<1> DEFINE v == page.view item == [of |-> m, chat |-> v]
           tr == [turns[m] EXCEPT !.chat = v, !.state = "sent"]
           queued == [page EXCEPT !.queue = Append(page.queue, item)]
           p == IF Streaming(page) THEN queued ELSE Submit(page, v, m, Shown(page))
<1>1. v \in Chats /\ turns \in [Messages -> PageTurn] /\ turns[m].chat = None
  BY DEF PageInv, PageTurns, PageShape, Send
<1>2. tr \in PageTurn /\ tr.state = "sent" /\ tr.chat = v BY <1>1 DEF PageTurn
<1>3. turns' = [turns EXCEPT ![m] = tr] /\ Event(p) BY DEF Send
<1>4. PageTurns' /\ PageShape(page, Assigned')
  <2> HIDE DEF tr
  <2> QED BY <1>1, <1>2, <1>3, TurnsMove
<1>5. item \in Assigned' /\ item.of = m /\ item.chat = v
  <2> HIDE DEF tr
  <2> QED BY <1>1, <1>2, <1>3 DEF Assigned, Items
<1>6. Assigned' \subseteq Items BY DEF Assigned
<1>7. Quiet(queued)
  <2>1. page.queue \in Seq(Assigned') BY <1>4 DEF PageShape
  <2>2. Append(page.queue, item) \in Seq(Assigned') BY <1>5, <2>1
  <2>3. /\ DOMAIN queued = PageFields /\ queued.view = page.view /\ queued.list = page.list
        /\ queued.get = page.get /\ queued.poll = page.poll
        /\ queued.queue = Append(page.queue, item)
        /\ queued.conn = page.conn /\ queued.slot = page.slot
    BY <1>4 DEF PageShape, PageFields
  <2> HIDE DEF queued, item
  <2>4. PageShape(queued, Assigned') BY <1>4, <2>2, <2>3 DEF PageShape
  <2> QED BY <2>3, <2>4 DEF Quiet
<1>8. Quiet(Submit(page, v, m, Shown(page)))
  <2> HIDE DEF item
  <2>1. LET q == Submit(page, item.chat, item.of, Shown(page)) IN
        /\ Calm(page, q, Assigned') /\ q.poll = page.poll
        /\ q.slot[page.view].status = "streaming"
    BY <1>4, <1>5, <1>6, SubmitCalm
  <2> QED BY <1>5, <2>1 DEF Calm, Quiet
<1>9. Quiet(p) BY <1>7, <1>8
<1> QED BY <1>3, <1>4, <1>9, QuietIsReady, ReadyRuns DEF PageStep

(* A step that replaces the slot and the connection of one chat.           *)
SlotStep(p, c, m, to) ==
  /\ DOMAIN p = PageFields /\ p.view = page.view /\ p.list = page.list
  /\ p.get = page.get /\ p.poll = page.poll /\ p.queue = page.queue
  /\ p.conn = [page.conn EXCEPT ![c] = m] /\ p.slot = [page.slot EXCEPT ![c] = to]

LEMMA SlotQuiet ==
  ASSUME PageInv, PageShape(page, Assigned'), NEW c \in Chats, NEW to \in SlotRow,
         NEW m \in {page.conn[c], None}, NEW p, SlotStep(p, c, m, to),
         to.status # "stopped" \/ m = None,
         c # page.view \/ page.slot[c].status # "stopped"
  PROVE  Quiet(p)
<1>1. PageShape(p, Assigned') BY PageAssumption DEF PageShape, SlotStep
<1> QED BY <1>1 DEF Quiet, PageShape, SlotStep

LEMMA EndsQuiet ==
  ASSUME PageInv, PageShape(page, Assigned'), NEW c \in Chats, NEW status \in {"complete", "error"},
         page.conn[c] # None
  PROVE  Quiet(Ends(c, status))
<1> DEFINE to == [page.slot[c] EXCEPT !.status = status] p == Ends(c, status)
<1>1. page.slot \in [Chats -> SlotRow] /\ page.slot[c].status # "stopped" BY DEF PageShape
<1>2. to \in SlotRow /\ to.status = status BY <1>1 DEF SlotRow
<1>3. SlotStep(p, c, None, to) BY DEF Ends, PageShape, PageFields, SlotStep
<1> HIDE DEF to, p
<1> QED BY <1>1, <1>2, <1>3, SlotQuiet DEF p

LEMMA StopKeeps == ASSUME PageInv, Stop PROVE PageStep
<1> DEFINE v == page.view
           to == [page.slot[v] EXCEPT
                    !.status = IF page.slot[v].text > 0 THEN "stopped" ELSE "idle"]
           p == StopStream(page, v)
           q == [p EXCEPT !.stopped = v]
<1>1. PageTurns' /\ PageShape(page, Assigned') BY TurnsStay DEF Stop
<1>2. v \in Chats /\ page.slot \in [Chats -> SlotRow] BY <1>1 DEF PageShape
<1>3. page.slot[v].status # "stopped" BY DEF Stop, Streaming
<1>4. to \in SlotRow BY <1>2 DEF SlotRow
<1>5. SlotStep(p, v, None, to) BY <1>1 DEF StopStream, PageShape, PageFields, SlotStep
<1>6. Quiet(p)
  <2> HIDE DEF p, to
  <2> QED BY <1>1, <1>2, <1>3, <1>4, <1>5, SlotQuiet
<1>7. Quiet(q)
  <2> HIDE DEF p
  <2>1. /\ DOMAIN q = PageFields /\ q.view = p.view /\ q.list = p.list
        /\ q.get = p.get /\ q.poll = p.poll /\ q.queue = p.queue
        /\ q.conn = p.conn /\ q.slot = p.slot
    BY <1>6 DEF Quiet, PageShape, PageFields
  <2> HIDE DEF q
  <2>2. PageShape(q, Assigned') BY <1>6, <2>1 DEF Quiet, PageShape
  <2> QED BY <1>6, <2>1, <2>2 DEF Quiet
<1>8. Event(p) \/ Event(q) BY DEF Stop
<1> HIDE DEF p, q
<1> QED BY <1>1, <1>6, <1>7, <1>8, QuietIsReady, ReadyRuns DEF PageStep

LEMMA UnqueueQuiet ==
  ASSUME PageInv, PageShape(page, Assigned'), NEW i \in DOMAIN page.queue
  PROVE  LET p == [page EXCEPT !.queue = RemoveAt(page.queue, i)] IN
         /\ Quiet(p) /\ p.list = page.list /\ p.conn = page.conn /\ p.slot = page.slot
         /\ p.poll = page.poll
<1> DEFINE p == [page EXCEPT !.queue = RemoveAt(page.queue, i)]
<1>1. page.queue \in Seq(Assigned') BY DEF PageShape
<1>2. RemoveAt(page.queue, i) \in Seq(Assigned') BY <1>1, RemoveAtSeq
<1>3. /\ DOMAIN p = PageFields /\ p.view = page.view /\ p.list = page.list
      /\ p.get = page.get /\ p.poll = page.poll /\ p.queue = RemoveAt(page.queue, i)
      /\ p.conn = page.conn /\ p.slot = page.slot
  BY DEF PageShape, PageFields
<1> HIDE DEF p
<1>4. PageShape(p, Assigned') BY <1>2, <1>3 DEF PageShape
<1>5. Quiet(p) BY <1>3, <1>4 DEF Quiet
<1> QED BY <1>3, <1>5 DEF p

LEMMA SendNowKeeps == ASSUME PageInv, NEW i \in DOMAIN page.queue, SendNow(i) PROVE PageStep
<1> DEFINE item == page.queue[i]
           p == [page EXCEPT !.queue = RemoveAt(page.queue, i)]
           list == Shown(page)
           q == Submit(p, item.chat, item.of, list)
<1>1. PageTurns' /\ PageShape(page, Assigned') BY TurnsStay DEF SendNow
<1>2. Assigned' \subseteq Items BY DEF Assigned
<1>3. item \in Assigned'
  <2>1. page.queue \in Seq(Assigned') BY <1>1 DEF PageShape
  <2> QED BY <2>1
<1>4. item.chat = page.view /\ Event(q) BY DEF SendNow
<1>5. /\ Quiet(p) /\ p.list = page.list /\ p.conn = page.conn /\ p.slot = page.slot
      /\ p.poll = page.poll
  BY <1>1, UnqueueQuiet
<1> HIDE DEF item, list, p
<1>6. Calm(p, q, Assigned') /\ q.poll = p.poll /\ q.slot[p.view].status = "streaming"
  <2>1. PageShape(p, Assigned') /\ item.chat = p.view BY <1>4, <1>5 DEF Quiet
  <2> HIDE DEF q
  <2> QED BY <1>2, <1>3, <2>1, SubmitCalm DEF q
<1>7. Quiet(q) BY <1>5, <1>6 DEF Quiet, Calm
<1> QED BY <1>1, <1>4, <1>7, QuietIsReady, ReadyRuns DEF PageStep

LEMMA DiscardKeeps == ASSUME PageInv, NEW i \in DOMAIN page.queue, Discard(i) PROVE PageStep
<1>1. PageTurns' /\ PageShape(page, Assigned') BY TurnsStay DEF Discard
<1>2. Quiet([page EXCEPT !.queue = RemoveAt(page.queue, i)]) BY <1>1, UnqueueQuiet
<1>3. Event([page EXCEPT !.queue = RemoveAt(page.queue, i)]) BY DEF Discard
<1> QED BY <1>1, <1>2, <1>3, QuietIsReady, ReadyRuns DEF PageStep

LEMMA SwitchKeeps == ASSUME PageInv, NEW c \in Chats, Switch(c) PROVE PageStep
<1> DEFINE p == [page EXCEPT !.view = c]
<1>1. PageTurns' /\ PageShape(page, Assigned') BY TurnsStay DEF Switch
<1>2. c # page.view /\ Event(p) BY DEF Switch
<1>3. /\ DOMAIN p = PageFields /\ p.view = c /\ p.list = page.list
      /\ p.get = page.get /\ p.poll = page.poll /\ p.queue = page.queue
      /\ p.conn = page.conn /\ p.slot = page.slot
  BY <1>1 DEF PageShape, PageFields
<1> HIDE DEF p
<1>4. PageShape(p, Assigned') BY <1>1, <1>3 DEF PageShape
<1>5. Ready(p) BY <1>2, <1>3, <1>4 DEF Ready, Rerun, KeepsText
<1> QED BY <1>1, <1>2, <1>5, ReadyRuns DEF PageStep

(* Whose turn it is: a message with a connection has it in its own chat.   *)
LEMMA Attends ==
  ASSUME PageInv, NEW m \in Messages, Attended(m)
  PROVE  turns[m].chat \in Chats /\ page.conn[turns[m].chat] = m /\ m # None
<1>1. PICK c \in Chats : page.conn[c] = m BY DEF Attended
<1>2. m # None BY PageAssumption
<1>3. [of |-> m, chat |-> c] \in Assigned BY <1>1, <1>2 DEF PageInv, PageShape
<1>4. turns[m].chat = c BY <1>3 DEF Assigned
<1> QED BY <1>1, <1>2, <1>4

LEMMA StateMoves ==
  ASSUME PageInv, NEW m \in Messages, NEW state \in {"draft", "ended", "settled", "refused"},
         turns' = [turns EXCEPT ![m].state = state]
  PROVE  PageTurns' /\ PageShape(page, Assigned')
<1> DEFINE tr == [turns[m] EXCEPT !.state = state]
<1>1. turns \in [Messages -> PageTurn] BY DEF PageInv, PageTurns
<1>2. tr \in PageTurn /\ tr.state = state /\ tr.chat = turns[m].chat BY <1>1 DEF PageTurn
<1>3. turns' = [turns EXCEPT ![m] = tr] OBVIOUS
<1> HIDE DEF tr
<1> QED BY <1>2, <1>3, TurnsMove

LEMMA ShownAsIs == ASSUME PageInv, PageShape(page, Assigned') PROVE Quiet(page)
BY DEF Quiet

LEMMA AdmitKeeps == ASSUME PageInv, NEW m \in Messages, Admit(m) PROVE PageStep
<1> DEFINE c == turns[m].chat
           to == [page.slot[c] EXCEPT !.of = m]
           p == [page EXCEPT !.slot[c].of = m]
<1>1. PICK state \in {"draft", "refused"} : turns' = [turns EXCEPT ![m].state = state]
  BY DEF Admit
<1>2. PageTurns' /\ PageShape(page, Assigned') BY <1>1, StateMoves
<1>3. \/ Event(page)
      \/ Attended(m) /\ Event(p)
      \/ Attended(m) /\ Event(Ends(c, "error"))
  BY DEF Admit
<1>4. ASSUME Attended(m) PROVE Quiet(p)
  <2>1. c \in Chats /\ page.conn[c] = m /\ m # None BY <1>4, Attends
  <2>2. page.slot \in [Chats -> SlotRow] /\ page.slot[c].status # "stopped"
        /\ page.conn \in [Chats -> Messages \cup {None}]
    BY <2>1 DEF PageInv, PageShape
  <2>3. to \in SlotRow /\ to.status # "stopped" BY <2>1, <2>2 DEF SlotRow
  <2>4. page.conn = [page.conn EXCEPT ![c] = m] BY <2>1, <2>2
  <2>5. /\ DOMAIN p = PageFields /\ p.view = page.view /\ p.list = page.list
        /\ p.get = page.get /\ p.poll = page.poll /\ p.queue = page.queue
        /\ p.conn = page.conn /\ p.slot = [page.slot EXCEPT ![c] = to]
    BY <1>2 DEF PageShape, PageFields
  <2>6. SlotStep(p, c, m, to) BY <2>4, <2>5 DEF SlotStep
  <2> HIDE DEF p, to
  <2> QED BY <1>2, <2>1, <2>2, <2>3, <2>6, SlotQuiet
<1>5. ASSUME Attended(m) PROVE Quiet(Ends(c, "error")) BY <1>2, <1>5, Attends, EndsQuiet
<1> HIDE DEF p
<1> QED BY <1>2, <1>3, <1>4, <1>5, ShownAsIs, QuietIsReady, ReadyRuns DEF PageStep

LEMMA DeltaKeeps == ASSUME PageInv, NEW m \in Messages, Delta(m) PROVE PageStep
<1> DEFINE c == turns[m].chat
           tr == [turns[m] EXCEPT !.text = turns[m].text + 1]
           to == [page.slot[c] EXCEPT !.text = page.slot[c].text + 1]
           p == [page EXCEPT !.slot[c].text = @ + 1]
<1>1. turns \in [Messages -> PageTurn] BY DEF PageInv, PageTurns
<1>2. turns[m].text \in Nat BY <1>1 DEF PageTurn
<1>3. tr \in PageTurn /\ tr.state # "unsent" /\ tr.chat = turns[m].chat
  BY <1>1, <1>2 DEF Delta, PageTurn
<1>4. PageTurns' /\ PageShape(page, Assigned')
  <2>1. turns' = [turns EXCEPT ![m] = tr] BY DEF Delta
  <2> HIDE DEF tr
  <2> QED BY <1>3, <2>1, TurnsMove
<1>5. c \in Chats /\ page.conn[c] = m /\ m # None BY Attends DEF Delta
<1>6. /\ page.slot \in [Chats -> SlotRow] /\ page.slot[c].status # "stopped"
      /\ page.conn \in [Chats -> Messages \cup {None}]
  BY <1>5 DEF PageInv, PageShape
<1>7. to \in SlotRow /\ to.status # "stopped" BY <1>5, <1>6 DEF SlotRow
<1>8. SlotStep(p, c, m, to)
  <2>1. page.conn = [page.conn EXCEPT ![c] = m] BY <1>5, <1>6
  <2>2. /\ DOMAIN p = PageFields /\ p.view = page.view /\ p.list = page.list
        /\ p.get = page.get /\ p.poll = page.poll /\ p.queue = page.queue
        /\ p.conn = page.conn /\ p.slot = [page.slot EXCEPT ![c] = to]
    BY <1>4 DEF PageShape, PageFields
  <2> QED BY <2>1, <2>2 DEF SlotStep
<1>9. Event(p) BY DEF Delta
<1> HIDE DEF p, to
<1>10. Quiet(p) BY <1>4, <1>5, <1>6, <1>7, <1>8, SlotQuiet
<1> QED BY <1>4, <1>9, <1>10, QuietIsReady, ReadyRuns DEF PageStep

LEMMA TurnEndsKeep ==
  ASSUME PageInv, NEW m \in Messages, ChatEnd(m) \/ StreamBreaks(m) PROVE PageStep
<1> DEFINE c == turns[m].chat
<1>1. PICK status \in {"complete", "error"} : Event(Ends(c, status)) BY DEF ChatEnd, StreamBreaks
<1>2. PageTurns' /\ PageShape(page, Assigned') BY TurnsStay, StateMoves DEF ChatEnd, StreamBreaks
<1>3. c \in Chats /\ page.conn[c] = m /\ m # None BY Attends DEF ChatEnd, StreamBreaks
<1>4. Quiet(Ends(c, status)) BY <1>2, <1>3, EndsQuiet
<1> QED BY <1>1, <1>2, <1>4, QuietIsReady, ReadyRuns DEF PageStep

LEMMA StillKeeps == ASSUME PageInv, PageTurns', PageShape(page, Assigned'), page' = page PROVE PageStep
BY DEF PageStep, PageInv, GoesOn, KeepsText

LEMMA SettleRowKeeps == ASSUME PageInv, NEW m \in Messages, SettleRow(m) PROVE PageStep
<1>1. turns \in [Messages -> PageTurn] /\ turns[m].text \in Nat BY DEF PageInv, PageTurns, PageTurn
<1>2. PICK text \in 0 .. turns[m].text : turns' = [turns EXCEPT ![m].state = "settled", ![m].text = text]
  <2> DEFINE cut == turns[m].state = "draft" \/ page.slot[turns[m].chat].of # m
             left == IF cut THEN 0 .. turns[m].text ELSE {turns[m].text}
  <2>1. \E text \in left : turns' = [turns EXCEPT ![m].state = "settled", ![m].text = text]
    BY DEF SettleRow
  <2>2. left \subseteq 0 .. turns[m].text BY <1>1
  <2> HIDE DEF left
  <2> QED BY <2>1, <2>2
<1> DEFINE tr == [turns[m] EXCEPT !.state = "settled", !.text = text]
<1>3. tr \in PageTurn /\ tr.state # "unsent" /\ tr.chat = turns[m].chat
  <2>1. turns[m] \in PageTurn /\ text \in Nat BY <1>1, <1>2
  <2> QED BY <2>1 DEF PageTurn
<1>4. PageTurns' /\ PageShape(page, Assigned')
  <2>1. turns' = [turns EXCEPT ![m] = tr] BY <1>1, <1>2
  <2> HIDE DEF tr
  <2> QED BY <1>3, <2>1, TurnsMove
<1> QED BY <1>4, StillKeeps DEF SettleRow

(* A step that replaces the request for the list of one chat.              *)
GetStep(p, c, g) ==
  /\ DOMAIN p = PageFields /\ p.view = page.view /\ p.list = page.list
  /\ p.get = [page.get EXCEPT ![c] = g] /\ p.queue = page.queue
  /\ p.conn = page.conn /\ p.slot = page.slot
  /\ p.poll \in PollRow /\ p.poll.of = page.poll.of /\ p.poll.text = page.poll.text

LEMMA GetQuiet ==
  ASSUME PageInv, PageShape(page, Assigned'), NEW c \in Chats, NEW g \in GetRow, NEW p,
         GetStep(p, c, g)
  PROVE  Quiet(p)
<1>1. PageShape(p, Assigned') BY DEF PageShape, GetStep
<1> QED BY <1>1 DEF Quiet, GetStep

LEMMA PollTimerKeeps == ASSUME PageInv, PollTimer PROVE PageStep
<1> DEFINE v == page.view
           poll == [page.poll EXCEPT !.at = "fetch"]
           g == [at |-> "asked", list |-> {}, then |-> page.get[v].then \cup {"poll"}]
           q == [page EXCEPT !.poll.at = "fetch"]
           p == Refetch(q, v, {"poll"})
<1>1. PageTurns' /\ PageShape(page, Assigned') BY TurnsStay DEF PollTimer
<1>2. v \in Chats /\ page.get \in [Chats -> GetRow] /\ page.poll \in PollRow
  BY <1>1 DEF PageShape
<1>3. g \in GetRow BY <1>2 DEF GetRow
<1>4. poll \in PollRow /\ poll.of = page.poll.of /\ poll.text = page.poll.text
  BY <1>2 DEF PollRow
<1>5. /\ DOMAIN q = PageFields /\ q.view = page.view /\ q.list = page.list
      /\ q.get = page.get /\ q.queue = page.queue
      /\ q.conn = page.conn /\ q.slot = page.slot /\ q.poll = poll
  BY <1>1 DEF PageShape, PageFields
<1> HIDE DEF q, poll
<1>6. p = [q EXCEPT !.get = [q.get EXCEPT ![v] = g]] BY <1>2, <1>5 DEF Refetch
<1> HIDE DEF p, g
<1>7. GetStep(p, v, g) BY <1>4, <1>5, <1>6 DEF GetStep, PageFields
<1>8. Quiet(p) BY <1>1, <1>2, <1>3, <1>7, GetQuiet
<1>9. Event(p) BY DEF PollTimer, p, q
<1> QED BY <1>1, <1>8, <1>9, QuietIsReady, ReadyRuns DEF PageStep

LEMMA ReadKeeps == ASSUME PageInv, NEW c \in Chats, Read(c) PROVE PageStep
<1> DEFINE g == [page.get[c] EXCEPT !.at = "read", !.list = Listing(c)]
           p == [page EXCEPT !.get[c].at = "read", !.get[c].list = Listing(c)]
<1>1. PageTurns' /\ PageShape(page, Assigned') BY TurnsStay DEF Read
<1>2. page.get \in [Chats -> GetRow] BY <1>1 DEF PageShape
<1>3. Listing(c) \in SUBSET ListRows
  <2>1. turns \in [Messages -> PageTurn] BY DEF PageInv, PageTurns
  <2>2. \A m \in Messages : /\ [of |-> m, text |-> 0, by |-> "user"] \in ListRows
                            /\ [of |-> m, text |-> turns[m].text, by |-> "assistant"] \in ListRows
    BY <2>1 DEF ListRows, PageTurn
  <2> QED BY <2>2 DEF Listing
<1>4. g \in GetRow
  <2>1. PICK l \in SUBSET ListRows : l = Listing(c) BY <1>3
  <2>2. page.get[c] \in GetRow BY <1>2
  <2> QED BY <2>1, <2>2 DEF GetRow
<1>5. p = [page EXCEPT !.get = [page.get EXCEPT ![c] = g]]
  BY <1>1, <1>2 DEF PageShape, PageFields, GetRow
<1>6. Event(p) BY DEF Read
<1> HIDE DEF p, g
<1>7. GetStep(p, c, g) BY <1>1, <1>5 DEF GetStep, PageShape, PageFields
<1>8. Quiet(p) BY <1>1, <1>4, <1>7, GetQuiet
<1> QED BY <1>1, <1>6, <1>8, QuietIsReady, ReadyRuns DEF PageStep

(* The answer arrives. A poll that gives up, or finds what it waits for,   *)
(* resets the slot on screen and lists its reply as it was seen.           *)
LEMMA PatchedKeeps ==
  ASSUME PageInv, NEW list \in SUBSET ListRows
  PROVE  /\ Patched(list) \in SUBSET ListRows
         /\ \A row \in ReplyTo(page.poll.of, Patched(list)) : row.text >= page.poll.text
<1> DEFINE short == {r \in ReplyTo(page.poll.of, list) : r.text < page.poll.text}
<1>1. page.poll.text \in Nat BY DEF PageInv, PageShape, PollRow
<1>2. \A r \in ListRows : r.text \in Nat BY DEF ListRows
<1>3. \A r \in ListRows : /\ [r EXCEPT !.text = page.poll.text] \in ListRows
                          /\ [r EXCEPT !.text = page.poll.text].text = page.poll.text
  BY <1>1 DEF ListRows
<1>4. Patched(list) = (list \ short) \cup {[r EXCEPT !.text = page.poll.text] : r \in short}
  BY DEF Patched
<1>5. short \subseteq ListRows BY DEF ReplyTo
<1>6. ASSUME NEW r \in ReplyTo(page.poll.of, Patched(list)) PROVE r.text >= page.poll.text
  <2>1. r \in Patched(list) /\ r.of = page.poll.of /\ r.by = "assistant" BY DEF ReplyTo
  <2>2. CASE r \in list \ short BY <1>1, <1>2, <2>1, <2>2 DEF ReplyTo
  <2>3. CASE r \in {[q EXCEPT !.text = page.poll.text] : q \in short}
    <3>1. PICK q \in short : r = [q EXCEPT !.text = page.poll.text] BY <2>3
    <3>2. r.text = page.poll.text BY <1>3, <1>5, <3>1
    <3> QED BY <1>1, <3>2
  <2> QED BY <1>4, <2>1, <2>2, <2>3
<1> QED BY <1>3, <1>4, <1>5, <1>6

LEMMA ArriveKeeps == ASSUME PageInv, NEW c \in Chats, Arrive(c) PROVE PageStep
<1> DEFINE v == page.view
           get == page.get[c]
           cached == [page EXCEPT !.list[c] = get.list, !.get[c] = NoGet]
           bare == [cached EXCEPT !.pending = NoPending]
           cleared == IF "clear" \in get.then THEN bare ELSE cached
           again == [cleared EXCEPT !.poll.at = "wait", !.poll.left = @ - 1]
           reset == Reset(cleared, cleared.view)
           done == [reset EXCEPT !.list[cleared.view] = Patched(get.list)]
<1>1. PageTurns' /\ PageShape(page, Assigned') BY TurnsStay DEF Arrive
<1>2. /\ v \in Chats /\ page.get \in [Chats -> GetRow] /\ page.list \in [Chats -> SUBSET ListRows]
      /\ page.slot \in [Chats -> SlotRow] /\ page.poll \in PollRow
  BY <1>1 DEF PageShape
<1>3. get.list \in SUBSET ListRows /\ NoGet \in GetRow BY <1>2 DEF GetRow, NoGet
<1> DEFINE lists == [page.list EXCEPT ![c] = get.list]
           gets == [page.get EXCEPT ![c] = NoGet]
<1>4. lists \in [Chats -> SUBSET ListRows] /\ gets \in [Chats -> GetRow] BY <1>2, <1>3
<1>5. /\ DOMAIN cached = PageFields /\ cached.view = v /\ cached.list = lists
      /\ cached.get = gets /\ cached.queue = page.queue /\ cached.poll = page.poll
      /\ cached.conn = page.conn /\ cached.slot = page.slot
  BY <1>1 DEF PageShape, PageFields
<1> HIDE DEF cached, lists, gets
<1>6. /\ DOMAIN cleared = PageFields /\ cleared.view = v /\ cleared.list = lists
      /\ cleared.get = gets /\ cleared.queue = page.queue /\ cleared.poll = page.poll
      /\ cleared.conn = page.conn /\ cleared.slot = page.slot
  BY <1>5 DEF PageFields
<1> HIDE DEF cleared
<1>7. PageShape(cleared, Assigned') BY <1>1, <1>4, <1>6 DEF PageShape
<1>8. Quiet(cleared) BY <1>6, <1>7 DEF Quiet
<1>9. Quiet(again)
  <2> DEFINE poll == [page.poll EXCEPT !.at = "wait", !.left = page.poll.left - 1]
  <2>1. poll \in PollRow /\ poll.of = page.poll.of /\ poll.text = page.poll.text
    <3>1. PICK l \in Int : l = page.poll.left - 1 BY <1>2 DEF PollRow
    <3>2. poll = [page.poll EXCEPT !.at = "wait", !.left = l] BY <3>1
    <3> QED BY <1>2, <3>2 DEF PollRow
  <2>2. /\ DOMAIN again = PageFields /\ again.view = v /\ again.list = lists
        /\ again.get = gets /\ again.queue = page.queue /\ again.poll = poll
        /\ again.conn = page.conn /\ again.slot = page.slot
    BY <1>2, <1>6 DEF PageFields, PollRow
  <2> HIDE DEF again, poll
  <2>3. PageShape(again, Assigned') BY <1>1, <1>4, <2>1, <2>2 DEF PageShape
  <2> QED BY <2>1, <2>2, <2>3 DEF Quiet
<1>10. Ready(done)
  <2> DEFINE slots == [page.slot EXCEPT ![v] = Idle]
             patched == [lists EXCEPT ![v] = Patched(get.list)]
  <2>1. Patched(get.list) \in SUBSET ListRows BY <1>3, PatchedKeeps
  <2>2. Idle \in SlotRow /\ Idle.status = "idle" BY DEF Idle, SlotRow
  <2>3. /\ DOMAIN reset = PageFields /\ reset.view = v /\ reset.list = lists
        /\ reset.get = gets /\ reset.queue = page.queue /\ reset.poll = page.poll
        /\ reset.conn = page.conn /\ reset.slot = slots
    BY <1>6 DEF Reset, PageFields
  <2> HIDE DEF reset, slots
  <2>4. /\ DOMAIN done = PageFields /\ done.view = v /\ done.list = patched
        /\ done.get = gets /\ done.queue = page.queue /\ done.poll = page.poll
        /\ done.conn = page.conn /\ done.slot = slots
    BY <1>6, <2>3 DEF PageFields
  <2> HIDE DEF done
  <2>5. patched \in [Chats -> SUBSET ListRows] /\ patched[v] = Patched(get.list)
    BY <1>2, <1>4, <2>1
  <2>6. slots \in [Chats -> SlotRow] /\ slots[v].status = "idle"
        /\ \A d \in Chats : slots[d].status = "stopped" => page.slot[d].status = "stopped"
    BY <1>2, <2>2 DEF slots
  <2> HIDE DEF patched
  <2>7. PageShape(done, Assigned') BY <1>1, <1>4, <2>4, <2>5, <2>6 DEF PageShape
  <2>8. Synced(done) BY <2>4, <2>6 DEF Synced
  <2>9. KeepsText(done)
    <3> SUFFICES ASSUME page.slot[v].status = "stopped",
                        NEW r \in ReplyTo(page.slot[v].of, Patched(get.list))
                 PROVE  r.text >= page.slot[v].text
      BY <2>4, <2>5 DEF KeepsText, Shown
    <3>1. page.poll.of = page.slot[v].of /\ page.poll.text = page.slot[v].text
      BY DEF PageInv, Synced
    <3> QED BY <1>3, <3>1, PatchedKeeps
  <2> QED BY <2>4, <2>7, <2>8, <2>9 DEF Ready
<1>11. Event(cleared) \/ Event(again) \/ Event(done) BY DEF Arrive, Polled, cleared, cached
<1> HIDE DEF again, done
<1> QED BY <1>1, <1>8, <1>9, <1>10, <1>11, QuietIsReady, ReadyRuns DEF PageStep

LEMMA PageInit_Inv == PageInit => PageInv
<1> SUFFICES ASSUME PageInit PROVE PageInv OBVIOUS
<1>1. PageTurns BY DEF PageInit, PageTurns, PageTurn
<1>2. (CHOOSE c \in Chats : TRUE) \in Chats BY PageAssumption
<1>3. Idle \in SlotRow /\ Idle.status = "idle" /\ NoGet \in GetRow /\ NoPoll \in PollRow
  BY DEF Idle, SlotRow, NoGet, GetRow, NoPoll, PollRow
<1>4. PageShape(page, Assigned) /\ Synced(page)
  BY <1>2, <1>3 DEF PageInit, PageShape, PageFields, Synced
<1> QED BY <1>1, <1>4 DEF PageInv

LEMMA PageNextKeeps == ASSUME PageInv, [PageNext]_pageVars PROVE PageStep
<1>1. CASE UserActs
  BY <1>1, SendKeeps, SendNowKeeps, DiscardKeeps, StopKeeps, SwitchKeeps DEF UserActs
<1>2. CASE ServerActs
  BY <1>2, AdmitKeeps, DeltaKeeps, TurnEndsKeep, SettleRowKeeps DEF ServerActs
<1>3. CASE ListActs BY <1>3, PollTimerKeeps, ReadKeeps, ArriveKeeps DEF ListActs
<1>4. CASE UNCHANGED pageVars BY <1>4, TurnsStay, StillKeeps DEF pageVars
<1> QED BY <1>1, <1>2, <1>3, <1>4 DEF PageNext

(* A reply that is still coming in a chat which is not on screen goes on:  *)
(* neither the queue nor a chat switch cuts it.                            *)
THEOREM OtherChatsGoOn == PageSpec => OthersGoOn
<1>1. PageInv /\ [PageNext]_pageVars => PageInv' BY PageNextKeeps DEF PageStep
<1>2. PageInv /\ [PageNext]_pageVars =>
        \A c \in Chats : c # page'.view /\ page.conn[c] # None
          => page'.conn[c] \in {page.conn[c], None}
  BY PageNextKeeps DEF PageStep, GoesOn
<1> QED BY <1>1, <1>2, PageInit_Inv, PTL DEF PageSpec, OthersGoOn

(* When the reconciliation of a stopped reply ends, the list does not hold *)
(* less of it than was on screen.                                          *)
THEOREM StoppedRepliesStay == PageSpec => StoppedTextKept
<1>1. PageInv /\ [PageNext]_pageVars => PageInv' BY PageNextKeeps DEF PageStep
<1>2. PageInv /\ [PageNext]_pageVars =>
        LET slot == page.slot[page.view] IN
        page'.view = page.view /\ slot.status = "stopped" /\ page'.slot[page.view].status = "idle"
          => \A row \in ReplyTo(slot.of, Shown(page')) : row.text >= slot.text
  BY PageNextKeeps DEF PageStep, KeepsText
<1> QED BY <1>1, <1>2, PageInit_Inv, PTL DEF PageSpec, StoppedTextKept
=============================================================================
