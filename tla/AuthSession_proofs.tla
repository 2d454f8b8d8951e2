-------------------------- MODULE AuthSession_proofs --------------------------
(***************************************************************************)
(* For any number of logins, password changes and tokens: at most one live *)
(* session outside the critical section of a login. Sessions are minted    *)
(* only by the holder of the lock, and it releases the lock in the step    *)
(* that revokes all the others.                                            *)
(***************************************************************************)
EXTENDS AuthSession, TLAPS

Critical == {"create", "read", "rotate", "others"}

(* Every hash that is written has a salt of its own, above those of the    *)
(* rows that were read before it: the row a successful change has verified *)
(* is not the stored one any more.                                         *)
RowsAreOlder ==
  \A c \in Changes :
    /\ change[c].row.salt <= stored.salt
    /\ change[c].at \in {"revoke", "done"} => change[c].row.salt < stored.salt

(* Who is in the critical section of login holds the account's lock.       *)
Exclusive == \A l \in Logins : login[l].at \in Critical => lock = l

LoginPlaces == {"idle", "verify", "rehash", "totp", "lock", "create", "read", "rotate",
                "others", "done", "denied"}
LoginRecords ==
  [at : LoginPlaces, pw : Passwords, row : Hashes, token : Tokens \cup {NoToken}]

LEMMA LoginRecordUpdate ==
  ASSUME NEW r \in LoginRecords, NEW at \in LoginPlaces, NEW t \in Tokens
  PROVE  [r EXCEPT !.at = at, !.token = t] \in LoginRecords
BY DEF LoginRecords

THEOREM AuthTypeCorrect == AuthSpec => []AuthTypeOK
<1>1. AuthInit => AuthTypeOK
  <2> SUFFICES ASSUME AuthInit PROVE AuthTypeOK
    OBVIOUS
  <2>1. PICK pw \in Passwords, stale \in BOOLEAN :
          /\ stored = [of |-> pw, stale |-> stale, salt |-> 0]
          /\ login = [l \in Logins |->
               [at |-> "idle", pw |-> pw, row |-> stored, token |-> NoToken]]
          /\ change = [c \in Changes |->
               [at |-> "idle", old |-> pw, new |-> pw, row |-> stored, token |-> NoToken]]
    BY DEF AuthInit
  <2>2. stored \in Hashes
    BY <2>1 DEF Hashes
  <2>3. sessions = [t \in Tokens |-> "unused"] /\ lock = NoLogin /\ races = 0 /\ MaxRaces \in Nat
    BY AuthAssumption DEF AuthInit
  <2> QED
    BY <2>1, <2>2, <2>3 DEF AuthTypeOK
<1>2. AuthTypeOK /\ [AuthNext]_authVars => AuthTypeOK'
  <2> SUFFICES ASSUME AuthTypeOK, [AuthNext]_authVars PROVE AuthTypeOK'
    OBVIOUS
  <2> USE DEF AuthTypeOK
  <2>1. ASSUME NEW pw \in Passwords PROVE HashOf(pw) \in Hashes
    BY DEF HashOf, Hashes
  <2>2. ASSUME Unused # {} PROVE FreshToken \in Tokens
    BY <2>2 DEF FreshToken, Unused
  <2>3. ASSUME NEW l \in Logins, ReadAccount(l) PROVE AuthTypeOK'
    BY <2>3 DEF ReadAccount
  <2>4. ASSUME NEW l \in Logins, VerifyLogin(l) PROVE AuthTypeOK'
    <3>1. PICK at \in {"denied", "rehash", "totp"} : login' = [login EXCEPT ![l].at = at]
      BY <2>4 DEF VerifyLogin, Goes
    <3>2. UNCHANGED <<stored, sessions, lock, change, races>>
      BY <2>4 DEF VerifyLogin
    <3> QED
      BY <3>1, <3>2
  <2>5. ASSUME NEW l \in Logins, Rehash(l) PROVE AuthTypeOK'
    <3>1. stored' \in Hashes
      BY <2>1, <2>5 DEF Rehash
    <3> QED
      BY <2>5, <3>1 DEF Rehash, Goes
  <2>5a. ASSUME NEW l \in Logins, CheckTotp(l) PROVE AuthTypeOK'
    BY <2>5a DEF CheckTotp, Goes
  <2>6. ASSUME NEW l \in Logins, LockAndRevoke(l) PROVE AuthTypeOK'
    BY <2>6 DEF LockAndRevoke, Revoke, Goes
  <2>7. ASSUME NEW l \in Logins, Create(l) PROVE AuthTypeOK'
    <3> DEFINE next == IF login[l].token = NoToken THEN "read" ELSE "others"
               moved == [login[l] EXCEPT !.at = next, !.token = FreshToken]
    <3>1. UNCHANGED <<stored, lock, change, races>> /\ FreshToken \in Tokens
      BY <2>2, <2>7 DEF Create
    <3>2. sessions' \in [Tokens -> {"unused", "live", "rotated", "gone"}]
      BY <2>7 DEF Create, Mint
    <3>3. login' = [login EXCEPT ![l] = moved]
      BY <2>7 DEF Create
    <3>4. next \in {"read", "others"}
      OBVIOUS
    <3> HIDE DEF next
    <3>5. moved \in LoginRecords
      <4>1. login[l] \in LoginRecords /\ next \in LoginPlaces
        BY <3>4 DEF LoginRecords, LoginPlaces
      <4> QED
        BY <3>1, <4>1, LoginRecordUpdate
    <3> HIDE DEF moved
    <3> QED
      BY <3>1, <3>2, <3>3, <3>5 DEF LoginRecords, LoginPlaces
  <2>8. ASSUME NEW l \in Logins, RotateRead(l) PROVE AuthTypeOK'
    BY <2>8 DEF RotateRead, Goes
  <2>9. ASSUME NEW l \in Logins, RotateWrite(l) PROVE AuthTypeOK'
    BY <2>2, <2>9 DEF RotateWrite
  <2>10. ASSUME NEW l \in Logins, AssertSingle(l) PROVE AuthTypeOK'
    BY <2>10 DEF AssertSingle, RevokeOthers, Goes
  <2>11. ASSUME NEW c \in Changes, ReadForChange(c) PROVE AuthTypeOK'
    BY <2>11 DEF ReadForChange, Live
  <2>12. ASSUME NEW c \in Changes, VerifyOld(c) PROVE AuthTypeOK'
    BY <2>12 DEF VerifyOld
  <2>13. ASSUME NEW c \in Changes, CompareAndSwap(c) PROVE AuthTypeOK'
    BY <2>1, <2>13 DEF CompareAndSwap
  <2>14. ASSUME NEW c \in Changes, RevokeAfterChange(c) PROVE AuthTypeOK'
    BY <2>14 DEF RevokeAfterChange, RevokeOthers
  <2>15. ASSUME NEW t \in Tokens, EndSession(t) PROVE AuthTypeOK'
    BY <2>15, AuthAssumption DEF EndSession
  <2>16. CASE UNCHANGED authVars
    BY <2>16 DEF authVars
  <2> QED
    BY <2>3, <2>4, <2>5, <2>5a, <2>6, <2>7, <2>8, <2>9, <2>10, <2>11, <2>12, <2>13,
       <2>14, <2>15, <2>16 DEF AuthNext
<1> QED
  BY <1>1, <1>2, PTL DEF AuthSpec

(* A step that mints nothing and leaves the lock alone.                    *)
LEMMA NoMint ==
  ASSUME SingleSession, lock' = lock, Live' \subseteq Live
  PROVE  SingleSession'
BY DEF SingleSession

LEMMA CriticalHolds == AuthSpec => [](Exclusive /\ SingleSession)
<1>1. AuthInit => Exclusive /\ SingleSession
  BY DEF AuthInit, Exclusive, SingleSession, Critical, Live
<1>2. AuthTypeOK /\ Exclusive /\ SingleSession /\ [AuthNext]_authVars
        => Exclusive' /\ SingleSession'
  <2> SUFFICES ASSUME AuthTypeOK, Exclusive, SingleSession, [AuthNext]_authVars
               PROVE  Exclusive' /\ SingleSession'
    OBVIOUS
  <2> USE DEF Exclusive, Critical
  <2>1. login \in [Logins ->
          [at : {"idle", "verify", "rehash", "totp", "lock", "create", "read", "rotate",
                 "others", "done", "denied"},
           pw : Passwords, row : Hashes, token : Tokens \cup {NoToken}]]
    BY DEF AuthTypeOK
  <2>2. NoLogin \notin Logins
    BY AuthAssumption
  <2>3. ASSUME NEW l \in Logins, ReadAccount(l) PROVE Exclusive' /\ SingleSession'
    BY <2>1, <2>3, NoMint DEF ReadAccount, LoginAt, Live
  <2>4. ASSUME NEW l \in Logins, VerifyLogin(l) PROVE Exclusive' /\ SingleSession'
    BY <2>1, <2>4, NoMint DEF VerifyLogin, LoginAt, Goes, Live
  <2>5. ASSUME NEW l \in Logins, Rehash(l) PROVE Exclusive' /\ SingleSession'
    BY <2>1, <2>5, NoMint DEF Rehash, LoginAt, Goes, Live
  <2>5a. ASSUME NEW l \in Logins, CheckTotp(l) PROVE Exclusive' /\ SingleSession'
    BY <2>1, <2>5a, NoMint DEF CheckTotp, LoginAt, Goes, Live
  <2>6. ASSUME NEW l \in Logins, LockAndRevoke(l) PROVE Exclusive' /\ SingleSession'
    <3>1. \A m \in Logins : m # l => login[m].at \notin Critical
      BY <2>2, <2>6 DEF LockAndRevoke
    <3>2. Exclusive'
      BY <2>1, <2>6, <3>1 DEF LockAndRevoke, Goes
    <3>3. lock' # NoLogin
      BY <2>2, <2>6 DEF LockAndRevoke
    <3> QED
      BY <3>2, <3>3 DEF SingleSession
  <2>7. ASSUME NEW l \in Logins, Create(l) PROVE Exclusive' /\ SingleSession'
    <3>1. lock = l /\ lock' = l
      BY <2>7 DEF Create, LoginAt
    <3>2. Exclusive'
      BY <2>1, <2>7, <3>1 DEF Create
    <3> QED
      BY <2>2, <3>1, <3>2 DEF SingleSession
  <2>8. ASSUME NEW l \in Logins, RotateRead(l) PROVE Exclusive' /\ SingleSession'
    <3>1. lock = l /\ lock' = l
      BY <2>8 DEF RotateRead, LoginAt
    <3>2. Exclusive'
      BY <2>1, <2>8, <3>1 DEF RotateRead, Goes
    <3> QED
      BY <2>2, <3>1, <3>2 DEF SingleSession
  <2>9. ASSUME NEW l \in Logins, RotateWrite(l) PROVE Exclusive' /\ SingleSession'
    <3>1. lock = l /\ lock' = l
      BY <2>9 DEF RotateWrite, LoginAt
    <3>2. Exclusive'
      BY <2>1, <2>9, <3>1 DEF RotateWrite
    <3> QED
      BY <2>2, <3>1, <3>2 DEF SingleSession
  <2>10. ASSUME NEW l \in Logins, AssertSingle(l) PROVE Exclusive' /\ SingleSession'
    <3>1. \A m \in Logins : m # l => login[m].at \notin Critical
      BY <2>10 DEF AssertSingle, LoginAt
    <3>2. Exclusive'
      BY <2>1, <2>10, <3>1 DEF AssertSingle, Goes
    <3>3. \A t \in Live' : t = login[l].token
      BY <2>10 DEF AssertSingle, RevokeOthers, Live
    <3> QED
      BY <3>2, <3>3 DEF SingleSession
  <2>11. ASSUME NEW c \in Changes,
                ReadForChange(c) \/ VerifyOld(c) \/ CompareAndSwap(c)
         PROVE  Exclusive' /\ SingleSession'
    <3>1. UNCHANGED <<lock, login, sessions>>
      BY <2>11 DEF ReadForChange, VerifyOld, CompareAndSwap
    <3> QED
      BY <3>1, NoMint DEF Live
  <2>12. ASSUME NEW c \in Changes, RevokeAfterChange(c) PROVE Exclusive' /\ SingleSession'
    <3>1. UNCHANGED <<lock, login>> /\ Live' \subseteq Live
      BY <2>12 DEF RevokeAfterChange, RevokeOthers, Live
    <3> QED
      BY <3>1, NoMint
  <2>13. ASSUME NEW t \in Tokens, EndSession(t) PROVE Exclusive' /\ SingleSession'
    <3>1. UNCHANGED <<lock, login>> /\ Live' \subseteq Live
      BY <2>13 DEF EndSession, Live, AuthTypeOK
    <3> QED
      BY <3>1, NoMint
  <2>14. CASE UNCHANGED authVars
    BY <2>14, NoMint DEF authVars, Live
  <2> QED
    BY <2>3, <2>4, <2>5, <2>5a, <2>6, <2>7, <2>8, <2>9, <2>10, <2>11, <2>12, <2>13, <2>14
    DEF AuthNext
<1> QED
  BY <1>1, <1>2, AuthTypeCorrect, PTL DEF AuthSpec

(* Single-session mode: whichever login is last in its critical section    *)
(* wins, and the account never keeps two live sessions (auth_service login *)
(* with revoke, rotate and revoke_others of the session store).            *)
THEOREM OneSessionPerAccount == AuthSpec => []SingleSession
<1>1. Exclusive /\ SingleSession => SingleSession
  OBVIOUS
<1> QED
  BY <1>1, CriticalHolds, PTL

(* Who holds the lock is in the critical section.                          *)
LockOwned == lock # NoLogin => login[lock].at \in Critical

(* The account's lock is never left behind: whenever it is held, its       *)
(* holder is a login between its first revocation and its last, a rotation *)
(* that misses included (login under _single_session_locks).               *)
THEOREM LoginLockIsReturned == AuthSpec => []LockOwned
<1>1. AuthInit => LockOwned
  BY DEF AuthInit, LockOwned
<1>2. AuthTypeOK /\ Exclusive /\ LockOwned /\ [AuthNext]_authVars => LockOwned'
  <2> SUFFICES ASSUME AuthTypeOK, Exclusive, LockOwned, [AuthNext]_authVars, lock' # NoLogin
               PROVE  login'[lock'].at \in Critical
    BY DEF LockOwned
  <2>1. /\ lock \in Logins \cup {NoLogin} /\ NoLogin \notin Logins
        /\ login \in [Logins ->
             [at : LoginPlaces, pw : Passwords, row : Hashes, token : Tokens \cup {NoToken}]]
    BY AuthAssumption DEF AuthTypeOK, LoginPlaces
  <2>2. ASSUME NEW l \in Logins, ReadAccount(l) \/ VerifyLogin(l) \/ Rehash(l) \/ CheckTotp(l)
        PROVE  login'[lock'].at \in Critical
    BY <2>1, <2>2 DEF LockOwned, ReadAccount, VerifyLogin, Rehash, CheckTotp, LoginAt, Goes, Critical
  <2>3. ASSUME NEW l \in Logins, LockAndRevoke(l) PROVE login'[lock'].at \in Critical
    BY <2>1, <2>3 DEF LockAndRevoke, Goes, Critical
  <2>4. ASSUME NEW l \in Logins, Create(l) \/ RotateRead(l) \/ RotateWrite(l)
        PROVE  login'[lock'].at \in Critical
    <3>1. lock' = l
      BY <2>4 DEF Exclusive, Create, RotateRead, RotateWrite, LoginAt, Critical
    <3>2. CASE Create(l)
      <4>1. login'[l] = [login[l] EXCEPT
              !.at = IF login[l].token = NoToken THEN "read" ELSE "others", !.token = FreshToken]
        BY <2>1, <3>2 DEF Create
      <4>2. login'[l].at = IF login[l].token = NoToken THEN "read" ELSE "others"
        BY <2>1, <4>1
      <4> QED
        BY <3>1, <4>2 DEF Critical
    <3>3. CASE RotateRead(l)
      BY <2>1, <3>1, <3>3 DEF RotateRead, Goes, Critical
    <3>4. CASE RotateWrite(l)
      BY <2>1, <3>1, <3>4 DEF RotateWrite, Critical
    <3> QED
      BY <2>4, <3>2, <3>3, <3>4
  <2>5. ASSUME NEW l \in Logins, AssertSingle(l) PROVE login'[lock'].at \in Critical
    BY <2>5 DEF AssertSingle
  <2>6. CASE UNCHANGED <<lock, login>>
    BY <2>6 DEF LockOwned
  <2> QED
    BY <2>2, <2>3, <2>4, <2>5, <2>6
    DEF AuthNext, ReadForChange, VerifyOld, CompareAndSwap, RevokeAfterChange, EndSession,
        authVars
<1>3. Exclusive /\ SingleSession => Exclusive
  OBVIOUS
<1> QED
  BY <1>1, <1>2, <1>3, AuthTypeCorrect, CriticalHolds, PTL DEF AuthSpec

(* Changes succeed one after the other: each of them has verified a hash   *)
(* that no other success has replaced (change_password's UPDATE compares   *)
(* the hash it verified; a login's rehash writes a new salt as well).      *)
THEOREM ChangesSucceedOneByOne == AuthSpec => []ChangesSerialised
<1>1. AuthInit => RowsAreOlder /\ ChangesSerialised
  <2> SUFFICES ASSUME AuthInit PROVE RowsAreOlder /\ ChangesSerialised
    OBVIOUS
  <2>1. stored.salt \in Nat /\ \A c \in Changes : change[c].at = "idle" /\ change[c].row = stored
    BY DEF AuthInit
  <2> QED
    BY <2>1 DEF RowsAreOlder, ChangesSerialised
<1>2. AuthTypeOK /\ RowsAreOlder /\ ChangesSerialised /\ [AuthNext]_authVars
        => RowsAreOlder' /\ ChangesSerialised'
  <2> SUFFICES ASSUME AuthTypeOK, RowsAreOlder, ChangesSerialised, [AuthNext]_authVars
               PROVE  RowsAreOlder' /\ ChangesSerialised'
    OBVIOUS
  <2>1. stored.salt \in Nat /\ \A c \in Changes : change[c].row.salt \in Nat
    BY DEF AuthTypeOK, Hashes
  <2>2. ASSUME NEW pw \in Passwords PROVE HashOf(pw).salt = stored.salt + 1
    BY DEF HashOf
  <2>3. ASSUME stored' = stored \/ stored'.salt = stored.salt + 1, change' = change
        PROVE  RowsAreOlder' /\ ChangesSerialised'
    BY <2>1, <2>3 DEF RowsAreOlder, ChangesSerialised
  <2>4. ASSUME NEW l \in Logins, Rehash(l) PROVE RowsAreOlder' /\ ChangesSerialised'
    <3>1. login[l].pw \in Passwords
      BY DEF AuthTypeOK
    <3> QED
      BY <2>2, <2>3, <2>4, <3>1 DEF Rehash
  <2>5. ASSUME NEW l \in Logins,
               ReadAccount(l) \/ VerifyLogin(l) \/ CheckTotp(l) \/ LockAndRevoke(l) \/ Create(l)
               \/ RotateRead(l) \/ RotateWrite(l) \/ AssertSingle(l)
        PROVE  RowsAreOlder' /\ ChangesSerialised'
    BY <2>3, <2>5 DEF ReadAccount, VerifyLogin, CheckTotp, LockAndRevoke, Create, RotateRead,
                      RotateWrite, AssertSingle
  <2>6. ASSUME NEW c \in Changes, ReadForChange(c) PROVE RowsAreOlder' /\ ChangesSerialised'
    <3>1. PICK new : /\ new.at = "verify" /\ new.row = stored
                     /\ change' = [change EXCEPT ![c] = new]
      BY <2>6 DEF ReadForChange
    <3>2. stored' = stored
      BY <2>6 DEF ReadForChange
    <3>3. \A d \in Changes : change'[d] = IF d = c THEN new ELSE change[d]
      BY <3>1 DEF AuthTypeOK
    <3> QED
      BY <2>1, <3>1, <3>2, <3>3 DEF RowsAreOlder, ChangesSerialised
  <2>7. ASSUME NEW c \in Changes, VerifyOld(c) PROVE RowsAreOlder' /\ ChangesSerialised'
    <3>1. stored' = stored /\ change'[c].at \in {"update", "denied"}
      BY <2>7 DEF VerifyOld, AuthTypeOK
    <3>2. \A d \in Changes : change'[d].row = change[d].row /\ (d # c => change'[d] = change[d])
      BY <2>7 DEF VerifyOld, AuthTypeOK
    <3> QED
      BY <3>1, <3>2 DEF RowsAreOlder, ChangesSerialised
  <2>8. ASSUME NEW c \in Changes, CompareAndSwap(c) PROVE RowsAreOlder' /\ ChangesSerialised'
    <3>1. \A d \in Changes : change'[d].row = change[d].row /\ (d # c => change'[d] = change[d])
      BY <2>8 DEF CompareAndSwap, AuthTypeOK
    <3>2. CASE stored = change[c].row
      <4>1. stored'.salt = stored.salt + 1
        <5>1. change[c].new \in Passwords
          BY DEF AuthTypeOK
        <5> QED
          BY <2>2, <2>8, <3>2, <5>1 DEF CompareAndSwap
      <4>2. \A d \in Changes : change[d].at \in {"revoke", "done"} => change[d].row # change[c].row
        BY <2>1, <3>2 DEF RowsAreOlder
      <4> QED
        BY <2>1, <3>1, <3>2, <4>1, <4>2 DEF RowsAreOlder, ChangesSerialised
    <3>3. CASE stored # change[c].row
      <4>1. stored' = stored /\ change'[c].at = "denied"
        BY <2>8, <3>3 DEF CompareAndSwap, AuthTypeOK
      <4> QED
        BY <3>1, <4>1 DEF RowsAreOlder, ChangesSerialised
    <3> QED
      BY <3>2, <3>3
  <2>9. ASSUME NEW c \in Changes, RevokeAfterChange(c) PROVE RowsAreOlder' /\ ChangesSerialised'
    <3>1. stored' = stored /\ change[c].at = "revoke"
      BY <2>9 DEF RevokeAfterChange
    <3>2. \A d \in Changes : change'[d].row = change[d].row /\ (d # c => change'[d] = change[d])
      BY <2>9 DEF RevokeAfterChange, AuthTypeOK
    <3> QED
      BY <3>1, <3>2 DEF RowsAreOlder, ChangesSerialised
  <2>10. ASSUME NEW t \in Tokens, EndSession(t) PROVE RowsAreOlder' /\ ChangesSerialised'
    BY <2>3, <2>10 DEF EndSession
  <2>11. CASE UNCHANGED authVars
    BY <2>3, <2>11 DEF authVars
  <2> QED
    BY <2>4, <2>5, <2>6, <2>7, <2>8, <2>9, <2>10, <2>11 DEF AuthNext
<1> QED
  BY <1>1, <1>2, AuthTypeCorrect, PTL DEF AuthSpec
=============================================================================
