----------------------------- MODULE AuthSession -----------------------------
(***************************************************************************)
(* Logins, password changes and logouts of one account                     *)
(* (lmchat/services/auth_service.py) over the session table                *)
(* (lmchat/session/sqlite_store.py), with single-session mode on.          *)
(*                                                                         *)
(* Password hashing runs in an executor and every statement is a           *)
(* transaction of its own, so all of them interleave; only the sequence    *)
(* that replaces the sessions runs under the account's lock.               *)
(***************************************************************************)
EXTENDS Naturals

CONSTANTS
  Logins, Changes,   \* requests to log in, to change the password
  Tokens,            \* session tokens
  Passwords,         \* what a password may be
  NoToken, NoLogin,
  MaxRaces           \* bound: sessions that end on their own (logout, expiry)

ASSUME AuthAssumption ==
  NoToken \notin Tokens /\ NoLogin \notin Logins /\ MaxRaces \in Nat

VARIABLES
  stored,    \* users.password_hash: of which password, at a stale cost or not, its salt
  sessions,  \* the sessions table: each token's row
  lock,      \* _single_session_locks[user_id]
  login,     \* each login: where it is, its password, the row it read, its token
  change,    \* each change: where it is, its passwords, the row it read, its token
  races      \* sessions that ended on their own

authVars == <<stored, sessions, lock, login, change, races>>

(* Every hash is written with a salt of its own.                           *)
Hashes == [of : Passwords, stale : BOOLEAN, salt : Nat]
HashOf(pw) == [of |-> pw, stale |-> FALSE, salt |-> stored.salt + 1]
Live == {t \in Tokens : sessions[t] = "live"}
Unused == {t \in Tokens : sessions[t] = "unused"}

AuthTypeOK ==
  /\ stored \in Hashes
  /\ sessions \in [Tokens -> {"unused", "live", "rotated", "gone"}]
  /\ lock \in Logins \cup {NoLogin}
  /\ login \in [Logins ->
       [at : {"idle", "verify", "rehash", "totp", "lock", "create", "read", "rotate",
              "others", "done", "denied"},
        pw : Passwords, row : Hashes, token : Tokens \cup {NoToken}]]
  /\ change \in [Changes ->
       [at : {"idle", "verify", "update", "revoke", "done", "denied"},
        old : Passwords, new : Passwords, row : Hashes, token : Tokens \cup {NoToken}]]
  /\ races \in 0 .. MaxRaces

AuthInit ==
  /\ \E pw \in Passwords, stale \in BOOLEAN :
       /\ stored = [of |-> pw, stale |-> stale, salt |-> 0]
       /\ login = [l \in Logins |->
            [at |-> "idle", pw |-> pw, row |-> stored, token |-> NoToken]]
       /\ change = [c \in Changes |->
            [at |-> "idle", old |-> pw, new |-> pw, row |-> stored, token |-> NoToken]]
  /\ sessions = [t \in Tokens |-> "unused"]
  /\ lock = NoLogin
  /\ races = 0

LoginAt(l, at) == login[l].at = at
Goes(l, at) == login' = [login EXCEPT ![l].at = at]

-----------------------------------------------------------------------------
(* The session store, one transaction each.                                *)

(* revoke: every row of the account.                                       *)
Revoke == sessions' = [t \in Tokens |-> IF sessions[t] = "unused" THEN "unused" ELSE "gone"]
(* revoke_others: the live rows but one; rotated rows stay as a trail.     *)
RevokeOthers(kept) ==
  sessions' = [t \in Tokens |-> IF t # kept /\ t \in Live THEN "gone" ELSE sessions[t]]
FreshToken == CHOOSE t \in Unused : TRUE
Mint(t) == sessions' = [sessions EXCEPT ![t] = "live"]

-----------------------------------------------------------------------------
(* login                                                                   *)

ReadAccount(l) ==
  /\ LoginAt(l, "idle")
  /\ \E pw \in Passwords :
       login' = [login EXCEPT ![l] =
         [at |-> "verify", pw |-> pw, row |-> stored, token |-> NoToken]]
  /\ UNCHANGED <<stored, sessions, lock, change, races>>

(* verify_password and needs_rehash, against the row that was read.        *)
VerifyLogin(l) ==
  /\ LoginAt(l, "verify")
  /\ Goes(l, IF login[l].pw # login[l].row.of THEN "denied"
             ELSE IF login[l].row.stale THEN "rehash" ELSE "totp")
  /\ UNCHANGED <<stored, sessions, lock, change, races>>

(* The transparent rehash writes the password just verified, whatever the  *)
(* row holds by now; its failure is not fatal.                             *)
Rehash(l) ==
  /\ LoginAt(l, "rehash")
  /\ stored' \in {stored, HashOf(login[l].pw)}
  /\ Goes(l, "totp")
  /\ UNCHANGED <<sessions, lock, change, races>>

(* Only then the second factor: a login that lacks it has already rehashed. *)
CheckTotp(l) ==
  /\ LoginAt(l, "totp")
  /\ \/ Goes(l, "denied")
     \/ Goes(l, "lock")
  /\ UNCHANGED <<stored, sessions, lock, change, races>>

(* Faulty: the account's lock is not waited for.                           *)
LockIgnored(l) ==
  /\ LoginAt(l, "lock")
  /\ lock' = l
  /\ Revoke
  /\ Goes(l, "create")
  /\ UNCHANGED <<stored, change, races>>

LockAndRevoke(l) ==
  /\ LoginAt(l, "lock") /\ lock = NoLogin
  /\ lock' = l
  /\ Revoke
  /\ Goes(l, "create")
  /\ UNCHANGED <<stored, change, races>>

Create(l) ==
  /\ LoginAt(l, "create") /\ Unused # {}
  /\ Mint(FreshToken)
  /\ login' = [login EXCEPT ![l] =
       [@ EXCEPT !.at = IF login[l].token = NoToken THEN "read" ELSE "others",
                 !.token = FreshToken]]
  /\ UNCHANGED <<stored, lock, change, races>>

(* Faulty: a row that is gone fails the login.                             *)
RotateOrFail(l) ==
  /\ LoginAt(l, "read")
  /\ IF sessions[login[l].token] \in {"live", "rotated"}
     THEN Goes(l, "rotate") /\ UNCHANGED lock
     ELSE Goes(l, "denied") /\ lock' = NoLogin
  /\ UNCHANGED <<stored, sessions, change, races>>

(* rotate reads the row first; when it is gone (KeyError) the session is   *)
(* minted again instead.                                                   *)
RotateRead(l) ==
  /\ LoginAt(l, "read")
  /\ Goes(l, IF sessions[login[l].token] \in {"live", "rotated"} THEN "rotate" ELSE "create")
  /\ UNCHANGED <<stored, sessions, lock, change, races>>

(* ... and then inserts the new row and marks the old one, if it is there. *)
RotateWrite(l) ==
  LET old == login[l].token IN
  /\ LoginAt(l, "rotate") /\ Unused # {}
  /\ sessions' = [sessions EXCEPT ![FreshToken] = "live",
                                  ![old] = IF @ = "gone" THEN @ ELSE "rotated"]
  /\ login' = [login EXCEPT ![l].at = "others", ![l].token = FreshToken]
  /\ UNCHANGED <<stored, lock, change, races>>

(* Single session is asserted again, on both paths, and the lock released. *)
AssertSingle(l) ==
  /\ LoginAt(l, "others")
  /\ RevokeOthers(login[l].token)
  /\ lock' = NoLogin
  /\ Goes(l, "done")
  /\ UNCHANGED <<stored, change, races>>

-----------------------------------------------------------------------------
(* change_password, by the holder of a live session.                       *)

ReadForChange(c) ==
  /\ change[c].at = "idle"
  /\ \E t \in Live, old, new \in Passwords :
       /\ old # new
       /\ change' = [change EXCEPT ![c] =
            [at |-> "verify", old |-> old, new |-> new, row |-> stored, token |-> t]]
  /\ UNCHANGED <<stored, sessions, lock, login, races>>

VerifyOld(c) ==
  /\ change[c].at = "verify"
  /\ change' = [change EXCEPT ![c].at =
       IF change[c].old = change[c].row.of THEN "update" ELSE "denied"]
  /\ UNCHANGED <<stored, sessions, lock, login, races>>

(* Faulty: the hash is written whatever the row holds.                     *)
UpdateHash(c) ==
  /\ change[c].at = "update"
  /\ stored' = HashOf(change[c].new)
  /\ change' = [change EXCEPT ![c].at = "revoke"]
  /\ UNCHANGED <<sessions, lock, login, races>>

(* Compare and swap on the hash that was verified.                         *)
CompareAndSwap(c) ==
  /\ change[c].at = "update"
  /\ IF stored = change[c].row
     THEN /\ stored' = HashOf(change[c].new)
          /\ change' = [change EXCEPT ![c].at = "revoke"]
     ELSE /\ change' = [change EXCEPT ![c].at = "denied"]
          /\ UNCHANGED stored
  /\ UNCHANGED <<sessions, lock, login, races>>

RevokeAfterChange(c) ==
  /\ change[c].at = "revoke"
  /\ RevokeOthers(change[c].token)
  /\ change' = [change EXCEPT ![c].at = "done"]
  /\ UNCHANGED <<stored, lock, login, races>>

(* A session ends through logout (revoke_session) or expires and is        *)
(* cleaned up.                                                             *)
EndSession(t) ==
  /\ t \in Live /\ races < MaxRaces
  /\ sessions' = [sessions EXCEPT ![t] = "gone"]
  /\ races' = races + 1
  /\ UNCHANGED <<stored, lock, login, change>>

AuthNext ==
  \/ \E l \in Logins :
       ReadAccount(l) \/ VerifyLogin(l) \/ Rehash(l) \/ CheckTotp(l)
       \/ LockAndRevoke(l) \/ Create(l) \/ RotateRead(l) \/ RotateWrite(l) \/ AssertSingle(l)
  \/ \E c \in Changes :
       ReadForChange(c) \/ VerifyOld(c) \/ CompareAndSwap(c) \/ RevokeAfterChange(c)
  \/ \E t \in Tokens : EndSession(t)

AuthSpec == AuthInit /\ [][AuthNext]_authVars

(* What a login does once it is verified awaits only the database and the  *)
(* account's lock, which asyncio hands to a waiter when it is released.    *)
AuthFairness ==
  \A l \in Logins :
    WF_authVars(LockAndRevoke(l) \/ Create(l) \/ RotateRead(l) \/ RotateWrite(l) \/ AssertSingle(l))

-----------------------------------------------------------------------------
(* Outside the critical section of a login the account has at most one     *)
(* live session (login: "re-assert exactly one live session").             *)
SingleSession == lock = NoLogin => \A t, u \in Live : t = u

(* A login whose credentials were verified gets a session: when another    *)
(* revokes the one it has minted, before it is rotated, it mints again     *)
(* ("re-mint (not 500)"), and no login waits for the lock for ever.        *)
VerifiedLoginsGetSession ==
  \A l \in Logins : LoginAt(l, "lock") ~> LoginAt(l, "done")

(* Of two password changes that verified the same hash only one succeeds:  *)
(* success is never reported for a password another change has replaced.   *)
ChangesSerialised ==
  \A c, d \in Changes : c # d /\ {change[c].at, change[d].at} \subseteq {"revoke", "done"}
                        => change[c].row # change[d].row

=============================================================================
