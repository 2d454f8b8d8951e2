----------------------------- MODULE LoginLimit -----------------------------
(***************************************************************************)
(* The limit on login attempts (lmchat/middleware/rate_limit.py) and the   *)
(* in-memory bucket store it uses (middleware/_bucket_store.py).           *)
(*                                                                         *)
(* A login asks the bucket of its address and, when the body names a user, *)
(* the bucket of address and user; it passes when both pay. The store      *)
(* forgets idle buckets when it holds too many. Neither await of the       *)
(* middleware really suspends (a bucket's lock is never held across one),  *)
(* so an attempt is one step.                                              *)
(***************************************************************************)
EXTENDS Integers, FiniteSets, Sequences

CONSTANTS
  Addresses, Users,         \* client addresses, user names
  NoUser,                   \* the body names no user
  AddressPrice, AddressBurst,  \* ticks per token, tokens of a full bucket
  AccountPrice, AccountBurst,
  Threshold,                \* _CLEANUP_THRESHOLD
  MaxAge,                   \* _DEFAULT_MAX_AGE_SECONDS, in ticks
  Horizon                   \* bound: the time at which the run stops

(* _build_key: login:<ip> or login:<ip>:<username>.                        *)
LoginKeys == Addresses \X (Users \cup {NoUser})
AddressKey(ip) == <<ip, NoUser>>

Price == [k \in LoginKeys |-> IF k[2] = NoUser THEN AddressPrice ELSE AccountPrice]
Capacity == [k \in LoginKeys |->
  IF k[2] = NoUser THEN AddressBurst * AddressPrice ELSE AccountBurst * AccountPrice]

(* A bucket is full again long before it is old enough to be evicted: 60 s *)
(* against an hour in the code.                                            *)
ASSUME LimitAssumption ==
  /\ NoUser \notin Users
  /\ {AddressPrice, AddressBurst, AccountPrice, AccountBurst} \subseteq Nat \ {0}
  /\ Threshold \in Nat /\ MaxAge \in Nat /\ Horizon \in Nat
  /\ \A k \in LoginKeys : Capacity[k] \in Nat /\ Capacity[k] <= MaxAge

VARIABLES
  now,      \* time.monotonic(), in ticks
  held,     \* the keys of InMemoryBucketStore._buckets
  level,    \* _BucketState.tokens, in ticks of credit
  seen,     \* _BucketState.last_seen
  verdict   \* how the last attempt ended

limitVars == <<now, held, level, seen, verdict>>

LimitTypeOK ==
  /\ now \in Nat
  /\ held \subseteq LoginKeys
  /\ level \in [LoginKeys -> Nat] /\ seen \in [LoginKeys -> Nat]
  /\ \A k \in held : level[k] <= Capacity[k] /\ seen[k] <= now
  /\ verdict \in {"none", "passed", "refused", "error"}

LimitInit ==
  /\ now = 0
  /\ held = {}
  /\ level = [k \in LoginKeys |-> 0]
  /\ seen = [k \in LoginKeys |-> 0]
  /\ verdict = "none"

(* min(burst, tokens + elapsed * rate), of a bucket that may be new.       *)
Refilled(k) ==
  LET grown == level[k] + (now - seen[k]) IN
  IF k \in held /\ grown < Capacity[k] THEN grown ELSE Capacity[k]

(* Faulty: a bucket is stale as soon as it was not used in this tick.      *)
StaleAtOnce(k) == seen[k] < now
(* cleanup_stale's test.                                                   *)
Stale(k) == seen[k] < now - MaxAge

(* The keys left after asked has been given a bucket and, above the        *)
(* threshold, the stale ones have been dropped; fresh were written just    *)
(* now.                                                                    *)
KeysAfter(keys, asked, fresh) ==
  LET new == {k \in {asked} : k \notin keys} \cup fresh IN
  IF Cardinality(keys \cup {asked}) > Threshold
  THEN {k \in keys \cup {asked} : k \in new \/ ~Stale(k)}
  ELSE keys \cup {asked}

(* InMemoryBucketStore.consume on the keys asked, in this order: a stale   *)
(* bucket dropped by the cleanup of its own consume is a KeyError, which   *)
(* ends the attempt. survivors: the keys held at the end; paid: those that *)
(* had a token; asked refilled: those whose state was written.             *)
Pays(k) == Refilled(k) >= Price[k]
Settle(survivors, asked, ended) ==
  LET paid == {k \in asked : Pays(k)} IN
  /\ held' = survivors
  /\ level' = [k \in LoginKeys |->
       IF k \in paid THEN Refilled(k) - Price[k]
       ELSE IF k \in asked THEN Refilled(k)
       ELSE IF k \in survivors THEN level[k] ELSE 0]
  /\ seen' = [k \in LoginKeys |->
       IF k \in asked THEN now ELSE IF k \in survivors THEN seen[k] ELSE 0]
  /\ verdict' = IF ended THEN "error" ELSE IF paid = asked THEN "passed" ELSE "refused"

(* LoginRateLimitMiddleware.__call__: both buckets are asked whatever the  *)
(* first says; a KeyError of the first leaves the second alone.            *)
Attempt(ip, user) ==
  LET first == AddressKey(ip)
      second == <<ip, user>>
      afterFirst == KeysAfter(held, first, {})
      afterSecond == KeysAfter(afterFirst, second, {first})
  IN /\ IF first \notin afterFirst THEN Settle(afterFirst, {}, TRUE)
        ELSE IF user = NoUser THEN Settle(afterFirst, {first}, FALSE)
        ELSE Settle(afterSecond, {first, second} \cap afterSecond,
                    second \notin afterSecond)
     /\ UNCHANGED now

Tick ==
  /\ now < Horizon
  /\ now' = now + 1
  /\ UNCHANGED <<held, level, seen, verdict>>

LimitNext == Tick \/ \E ip \in Addresses, user \in Users \cup {NoUser} : Attempt(ip, user)

LimitSpec == LimitInit /\ [][LimitNext]_limitVars

-----------------------------------------------------------------------------
(* Every attempt is let through or answered with 429: "Returns: (True, 0.0)*)
(* when the token was consumed. (False, retry_after_seconds) when the      *)
(* bucket is empty." (_bucket_store.py). It is not: a known address that   *)
(* comes back after an hour while the store is over its threshold evicts   *)
(* its own bucket and looks it up.                                         *)
AttemptsAnswered == verdict # "error"

-----------------------------------------------------------------------------
(* The store implements buckets that are never forgotten: an absent bucket *)
(* is a full one.                                                          *)
Ideal == INSTANCE TokenBuckets WITH
  Keys <- LoginKeys, credit <- [k \in LoginKeys |-> Refilled(k)], clock <- now

EvictionInvisible == Ideal!Spec
=============================================================================
