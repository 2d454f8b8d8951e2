-------------------------- MODULE LoginLimit_proofs --------------------------
(***************************************************************************)
(* For any keys, prices, bursts and threshold: evicting idle buckets       *)
(* cannot be told from never forgetting one, because a bucket is full      *)
(* before it is old enough to be evicted (LimitAssumption).                *)
(***************************************************************************)
EXTENDS LoginLimit, TLAPS

LEMMA Constants ==
  ASSUME NEW k \in LoginKeys
  PROVE  /\ Price[k] \in Nat \ {0} /\ Capacity[k] \in Nat /\ Capacity[k] <= MaxAge
BY LimitAssumption DEF Price

(* A refill never leaves the bounds of its bucket.                         *)
LEMMA RefilledBounded ==
  ASSUME LimitTypeOK, NEW k \in LoginKeys
  PROVE  Refilled(k) \in Nat /\ Refilled(k) <= Capacity[k]
<1>1. Capacity[k] \in Nat
  BY Constants
<1>2. CASE k \in held
  <2>1. level[k] \in Nat /\ seen[k] \in Nat /\ now \in Nat /\ seen[k] <= now
    BY <1>2 DEF LimitTypeOK
  <2> QED
    BY <1>1, <2>1 DEF Refilled
<1>3. CASE k \notin held
  BY <1>1, <1>3 DEF Refilled
<1> QED
  BY <1>2, <1>3

(* Asking a bucket leaves its credit within its bounds.                    *)
LEMMA SettleTyped ==
  ASSUME LimitTypeOK, NEW survivors \in SUBSET LoginKeys,
         NEW asked \in SUBSET LoginKeys, NEW ended \in BOOLEAN,
         now' = now, survivors \subseteq held \cup asked,
         Settle(survivors, asked, ended)
  PROVE  LimitTypeOK'
<1> DEFINE NewLevel(k) ==
      IF k \in {j \in asked : Pays(j)} THEN Refilled(k) - Price[k]
      ELSE IF k \in asked THEN Refilled(k)
      ELSE IF k \in survivors THEN level[k] ELSE 0
<1>1. \A k \in LoginKeys : NewLevel(k) \in Nat
                           /\ (k \in survivors => NewLevel(k) <= Capacity[k])
  <2> SUFFICES ASSUME NEW k \in LoginKeys
               PROVE  NewLevel(k) \in Nat
                      /\ (k \in survivors => NewLevel(k) <= Capacity[k])
    OBVIOUS
  <2>1. Refilled(k) \in Nat /\ Refilled(k) <= Capacity[k]
    BY RefilledBounded
  <2>2. Price[k] \in Nat \ {0} /\ Capacity[k] \in Nat
    BY Constants
  <2>3. level[k] \in Nat /\ (k \in held => level[k] <= Capacity[k])
    BY DEF LimitTypeOK
  <2>4. CASE k \in {j \in asked : Pays(j)}
    <3>1. Refilled(k) >= Price[k]
      BY <2>4 DEF Pays
    <3> QED
      BY <2>1, <2>2, <2>4, <3>1
  <2>5. CASE k \notin {j \in asked : Pays(j)} /\ k \in asked
    BY <2>1, <2>5
  <2>6. CASE k \notin asked
    BY <2>3, <2>6
  <2> QED
    BY <2>4, <2>5, <2>6
<1>2. level' = [k \in LoginKeys |-> NewLevel(k)]
  BY DEF Settle
<1>3. level' \in [LoginKeys -> Nat] /\ \A k \in held' : level'[k] <= Capacity[k]
  <2>1. held' = survivors
    BY DEF Settle
  <2> HIDE DEF NewLevel
  <2> QED
    BY <1>1, <1>2, <2>1
<1>4. seen' \in [LoginKeys -> Nat] /\ \A k \in held' : seen'[k] <= now'
  BY DEF LimitTypeOK, Settle
<1>5. verdict' \in {"none", "passed", "refused", "error"}
  BY DEF Settle
<1> QED
  BY <1>3, <1>4, <1>5 DEF LimitTypeOK, Settle

LEMMA KeysAfterBounded ==
  ASSUME NEW keys \in SUBSET LoginKeys, NEW k \in LoginKeys, NEW fresh \in SUBSET LoginKeys
  PROVE  KeysAfter(keys, k, fresh) \in SUBSET LoginKeys
         /\ KeysAfter(keys, k, fresh) \subseteq keys \cup {k}
BY DEF KeysAfter

(* An attempt settles some keys, and every key it drops without asking is  *)
(* stale.                                                                  *)
LEMMA AttemptSettles ==
  ASSUME LimitTypeOK, NEW ip \in Addresses, NEW user \in Users \cup {NoUser},
         Attempt(ip, user)
  PROVE  \E survivors \in SUBSET LoginKeys, asked \in SUBSET LoginKeys, ended \in BOOLEAN :
           /\ survivors \subseteq held \cup asked
           /\ asked \subseteq survivors
           /\ \A k \in held \ survivors : Stale(k)
           /\ Settle(survivors, asked, ended)
<1> DEFINE first == AddressKey(ip)
           second == <<ip, user>>
           afterFirst == KeysAfter(held, first, {})
           afterSecond == KeysAfter(afterFirst, second, {first})
<1>1. first \in LoginKeys /\ second \in LoginKeys
  BY DEF AddressKey, LoginKeys
<1>2. /\ held \in SUBSET LoginKeys
      /\ afterFirst \in SUBSET LoginKeys /\ afterFirst \subseteq held \cup {first}
      /\ \A k \in held \ afterFirst : Stale(k)
  <2>1. held \in SUBSET LoginKeys
    BY DEF LimitTypeOK
  <2>2. afterFirst \in SUBSET LoginKeys /\ afterFirst \subseteq held \cup {first}
    BY <1>1, <2>1, KeysAfterBounded
  <2>3. \A k \in held \ afterFirst : Stale(k)
    BY DEF KeysAfter
  <2> QED
    BY <2>1, <2>2, <2>3
<1>3. /\ afterSecond \in SUBSET LoginKeys /\ afterSecond \subseteq afterFirst \cup {second}
      /\ \A k \in afterFirst \ afterSecond : Stale(k)
      /\ first \in afterFirst => first \in afterSecond
  <2>1. afterSecond \in SUBSET LoginKeys /\ afterSecond \subseteq afterFirst \cup {second}
    BY <1>1, <1>2, KeysAfterBounded
  <2>2. /\ \A k \in afterFirst \ afterSecond : Stale(k)
        /\ first \in afterFirst => first \in afterSecond
    BY DEF KeysAfter
  <2> QED
    BY <2>1, <2>2
<1>4. \/ first \notin afterFirst /\ Settle(afterFirst, {}, TRUE)
      \/ first \in afterFirst /\ Settle(afterFirst, {first}, FALSE)
      \/ /\ first \in afterFirst
         /\ Settle(afterSecond, {first, second} \cap afterSecond, second \notin afterSecond)
  BY DEF Attempt
<1> HIDE DEF afterFirst, afterSecond, first, second
<1>5. CASE first \notin afterFirst /\ Settle(afterFirst, {}, TRUE)
  <2>1. afterFirst \subseteq held \cup {} /\ {} \subseteq afterFirst /\ {} \in SUBSET LoginKeys
    BY <1>2, <1>5
  <2> QED
    BY <1>2, <1>5, <2>1
<1>6. CASE first \in afterFirst /\ Settle(afterFirst, {first}, FALSE)
  <2>1. {first} \in SUBSET LoginKeys
    BY <1>1
  <2> QED
    BY <1>2, <1>6
<1>7. CASE /\ first \in afterFirst
           /\ Settle(afterSecond, {first, second} \cap afterSecond, second \notin afterSecond)
  <2> DEFINE asked == {first, second} \cap afterSecond
             ended == second \notin afterSecond
  <2>1. asked \in SUBSET LoginKeys /\ asked \subseteq afterSecond /\ ended \in BOOLEAN
    BY <1>3
  <2>2. afterSecond \subseteq held \cup asked
    BY <1>2, <1>3
  <2>3. \A k \in held \ afterSecond : Stale(k)
    BY <1>2, <1>3
  <2>4. Settle(afterSecond, asked, ended) /\ afterSecond \in SUBSET LoginKeys
    BY <1>3, <1>7
  <2> HIDE DEF asked, ended
  <2> QED
    BY <2>1, <2>2, <2>3, <2>4
<1> QED
  BY <1>4, <1>5, <1>6, <1>7

THEOREM LimitTypeCorrect == LimitSpec => []LimitTypeOK
<1>1. LimitInit => LimitTypeOK
  BY DEF LimitInit, LimitTypeOK
<1>2. LimitTypeOK /\ [LimitNext]_limitVars => LimitTypeOK'
  <2> SUFFICES ASSUME LimitTypeOK, [LimitNext]_limitVars
               PROVE  LimitTypeOK'
    OBVIOUS
  <2>1. CASE Tick
    BY <2>1 DEF LimitTypeOK, Tick
  <2>2. ASSUME NEW ip \in Addresses, NEW user \in Users \cup {NoUser}, Attempt(ip, user)
        PROVE  LimitTypeOK'
    <3>1. now' = now
      BY <2>2 DEF Attempt
    <3> QED
      BY <2>2, <3>1, AttemptSettles, SettleTyped
  <2>3. CASE UNCHANGED limitVars
    BY <2>3 DEF LimitTypeOK, limitVars
  <2> QED
    BY <2>1, <2>2, <2>3 DEF LimitNext
<1> QED
  BY <1>1, <1>2, PTL DEF LimitSpec
(* One tick later an untouched bucket has one more tick of credit.         *)
LEMMA TickRefills ==
  ASSUME LimitTypeOK, Tick, NEW k \in LoginKeys
  PROVE  Refilled(k)' = IF Refilled(k) < Capacity[k] THEN Refilled(k) + 1 ELSE Capacity[k]
<1>1. Capacity[k] \in Nat
  BY Constants
<1>2. now \in Nat /\ now' = now + 1 /\ held' = held /\ level' = level /\ seen' = seen
  BY DEF LimitTypeOK, Tick
<1>3. k \in held => level[k] \in Nat /\ level[k] <= Capacity[k] /\ seen[k] \in Nat /\ seen[k] <= now
  BY DEF LimitTypeOK
<1>4. CASE k \in held
  BY <1>1, <1>2, <1>3, <1>4 DEF Refilled
<1>5. CASE k \notin held
  BY <1>1, <1>2, <1>5 DEF Refilled
<1> QED
  BY <1>4, <1>5

(* A stale bucket is a full one.                                           *)
LEMMA StaleIsFull ==
  ASSUME LimitTypeOK, NEW k \in held, Stale(k)
  PROVE  Refilled(k) = Capacity[k]
<1>1. k \in LoginKeys /\ level[k] \in Nat /\ seen[k] \in Nat /\ now \in Nat
  BY DEF LimitTypeOK
<1>2. Capacity[k] \in Nat /\ Capacity[k] <= MaxAge /\ MaxAge \in Nat
  BY <1>1, LimitAssumption
<1>3. seen[k] < now - MaxAge
  BY DEF Stale
<1> QED
  BY <1>1, <1>2, <1>3 DEF Refilled

(* Buckets asked pay when they can; the credit of the others is the same,  *)
(* the dropped ones' too.                                                  *)
LEMMA SettlePays ==
  ASSUME LimitTypeOK, NEW survivors \in SUBSET LoginKeys,
         NEW asked \in SUBSET LoginKeys, NEW ended \in BOOLEAN,
         survivors \subseteq held \cup asked, asked \subseteq survivors,
         \A j \in held \ survivors : Stale(j),
         Settle(survivors, asked, ended), now' = now, NEW k \in LoginKeys
  PROVE  Refilled(k)' = IF k \in asked /\ Refilled(k) >= Price[k]
                        THEN Refilled(k) - Price[k] ELSE Refilled(k)
<1>1. Refilled(k) \in Nat /\ Refilled(k) <= Capacity[k]
  BY RefilledBounded
<1>2. Price[k] \in Nat \ {0} /\ Capacity[k] \in Nat
  BY Constants
<1>3. held' = survivors /\ now \in Nat
  BY DEF Settle, LimitTypeOK
<1>4. CASE k \in asked
  <2>1. k \in held' /\ seen'[k] = now'
    BY <1>3, <1>4 DEF Settle
  <2>2. level'[k] = IF Refilled(k) >= Price[k] THEN Refilled(k) - Price[k] ELSE Refilled(k)
    BY <1>4 DEF Settle, Pays
  <2> QED
    BY <1>1, <1>2, <1>3, <1>4, <2>1, <2>2 DEF Refilled
<1>5. CASE k \notin asked /\ k \in survivors
  <2>1. k \in held /\ level'[k] = level[k] /\ seen'[k] = seen[k] /\ k \in held'
    BY <1>3, <1>5 DEF Settle
  <2> QED
    BY <1>5, <2>1 DEF Refilled
<1>6. CASE k \notin asked /\ k \notin survivors
  <2>1. Refilled(k)' = Capacity[k]
    BY <1>3, <1>6 DEF Refilled
  <2>2. Refilled(k) = Capacity[k]
    BY <1>6, StaleIsFull DEF Refilled
  <2> QED
    BY <1>6, <2>1, <2>2
<1> QED
  BY <1>4, <1>5, <1>6

(* The middleware's store behaves as one that forgets no bucket: an        *)
(* eviction never gives an address or an account an admission it would not *)
(* have had (cleanup_stale in consume).                                    *)
THEOREM EvictionIsInvisible == LimitSpec => EvictionInvisible
<1> DEFINE Credit == [k \in LoginKeys |-> Refilled(k)]
<1>1. LimitInit => Ideal!Init
  <2> SUFFICES ASSUME LimitInit
               PROVE  Credit = Capacity /\ now = 0
    BY DEF Ideal!Init
  <2>1. \A k \in LoginKeys : Refilled(k) = Capacity[k]
    BY DEF LimitInit, Refilled
  <2>2. Capacity = [k \in LoginKeys |-> Capacity[k]]
    BY DEF Capacity
  <2> QED
    BY <2>1, <2>2 DEF LimitInit
<1>2. LimitTypeOK /\ [LimitNext]_limitVars => [Ideal!Next]_<<Credit, now>>
  <2> SUFFICES ASSUME LimitTypeOK, [LimitNext]_limitVars
               PROVE  [Ideal!Next]_<<Credit, now>>
    OBVIOUS
  <2>1. CASE Tick
    <3>1. \A k \in LoginKeys :
            Refilled(k)' = IF Refilled(k) < Capacity[k] THEN Refilled(k) + 1 ELSE Capacity[k]
      BY <2>1, TickRefills
    <3>2. Ideal!Tick
      BY <2>1, <3>1 DEF Tick, Ideal!Tick
    <3> QED
      BY <3>2 DEF Ideal!Next
  <2>2. ASSUME NEW ip \in Addresses, NEW user \in Users \cup {NoUser}, Attempt(ip, user)
        PROVE  [Ideal!Next]_<<Credit, now>>
    <3>1. now' = now
      BY <2>2 DEF Attempt
    <3>2. PICK survivors \in SUBSET LoginKeys, asked \in SUBSET LoginKeys, ended \in BOOLEAN :
            /\ survivors \subseteq held \cup asked
            /\ asked \subseteq survivors
            /\ \A k \in held \ survivors : Stale(k)
            /\ Settle(survivors, asked, ended)
      BY <2>2, AttemptSettles
    <3>3. \A k \in LoginKeys :
            Refilled(k)' = IF k \in asked /\ Refilled(k) >= Price[k]
                           THEN Refilled(k) - Price[k] ELSE Refilled(k)
      BY <3>1, <3>2, SettlePays
    <3>4. Ideal!Consume
      BY <3>1, <3>3 DEF Ideal!Consume
    <3> QED
      BY <3>4 DEF Ideal!Next
  <2>3. CASE UNCHANGED limitVars
    <3>1. Credit' = Credit /\ now' = now
      BY <2>3 DEF limitVars, Refilled
    <3> QED
      BY <3>1
  <2> QED
    BY <2>1, <2>2, <2>3 DEF LimitNext
<1> QED
  BY <1>1, <1>2, LimitTypeCorrect, PTL DEF LimitSpec, EvictionInvisible, Ideal!Spec
=============================================================================
