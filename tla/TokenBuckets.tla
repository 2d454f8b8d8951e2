---------------------------- MODULE TokenBuckets ----------------------------
(***************************************************************************)
(* What a token bucket store promises (BucketStore.consume in              *)
(* middleware/_bucket_store.py): every key has a bucket of its own that    *)
(* starts full, gains one tick of credit per tick of time up to its        *)
(* capacity, and pays Price[k] ticks of credit for an admission. Nothing   *)
(* is ever forgotten. LoginLimit implements it with a store that evicts.   *)
(***************************************************************************)
EXTENDS Naturals

CONSTANTS
  Keys,      \* the keys of the store
  Capacity,  \* the credit of a full bucket, in ticks: burst / rate
  Price      \* the credit one admission costs, in ticks: 1 / rate

VARIABLES
  credit,  \* the credit of each key's bucket now
  clock    \* the time, in ticks

Init ==
  /\ credit = Capacity
  /\ clock = 0

Tick ==
  /\ clock' = clock + 1
  /\ credit' = [k \in Keys |->
       IF credit[k] < Capacity[k] THEN credit[k] + 1 ELSE Capacity[k]]

(* Some keys are asked for a token each: those that can pay, do.           *)
Consume ==
  /\ \E asked \in SUBSET Keys :
       credit' = [k \in Keys |->
         IF k \in asked /\ credit[k] >= Price[k] THEN credit[k] - Price[k]
                                                 ELSE credit[k]]
  /\ UNCHANGED clock

Next == Tick \/ Consume

Spec == Init /\ [][Next]_<<credit, clock>>
=============================================================================
