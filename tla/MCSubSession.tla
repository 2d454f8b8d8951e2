---------------------------- MODULE MCSubSession ----------------------------
(* Finite instances of SubSession. Neither the streams nor the sessions of  *)
(* a chat can be told apart.                                                *)
EXTENDS SubSession, TLC

Symmetry == Permutations(Streams) \cup Permutations(Sessions)

(* Bound: once a delta has come, no other stream has begun. Turns overlap  *)
(* without text, a turn with text runs alone.                              *)
Silent(s) == acc[s] = 0 /\ pc[s] # "mirroring"
DeltasAlone ==
  \A s \in Streams : Silent(s) \/ \A t \in Streams \ {s} : pc[t] = "waiting"

(* Bound: a failing write and a restart do not meet in one behaviour.      *)
OneMishap == faults + crashes <= 1

(* Bound: what is in flight at a time, over all the streams.               *)
FewInFlight ==
  Cardinality(UNION {{<<s, u>> : u \in inflight[s]} : s \in Streams}) <= 3

=============================================================================
