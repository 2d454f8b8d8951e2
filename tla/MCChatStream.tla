---------------------------- MODULE MCChatStream ----------------------------
(* Finite instances of ChatStream. Streams are interchangeable; chats are   *)
(* not, once a stream has one.                                             *)
EXTENDS ChatStream, TLC

StreamSymmetry == Permutations(Streams)

(* Bound: what is in flight at a time, over all the streams.               *)
FewInFlight ==
  Cardinality(UNION {{<<s, u>> : u \in inflight[s]} : s \in Streams}) <= 3

=============================================================================
