---------------------------- MODULE MCTurnsLive ----------------------------
(***************************************************************************)
(* Finite instances of the turns of a chat and of its sub-sessions, for    *)
(* liveness. They share no state here, so each behaviour explores one: two *)
(* requests that compete for a chat while nothing fails (they are alike,   *)
(* so that Turning takes the lock, or leaves, first), one turn alone       *)
(* (the other request gives up while it waits) which errors and a restart  *)
(* may hit, or a turn of a sub-session.                                    *)
(***************************************************************************)
EXTENDS SubSession

CONSTANTS Chats, ChatStreams, MaxTurns, ChatDeltas, ChatFaults, ChatCrashes

VARIABLES
  part,
  turns, lastId, chatLock, chatRefs, chatPc, chat, msg, chatAcc, chatBuf, gone, completed,
  chatInflight, chatSweep, chatFaults, chatCrashes, deletes

Chat == INSTANCE ChatStream WITH
  Streams <- ChatStreams, ReuseIds <- FALSE, MaxDeltas <- ChatDeltas,
  MaxFaults <- ChatFaults, MaxCrashes <- ChatCrashes, MaxDeletes <- 0,
  lock <- chatLock, refs <- chatRefs, pc <- chatPc, acc <- chatAcc, buf <- chatBuf,
  inflight <- chatInflight, sweep <- chatSweep, faults <- chatFaults, crashes <- chatCrashes

chatVars == <<turns, lastId, chatLock, chatRefs, chatPc, chat, msg, chatAcc, chatBuf, gone,
              completed, chatInflight, chatSweep, chatFaults, chatCrashes, deletes>>

Turning == CHOOSE s \in ChatStreams : TRUE

LiveInit == Init /\ Chat!Init /\ part \in {"contended", "alone", "sub"}

LiveNext ==
  /\ \/ /\ part = "contended" /\ Chat!Next
        /\ chatPc'[Turning] = "waiting" => \A s \in ChatStreams : chatPc'[s] = "waiting"
        /\ chatAcc' = chatAcc /\ chatFaults' = chatFaults /\ chatCrashes' = chatCrashes
        /\ UNCHANGED vars
     \/ /\ part = "alone" /\ Chat!Next
        /\ \A s \in ChatStreams \ {Turning} : chatPc'[s] \in {"waiting", "done"}
        /\ UNCHANGED vars
     \/ /\ part = "sub" /\ Next
        /\ UNCHANGED chatVars
  /\ UNCHANGED part

(* The fairness of the two modules; a part that is not explored owes no    *)
(* step.                                                                   *)
InChat(step) == part # "sub" /\ step
LiveSpec ==
  /\ LiveInit /\ [][LiveNext]_<<vars, chatVars, part>>
  /\ \A s \in ChatStreams : WF_chatVars(InChat(Chat!StreamStep(s)))
  /\ WF_chatVars(InChat(Chat!Reaper))
  /\ \A i \in 1 .. MaxTurns :
       WF_chatVars(InChat(Chat!GoQuiet(i))) /\ WF_chatVars(InChat(Chat!GoOld(i)))
  /\ \A s \in Streams :
       WF_vars(part = "sub" /\ StreamStep(s)) /\ WF_vars(part = "sub" /\ GoQuiet(s))
  /\ WF_vars(part = "sub" /\ Reaper)

(* Every turn leaves the states in which it refuses the next request       *)
(* (_assert_no_in_progress_stream), if need be through the reaper.         *)
TurnsSettle == Chat!TurnsSettle

(* Every request of the chat that is explored ends (stream_chat returns).  *)
ExploredRequestsEnd == part # "sub" => Chat!RequestsEnd
=============================================================================
