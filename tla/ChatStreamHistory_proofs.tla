----------------------- MODULE ChatStreamHistory_proofs -----------------------
(* Whose row a stream writes, what the active-stream registry protects, and *)
(* that the rows of ChatStream make up the history TurnLog promises.        *)
(*                                                                          *)
(* Several of these hold only where the id of a row in use is never handed  *)
(* out again: on Postgres, whose sequence never does, and on SQLite as long *)
(* as the user deletes nothing (NoReuse). The run chat_reuse shows how they *)
(* fail on SQLite with deletions.                                           *)
EXTENDS ChatStream_proofs, FiniteSetTheorems, WellFoundedInduction

USE DEF TypeOK, Ids

-----------------------------------------------------------------------------
(* A step of a stream concerns that stream alone.                          *)

Kept(q) ==
  /\ pc'[q] = pc[q] /\ msg'[q] = msg[q] /\ acc'[q] = acc[q] /\ buf'[q] = buf[q]
  /\ gone'[q] = gone[q] /\ completed'[q] = completed[q] /\ inflight'[q] = inflight[q]

Entering(s) ==
  \/ AcquireLock(s) \/ AssertNoInProgressStream(s) \/ CreateDraft(s)
  \/ CancelledEarly(s) \/ CreateDraftFails(s)
Working(s) ==
  \/ Prepare(s) \/ Delta(s) \/ ReasoningDelta(s) \/ TouchActivity(s) \/ ChatEnd(s)
  \/ UpstreamFails(s)
  \/ FinalizeToPending(s) \/ CommitFinal(s) \/ FinalizeFails(s) \/ Epilogue(s)
Ending(s) ==
  \/ WatchDisconnect(s) \/ Cancelled(s) \/ AwaitCancelled(s)
  \/ \E u \in Update : UpdateLands(s, u) \/ UpdateFails(s, u)

LEMMA StepKinds ==
  ASSUME NEW s \in Streams, StreamStep(s) \/ StreamEvent(s)
  PROVE  Entering(s) \/ Working(s) \/ Ending(s)
BY DEF StreamStep, StreamEvent, Entering, Working, Ending

LEMMA OthersKept ==
  ASSUME TypeOK, NEW s \in Streams, Entering(s) \/ Working(s) \/ Ending(s)
  PROVE  UNCHANGED chat /\ \A q \in Streams : q # s => Kept(q)
<1> USE DEF Kept, Goto, Flush, NoFlush, DropBuffer, streamVars
<1>1. CASE Entering(s)
  BY <1>1 DEF Entering, AcquireLock, AssertNoInProgressStream, CreateDraft, CancelledEarly,
              CreateDraftFails
<1>2. CASE Working(s)
  BY <1>2 DEF Working, Prepare, Delta, ReasoningDelta, TouchActivity, ChatEnd, UpstreamFails,
              FinalizeToPending, CommitFinal, FinalizeFails, Epilogue, BeginTeardown
<1>3. CASE Ending(s)
  <2>1. CASE WatchDisconnect(s) \/ Cancelled(s) \/ AwaitCancelled(s)
    BY <2>1 DEF WatchDisconnect, Cancelled, AwaitCancelled, BeginTeardown, Proceed
  <2>2. ASSUME NEW u \in Update, UpdateLands(s, u) \/ UpdateFails(s, u)
        PROVE  UNCHANGED chat /\ \A q \in Streams : q # s => Kept(q)
    BY <2>2 DEF UpdateLands, UpdateFails, BeginTeardown, Proceed
  <2> QED BY <1>3, <2>1, <2>2 DEF Ending
<1> QED BY <1>1, <1>2, <1>3

(* The reaper and the environment leave the streams alone, but for a       *)
(* restart.                                                                *)
LEMMA StreamsKept ==
  ASSUME Reaper \/ (Environment /\ ~Restart) \/ UNCHANGED vars
  PROVE  UNCHANGED <<pc, chat, msg, acc, buf, gone, completed, inflight, refs, lastId>>
BY DEF Reaper, SelectPending, RecoverPending, SelectStuck, SkipActive, FlipStuck, SelectOld,
       DeleteOld, ReaperOnly, Environment, GoQuiet, GoOld, DeleteMessage, DeleteOnward,
       ClearMessages, Deletion,
       streamVars, vars

-----------------------------------------------------------------------------
(* What a stream can have in flight. Before its draft it has nothing; the  *)
(* watcher is silent before the TaskGroup opens; inside it only the abort  *)
(* of the watcher is in flight; and a teardown that began after the client *)
(* was known to be gone never started a release.                           *)

Shape(s) ==
  /\ pc[s] \in {"waiting"} \cup InLock =>
       /\ msg[s] = 0 /\ acc[s] = 0 /\ buf[s] = 0
       /\ inflight[s] = {} /\ ~gone[s] /\ ~completed[s]
  /\ pc[s] = "preparing" => inflight[s] = {} /\ ~gone[s]
  /\ pc[s] \in InGroup => inflight[s] \subseteq {"watch"}
  /\ pc[s] \in Teardown /\ gone[s] => "release" \notin inflight[s]
  /\ completed[s] => pc[s] \in {"epilogue", "done"} \cup Teardown

StreamShape == \A s \in Streams : Shape(s)

LEMMA EnterShape ==
  ASSUME TypeOK, StreamShape, NEW s \in Streams, Entering(s)
  PROVE  Shape(s)'
<1> USE DEF Shape, StreamShape, Goto, InLock, InGroup, Teardown
<1>1. CASE AcquireLock(s) \/ AssertNoInProgressStream(s)
  BY <1>1 DEF AcquireLock, AssertNoInProgressStream
<1>2. CASE CreateDraft(s) BY <1>2 DEF CreateDraft
<1>3. CASE CancelledEarly(s) \/ CreateDraftFails(s)
  BY <1>3 DEF CancelledEarly, CreateDraftFails
<1> QED BY <1>1, <1>2, <1>3 DEF Entering

LEMMA BeginTeardownShape ==
  ASSUME TypeOK, StreamShape, NEW s \in Streams, NEW left \in SUBSET {"watch"},
         BeginTeardown(s, left), UNCHANGED gone
  PROVE  Shape(s)'
<1>1. inflight'[s] = left \cup {TeardownUpdate(s)} /\ pc'[s] = "releasing"
  BY DEF BeginTeardown, Goto
<1>2. gone'[s] => TeardownUpdate(s) = "abort" BY DEF TeardownUpdate
<1> QED BY <1>1, <1>2 DEF Shape, InLock, InGroup, Teardown

LEMMA ProceedShape ==
  ASSUME TypeOK, StreamShape, NEW s \in Streams, pc[s] \in Teardown,
         NEW left \in SUBSET inflight[s], Proceed(s, left), UNCHANGED gone
  PROVE  Shape(s)'
BY DEF StreamShape, Shape, Proceed, Goto, InLock, InGroup, Teardown

LEMMA WorkShape ==
  ASSUME TypeOK, StreamShape, NEW s \in Streams, Working(s)
  PROVE  Shape(s)'
<1> USE DEF StreamShape
<1>0. pc[s] \in {"preparing"} \cup InGroup /\ inflight[s] \in SUBSET {"watch"}
  BY DEF Working, Prepare, Delta, ReasoningDelta, TouchActivity, ChatEnd, UpstreamFails, FinalizeToPending,
         CommitFinal, FinalizeFails, Epilogue, InGroup, Shape
<1>1. CASE BeginTeardown(s, inflight[s]) /\ UNCHANGED gone
  BY <1>0, <1>1, BeginTeardownShape
<1>2. CASE ~BeginTeardown(s, inflight[s]) /\ (Prepare(s) \/ UpstreamFails(s) \/ FinalizeToPending(s)
                                              \/ CommitFinal(s) \/ FinalizeFails(s) \/ Epilogue(s))
  BY <1>0, <1>2 DEF Prepare, UpstreamFails, FinalizeToPending,
     CommitFinal, FinalizeFails, Epilogue, Goto, Shape, InLock, InGroup, Teardown
<1>5. CASE Delta(s) \/ ReasoningDelta(s)
  <2>1. pc[s] = "generating" /\ UNCHANGED <<pc, inflight, gone, completed>>
    BY <1>5 DEF Delta, ReasoningDelta
  <2> QED BY <2>1 DEF Shape, InLock, InGroup, Teardown
<1>6. CASE ChatEnd(s)
  <2>1. pc'[s] = "finalizing" /\ pc[s] = "generating" /\ UNCHANGED <<inflight, gone, completed>>
    BY <1>6 DEF ChatEnd, Goto
  <2> QED BY <1>0, <2>1 DEF Shape, InLock, InGroup, Teardown
<1>3. CASE TouchActivity(s) BY <1>3 DEF TouchActivity, streamVars, Shape
<1>4. UNCHANGED gone
  BY DEF Working, Prepare, Delta, ReasoningDelta, TouchActivity, ChatEnd, UpstreamFails, FinalizeToPending,
         CommitFinal, FinalizeFails, Epilogue, streamVars
<1> QED BY <1>1, <1>2, <1>3, <1>4, <1>5, <1>6 DEF Working

LEMMA EndShape ==
  ASSUME TypeOK, StreamShape, NEW s \in Streams, Ending(s)
  PROVE  Shape(s)'
<1>1. CASE WatchDisconnect(s)
  BY <1>1 DEF WatchDisconnect, StreamShape, Shape, InLock, InGroup, Teardown
<1>2. CASE Cancelled(s)
  <2>1. inflight[s] \in SUBSET {"watch"} /\ BeginTeardown(s, inflight[s]) /\ UNCHANGED gone
    BY <1>2 DEF Cancelled, StreamShape, Shape
  <2> QED BY <2>1, BeginTeardownShape
<1>3. CASE AwaitCancelled(s)
  BY <1>3, ProceedShape DEF AwaitCancelled, Teardown
<1>4. ASSUME NEW u \in Update, UpdateLands(s, u) PROVE Shape(s)'
  <2>1. CASE u \in Awaited(s)
    <3>1. pc[s] \in Teardown BY <2>1 DEF Awaited, Teardown
    <3> QED BY <1>4, <2>1, <3>1, ProceedShape DEF UpdateLands
  <2>2. CASE u \notin Awaited(s)
    BY <1>4, <2>2 DEF UpdateLands, StreamShape, Shape, InLock, InGroup, Teardown
  <2> QED BY <2>1, <2>2
<1>5. ASSUME NEW u \in Update, UpdateFails(s, u) PROVE Shape(s)'
  <2>1. UNCHANGED gone BY <1>5 DEF UpdateFails
  <2>2. CASE u \in Awaited(s) /\ u # "abort"
    <3>1. pc[s] \in Teardown BY <2>2 DEF Awaited, Teardown
    <3> QED BY <1>5, <2>1, <2>2, <3>1, ProceedShape DEF UpdateFails
  <2>3. CASE u = "watch" /\ pc[s] \in InGroup
    <3>1. u \notin Awaited(s) BY <2>3 DEF Awaited, InGroup
    <3>2. inflight[s] \ {u} \in SUBSET {"watch"} BY <2>3 DEF StreamShape, Shape
    <3> QED BY <1>5, <2>1, <2>3, <3>1, <3>2, BeginTeardownShape DEF UpdateFails
  <2>4. CASE ~(u \in Awaited(s) /\ u # "abort") /\ ~(u = "watch" /\ pc[s] \in InGroup)
    <3>1. inflight'[s] = inflight[s] \ {u}
          /\ UNCHANGED <<msg, acc, completed>> /\ pc'[s] \in {pc[s], "done"}
      BY <1>5, <2>4 DEF UpdateFails, Goto
    <3> QED BY <1>5, <2>1, <3>1 DEF UpdateFails, StreamShape, Shape, InLock, InGroup, Teardown
  <2> QED BY <2>2, <2>3, <2>4
<1> QED BY <1>1, <1>2, <1>3, <1>4, <1>5 DEF Ending

LEMMA ShapeHolds == Spec => []StreamShape
<1>1. Init => StreamShape BY DEF Init, StreamShape, Shape, InLock, InGroup, Teardown
<1>2. TypeOK /\ StreamShape /\ [Next]_vars => StreamShape'
  <2> SUFFICES ASSUME TypeOK, StreamShape, [Next]_vars PROVE StreamShape' OBVIOUS
  <2>1. ASSUME NEW s \in Streams, StreamStep(s) \/ StreamEvent(s) PROVE StreamShape'
    <3>1. Entering(s) \/ Working(s) \/ Ending(s) BY <2>1, StepKinds
    <3>2. Shape(s)' BY <3>1, EnterShape, WorkShape, EndShape
    <3>3. ASSUME NEW q \in Streams, q # s PROVE Shape(q)'
      <4>1. Kept(q) BY <3>1, <3>3, OthersKept
      <4> QED BY <4>1 DEF Kept, StreamShape, Shape
    <3> QED BY <3>2, <3>3 DEF StreamShape
  <2>2. CASE Restart
    BY <2>2 DEF Restart, rowVars, StreamShape, Shape, InLock, InGroup, Teardown
  <2>3. CASE Reaper \/ (Environment /\ ~Restart) \/ UNCHANGED vars
    BY <2>3, StreamsKept DEF StreamShape, Shape
  <2> QED BY <2>1, <2>2, <2>3 DEF Next
<1> QED BY <1>1, <1>2, TypeCorrect, PTL DEF Spec

-----------------------------------------------------------------------------
(* A lock is always somebody's. Its holder is inside the critical section  *)
(* of that chat, where every way out releases the lock.                    *)

LockOwned ==
  \A c \in Chats : lock[c] # NoStream => chat[lock[c]] = c /\ pc[lock[c]] \in InLock

LEMMA EnterKeepsLocks ==
  ASSUME TypeOK, LockHeld, LockOwned, NEW s \in Streams, Entering(s)
  PROVE  LockOwned'
<1> SUFFICES ASSUME NEW c \in Chats, lock'[c] # NoStream
             PROVE  chat'[lock'[c]] = c /\ pc'[lock'[c]] \in InLock
  BY DEF LockOwned
<1>1. UNCHANGED chat /\ \A q \in Streams : q # s => pc'[q] = pc[q] BY OthersKept DEF Kept
<1>2. chat[s] \in Chats /\ lock[c] \in Streams \cup {NoStream} OBVIOUS
<1>3. CASE lock'[c] = lock[c] /\ lock[c] # s
  BY <1>1, <1>2, <1>3 DEF LockOwned
<1>4. CASE lock'[c] = lock[c] /\ lock[c] = s
  <2>1. chat[s] = c /\ pc[s] \in InLock /\ s # NoStream BY <1>4 DEF LockOwned
  <2>2. pc'[s] \in InLock
    BY <1>2, <1>4, <2>1 DEF Entering, AcquireLock, AssertNoInProgressStream, CreateDraft,
       CancelledEarly, CreateDraftFails, Release, Goto, InLock
  <2> QED BY <1>1, <1>4, <2>1, <2>2
<1>5. CASE lock'[c] # lock[c]
  <2>1. AcquireLock(s) /\ c = chat[s]
    BY <1>2, <1>5 DEF Entering, AcquireLock, AssertNoInProgressStream, CreateDraft,
       CancelledEarly, CreateDraftFails, Release
  <2> QED BY <1>1, <2>1 DEF AcquireLock, Goto, InLock
<1> QED BY <1>3, <1>4, <1>5

(* No chat lock is ever left behind: whichever way a request leaves the    *)
(* critical section of stream_chat (409, a cancellation, a failed insert,  *)
(* a draft), a lock that is held belongs to a request that is still inside *)
(* it, for that very chat.                                                 *)
THEOREM ChatLocksAreReturned == Spec => []LockOwned
<1>1. Init => LockOwned BY DEF Init, LockOwned
<1>2. TypeOK /\ StreamShape /\ LockHeld /\ LockOwned /\ [Next]_vars => LockOwned'
  <2> SUFFICES ASSUME TypeOK, StreamShape, LockHeld, LockOwned, [Next]_vars PROVE LockOwned'
    OBVIOUS
  <2>1. ASSUME NEW s \in Streams, Entering(s) PROVE LockOwned'
    BY <2>1, EnterKeepsLocks
  <2>2. ASSUME NEW s \in Streams, Working(s) \/ Ending(s) PROVE LockOwned'
    <3>1. UNCHANGED chat /\ \A q \in Streams : q # s => pc'[q] = pc[q]
      BY <2>2, OthersKept DEF Kept
    <3>2. UNCHANGED lock
      BY <2>2 DEF Working, Prepare, Delta, ReasoningDelta, TouchActivity, ChatEnd, UpstreamFails,
         FinalizeToPending, CommitFinal, FinalizeFails, Epilogue, Ending, WatchDisconnect,
         Cancelled, AwaitCancelled, UpdateLands, UpdateFails
    <3>3. pc[s] \notin InLock
      <4>1. CASE Working(s) \/ WatchDisconnect(s) \/ Cancelled(s) \/ AwaitCancelled(s)
        BY <4>1 DEF Working, Prepare, Delta, ReasoningDelta, TouchActivity, ChatEnd, UpstreamFails,
           FinalizeToPending, CommitFinal, FinalizeFails, Epilogue, WatchDisconnect, Cancelled,
           AwaitCancelled, InLock, InGroup
      <4>2. ASSUME NEW u \in Update, UpdateLands(s, u) \/ UpdateFails(s, u)
            PROVE  pc[s] \notin InLock
        <5>1. inflight[s] # {} BY <4>2 DEF UpdateLands, UpdateFails
        <5> QED BY <5>1 DEF StreamShape, Shape
      <4> QED BY <2>2, <4>1, <4>2 DEF Ending
    <3>4. ASSUME NEW c \in Chats, lock[c] # NoStream
          PROVE  lock[c] # s /\ pc'[lock[c]] = pc[lock[c]]
      <4>1. lock[c] \in Streams /\ pc[lock[c]] \in InLock BY <3>4 DEF LockOwned
      <4> QED BY <3>1, <3>3, <4>1
    <3> QED BY <3>1, <3>2, <3>4 DEF LockOwned
  <2>3. CASE Restart BY <2>3 DEF Restart, LockOwned
  <2>4. CASE Reaper \/ (Environment /\ ~Restart) \/ UNCHANGED vars
    <3>1. UNCHANGED lock
      BY <2>4 DEF Reaper, SelectPending, RecoverPending, SelectStuck, SkipActive, FlipStuck,
         SelectOld, DeleteOld, ReaperOnly, Environment, GoQuiet, GoOld, DeleteMessage,
         DeleteOnward, ClearMessages, Deletion, vars
    <3> QED BY <2>4, <3>1, StreamsKept DEF LockOwned
  <2> QED BY <2>1, <2>2, <2>3, <2>4, StepKinds DEF Next
<1>3. SingleInv => LockHeld BY DEF SingleInv
<1> QED BY <1>1, <1>2, <1>3, TypeCorrect, ShapeHolds, SingleInvHolds, PTL DEF Spec

-----------------------------------------------------------------------------
(* The registry of active streams. A step adds a stream to the marked ones *)
(* of its chat, takes it away, or does neither, and the count follows; but *)
(* an abort that fails for good leaves the marker behind.                  *)

MarkedIn(c) == {s \in Streams : chat[s] = c /\ pc[s] \in Marked}

Joins(s, c) ==
  /\ s \notin MarkedIn(c) /\ MarkedIn(c)' = MarkedIn(c) \cup {s}
  /\ refs'[c] = refs[c] + 1
Leaves(s, c) ==
  /\ s \in MarkedIn(c) /\ MarkedIn(c)' = MarkedIn(c) \ {s}
  /\ refs'[c] = IF refs[c] <= 1 THEN 0 ELSE refs[c] - 1
LeavesMarker(s, c) ==
  /\ MarkedIn(c)' = MarkedIn(c) \ {s}
  /\ refs'[c] = refs[c] /\ faults < MaxFaults
Stays(c) == MarkedIn(c)' = MarkedIn(c) /\ refs'[c] = refs[c]

LEMMA MarkedFrame ==
  ASSUME NEW s \in Streams, UNCHANGED chat, \A q \in Streams : q # s => Kept(q), NEW c \in Chats
  PROVE  /\ chat[s] # c => MarkedIn(c)' = MarkedIn(c)
         /\ (pc'[s] \in Marked <=> pc[s] \in Marked) => MarkedIn(c)' = MarkedIn(c)
         /\ pc'[s] \in Marked /\ chat[s] = c => MarkedIn(c)' = MarkedIn(c) \cup {s}
         /\ pc'[s] \notin Marked => MarkedIn(c)' = MarkedIn(c) \ {s}
BY DEF Kept, MarkedIn

LEMMA ProceedMarks ==
  ASSUME TypeOK, NEW s \in Streams, UNCHANGED chat, \A q \in Streams : q # s => Kept(q),
         pc[s] \in Teardown, NEW left, Proceed(s, left), NEW c \in Chats
  PROVE  Leaves(s, c) \/ Stays(c)
<1>1. pc[s] \in Marked BY DEF Marked
<1>2. CASE pc[s] = "releasing"
  <2>1. pc'[s] \in Marked /\ UNCHANGED refs BY <1>2 DEF Proceed, Goto, Marked, Teardown
  <2> QED BY <1>1, <2>1, MarkedFrame DEF Stays
<1>3. CASE pc[s] # "releasing"
  <2>1. pc'[s] \notin Marked /\ MarkInactive(chat[s])
    BY <1>3 DEF Proceed, Goto, Marked, Teardown, InGroup
  <2>2. CASE chat[s] = c
    BY <1>1, <2>1, <2>2, MarkedFrame DEF Leaves, MarkInactive, MarkedIn
  <2>3. CASE chat[s] # c BY <2>1, <2>3, MarkedFrame DEF Stays, MarkInactive
  <2> QED BY <2>2, <2>3
<1> QED BY <1>2, <1>3

LEMMA StreamMarks ==
  ASSUME TypeOK, NEW s \in Streams, Entering(s) \/ Working(s) \/ Ending(s), NEW c \in Chats
  PROVE  Joins(s, c) \/ Leaves(s, c) \/ LeavesMarker(s, c) \/ Stays(c)
<1>0. UNCHANGED chat /\ \A q \in Streams : q # s => Kept(q) BY OthersKept
<1>1. CASE CreateDraft(s)
  <2>1. pc[s] \notin Marked /\ pc'[s] \in Marked /\ MarkActive(chat[s])
    BY <1>1 DEF CreateDraft, Goto, Marked, InGroup, Teardown
  <2>2. CASE chat[s] = c BY <1>0, <2>1, <2>2, MarkedFrame DEF Joins, MarkActive, MarkedIn
  <2>3. CASE chat[s] # c BY <1>0, <2>1, <2>3, MarkedFrame DEF Stays, MarkActive
  <2> QED BY <2>2, <2>3
<1>2. CASE Entering(s) /\ ~CreateDraft(s)
  <2>1. pc[s] \notin Marked /\ pc'[s] \notin Marked /\ UNCHANGED refs
    BY <1>2 DEF Entering, AcquireLock, AssertNoInProgressStream, CancelledEarly,
                CreateDraftFails, Goto, InLock, Marked, InGroup, Teardown
  <2> QED BY <1>0, <2>1, MarkedFrame DEF Stays
<1>3. CASE Working(s) \/ WatchDisconnect(s) \/ Cancelled(s)
  <2>1. pc[s] \in Marked /\ pc'[s] \in Marked /\ UNCHANGED refs
    BY <1>3 DEF Working, Prepare, Delta, ReasoningDelta, TouchActivity, ChatEnd, UpstreamFails,
                FinalizeToPending, CommitFinal, FinalizeFails, Epilogue, WatchDisconnect,
                Cancelled, BeginTeardown, Goto, streamVars, Marked, InGroup, Teardown
  <2> QED BY <1>0, <2>1, MarkedFrame DEF Stays
<1>4. CASE AwaitCancelled(s)
  BY <1>0, <1>4, ProceedMarks DEF AwaitCancelled, Teardown
<1>5. ASSUME NEW u \in Update, UpdateLands(s, u) PROVE Leaves(s, c) \/ Stays(c)
  <2>1. CASE u \in Awaited(s)
    BY <1>0, <1>5, <2>1, ProceedMarks DEF UpdateLands, Awaited, Teardown
  <2>2. CASE u \notin Awaited(s)
    BY <1>0, <1>5, <2>2, MarkedFrame DEF UpdateLands, Stays
  <2> QED BY <2>1, <2>2
<1>6. ASSUME NEW u \in Update, UpdateFails(s, u)
      PROVE  Leaves(s, c) \/ LeavesMarker(s, c) \/ Stays(c)
  <2>1. CASE u \in Awaited(s) /\ u # "abort"
    BY <1>0, <1>6, <2>1, ProceedMarks DEF UpdateFails, Awaited, Teardown
  <2>2. CASE ~(u \in Awaited(s) /\ u # "abort")
    <3>1. UNCHANGED refs /\ faults < MaxFaults BY <1>6, <2>2 DEF UpdateFails, Fault
    <3>2. \/ pc[s] \in Marked /\ pc'[s] \in Marked
          \/ pc'[s] \notin Marked
          \/ UNCHANGED pc
      BY <1>6, <2>2 DEF UpdateFails, BeginTeardown, Goto, Marked, InGroup, Teardown
    <3> QED BY <1>0, <3>1, <3>2, MarkedFrame DEF LeavesMarker, Stays
  <2> QED BY <2>1, <2>2
<1> QED BY <1>1, <1>2, <1>3, <1>4, <1>5, <1>6 DEF Ending

(* The number of marked streams, one more or one less.                     *)
LEMMA MarkedCount ==
  ASSUME NEW c \in Chats, NEW s \in Streams
  PROVE  /\ IsFiniteSet(MarkedIn(c)) /\ Cardinality(MarkedIn(c)) \in Nat
         /\ s \notin MarkedIn(c) =>
              Cardinality(MarkedIn(c) \cup {s}) = Cardinality(MarkedIn(c)) + 1
         /\ Cardinality(MarkedIn(c) \ {s}) =
              IF s \in MarkedIn(c) THEN Cardinality(MarkedIn(c)) - 1 ELSE Cardinality(MarkedIn(c))
<1>1. IsFiniteSet(MarkedIn(c))
  BY StreamsAssumption, FS_Subset, MarkedIn(c) \in SUBSET Streams DEF MarkedIn
<1> QED BY <1>1, FS_AddElement, FS_RemoveElement, FS_CardinalityType

Count(c) == Cardinality(MarkedIn(c))

RefsFollow(c) ==
  /\ Count(c) \in Nat /\ Count(c)' \in Nat
  /\ \/ Count(c)' = Count(c) + 1 /\ refs'[c] = refs[c] + 1
     \/ /\ Count(c) > 0 /\ Count(c)' = Count(c) - 1
        /\ refs'[c] = IF refs[c] <= 1 THEN 0 ELSE refs[c] - 1
     \/ Count(c)' <= Count(c) /\ refs'[c] = refs[c] /\ faults < MaxFaults
     \/ Count(c)' = Count(c) /\ refs'[c] = refs[c]

LEMMA CountFollows ==
  ASSUME TypeOK, NEW c \in Chats, NEW s \in Streams, Entering(s) \/ Working(s) \/ Ending(s)
  PROVE  RefsFollow(c)
<1> USE DEF RefsFollow
<1>0. /\ Count(c) \in Nat
      /\ s \notin MarkedIn(c) => Cardinality(MarkedIn(c) \cup {s}) = Count(c) + 1
      /\ Cardinality(MarkedIn(c) \ {s}) = IF s \in MarkedIn(c) THEN Count(c) - 1 ELSE Count(c)
      /\ Cardinality(MarkedIn(c) \ {s}) \in Nat
      /\ s \in MarkedIn(c) => Count(c) # 0
  BY MarkedCount, FS_CardinalityType, FS_RemoveElement, FS_EmptySet DEF Count
<1>1. Joins(s, c) \/ Leaves(s, c) \/ LeavesMarker(s, c) \/ Stays(c) BY StreamMarks
<1>2. CASE Joins(s, c) BY <1>0, <1>2 DEF Joins, Count
<1>3. CASE Leaves(s, c) BY <1>0, <1>3 DEF Leaves, Count
<1>4. CASE LeavesMarker(s, c) BY <1>0, <1>4 DEF LeavesMarker, Count
<1>5. CASE Stays(c) BY <1>0, <1>5 DEF Stays, Count
<1> QED BY <1>1, <1>2, <1>3, <1>4, <1>5

(* No chat is counted short.                                               *)
RefsCover == \A c \in Chats : Count(c) <= refs[c]

LEMMA RestartMarks ==
  ASSUME TypeOK, Restart, NEW c \in Chats
  PROVE  refs'[c] = 0 /\ Count(c)' = 0
<1>1. \A s \in Streams : pc'[s] \notin Marked
  BY DEF Restart, Marked, InGroup, Teardown
<1>2. MarkedIn(c)' = {} BY <1>1 DEF MarkedIn
<1> QED BY <1>2, FS_EmptySet DEF Restart, Count

LEMMA InitMarks == ASSUME Init, NEW c \in Chats PROVE refs[c] = 0 /\ Count(c) = 0
<1>1. MarkedIn(c) = {} BY DEF Init, MarkedIn, Marked, InGroup, Teardown
<1> QED BY <1>1, FS_EmptySet DEF Init, Count

(* Whatever fails for good, and however often the process restarts, the    *)
(* registry never counts fewer streams in a chat than are being torn down  *)
(* or still running: mark_inactive never takes away a marker that is not   *)
(* its own, so the reaper's is_active never answers no too early.          *)
THEOREM MarkersNeverFallShort == Spec => []RefsCover
<1>1. Init => RefsCover BY InitMarks DEF RefsCover
<1>2. TypeOK /\ RefsCover /\ [Next]_vars => RefsCover'
  <2> SUFFICES ASSUME TypeOK, RefsCover, [Next]_vars, NEW c \in Chats
               PROVE  Count(c)' <= refs'[c]
    BY DEF RefsCover
  <2>0. Count(c) <= refs[c] /\ refs[c] \in Nat BY DEF RefsCover
  <2>1. ASSUME NEW s \in Streams, StreamStep(s) \/ StreamEvent(s)
        PROVE  Count(c)' <= refs'[c]
    <3>1. Entering(s) \/ Working(s) \/ Ending(s) BY <2>1, StepKinds
    <3>2. RefsFollow(c) BY <3>1, CountFollows
    <3> QED BY <2>0, <3>2 DEF RefsFollow
  <2>2. CASE Restart BY <2>2, RestartMarks
  <2>3. CASE Reaper \/ (Environment /\ ~Restart) \/ UNCHANGED vars
    BY <2>0, <2>3, StreamsKept DEF Count, MarkedIn
  <2> QED BY <2>1, <2>2, <2>3 DEF Next
<1> QED BY <1>1, <1>2, TypeCorrect, PTL DEF Spec

(* The marker is set up once and torn down exactly once for every exit of  *)
(* stream_chat, however many streams overlap in a chat, as long as no      *)
(* database write fails for good.                                          *)
THEOREM MarkersMatchStreams == ASSUME MaxFaults = 0 PROVE Spec => []MarkerPaired
<1>1. Init => MarkerPaired BY InitMarks DEF MarkerPaired, MarkedIn, Count
<1>2. TypeOK /\ MarkerPaired /\ [Next]_vars => MarkerPaired'
  <2> SUFFICES ASSUME TypeOK, MarkerPaired, [Next]_vars, NEW c \in Chats
               PROVE  refs'[c] = Count(c)'
    BY DEF MarkerPaired, MarkedIn, Count
  <2>0. refs[c] = Count(c) /\ refs[c] \in Nat BY DEF MarkerPaired, MarkedIn, Count
  <2>1. ASSUME NEW s \in Streams, StreamStep(s) \/ StreamEvent(s)
        PROVE  refs'[c] = Count(c)'
    <3>1. Entering(s) \/ Working(s) \/ Ending(s) BY <2>1, StepKinds
    <3>2. RefsFollow(c) BY <3>1, CountFollows
    <3>3. ~(faults < MaxFaults) OBVIOUS
    <3> QED BY <2>0, <3>2, <3>3 DEF RefsFollow
  <2>2. CASE Restart BY <2>2, RestartMarks
  <2>3. CASE Reaper \/ (Environment /\ ~Restart) \/ UNCHANGED vars
    BY <2>0, <2>3, StreamsKept DEF Count, MarkedIn
  <2> QED BY <2>1, <2>2, <2>3 DEF Next
<1> QED BY <1>1, <1>2, TypeCorrect, PTL DEF Spec

(* A chat with a marked stream is active.                                  *)
LEMMA MarkedIsActive ==
  ASSUME TypeOK, RefsCover, NEW s \in Streams, pc[s] \in Marked
  PROVE  IsActive(chat[s])
<1>1. s \in MarkedIn(chat[s]) /\ chat[s] \in Chats BY DEF MarkedIn
<1>2. IsFiniteSet(MarkedIn(chat[s])) /\ Cardinality(MarkedIn(chat[s])) \in Nat
  BY <1>1, MarkedCount
<1>3. Cardinality(MarkedIn(chat[s])) # 0 BY <1>1, <1>2, FS_EmptySet
<1> QED BY <1>1, <1>2, <1>3 DEF RefsCover, IsActive, Count

-----------------------------------------------------------------------------
(* What a stream past the lock does to the table: it writes the row of its *)
(* message id, in one of six ways.                                         *)

Fresh(row, state, text, form) ==
  [row EXCEPT !.state = state, !.text = text, !.form = form, !.age = "fresh"]
Closed(row, state) == Fresh(row, state, row.text, row.form)

(* What stays in the buffer and what reaches the row is no more than was   *)
(* in the buffer and has just been received.                               *)
Drains(s, n) == n + buf'[s] + acc[s] <= buf[s] + acc'[s]

Flushes(s, old, new) ==
  /\ pc[s] = "generating" /\ old.state = "draft"
  /\ \E n \in Nat : Drains(s, n) /\ new = Fresh(old, "draft", old.text + n, old.form)
Prepares(s, old, new) ==
  /\ pc[s] = "finalizing" /\ pc'[s] = "committing" /\ old.state = "draft"
  /\ new = Fresh(old, "pending_finalization", acc[s], "terminal")
Commits(s, old, new) ==
  /\ pc[s] = "committing" /\ old.state = "pending_finalization"
  /\ new = Closed(old, "final")
Aborts(s, old, new) ==
  /\ inflight[s] \cap {"watch", "abort"} # {} /\ old.state = "draft"
  /\ new = Closed(old, "aborted_by_client")
Releases(s, old, new) ==
  /\ "release" \in inflight[s] /\ old.state = "draft"
  /\ \/ new = Fresh(old, "final", acc[s], "terminal")
     \/ new = Closed(old, "final")
Salvages(s, old, new) ==
  /\ old.state = "aborted_by_client"
  /\ new = [old EXCEPT !.form = "raw", !.text = acc[s]]

RowWritten(s, old, new) ==
  \/ new = old
  \/ Flushes(s, old, new) \/ Prepares(s, old, new) \/ Commits(s, old, new)
  \/ Aborts(s, old, new) \/ Releases(s, old, new) \/ Salvages(s, old, new)

Writes(s) ==
  /\ msg[s] \in Ids
  /\ \A i \in Ids : i # msg[s] => turns'[i] = turns[i]
  /\ RowWritten(s, turns[msg[s]], turns'[msg[s]])

LEMMA AbsentOrTurn ==
  ASSUME TypeOK, NEW i \in Ids
  PROVE  turns[i] \in Turn \/ (turns[i] = NoTurn /\ turns[i].state = "absent")
<1>1. NoTurn.state = "absent" BY DEF NoTurn
<1>2. turns[i] \in Turn \cup {NoTurn} OBVIOUS
<1> QED BY <1>1, <1>2

LEMMA FreshTransition ==
  ASSUME NEW row \in Row, NEW from \in PersistState, NEW to \in PersistState
  PROVE  Transition(row, from, to) = IF row.state = from THEN Closed(row, to) ELSE row
<1>1. CASE row.state = from
  <2>1. row \in Turn BY <1>1, PresentRow DEF PersistState
  <2> QED BY <1>1, <2>1 DEF Transition, Closed, Fresh, Turn
<1>2. CASE row.state # from BY <1>2 DEF Transition
<1> QED BY <1>1, <1>2

LEMMA FreshWrites ==
  ASSUME NEW row \in Row, NEW n \in Nat
  PROVE  /\ ToPending(row, n) =
              IF row.state = "draft" THEN Fresh(row, "pending_finalization", n, "terminal") ELSE row
         /\ ReleaseDraft(row, n) \subseteq
              IF row.state = "draft"
              THEN {Fresh(row, "final", n, "terminal"), Closed(row, "final")} ELSE {row}
         /\ FlushDraft(row, n) =
              IF row.state = "draft" THEN Fresh(row, "draft", row.text + n, row.form) ELSE row
<1>1. Transition(row, "draft", "final") = IF row.state = "draft" THEN Closed(row, "final") ELSE row
  BY FreshTransition DEF PersistState
<1>2. CASE row \in Turn
  <2>1. \A to \in PersistState : Resolved(row, to, n) = Fresh(row, to, n, "terminal")
    BY <1>2 DEF Resolved, Closed, Fresh, Turn
  <2>2. FlushDraft(row, n) =
          IF row.state = "draft" THEN Fresh(row, "draft", row.text + n, row.form) ELSE row
    BY <1>2 DEF FlushDraft, Closed, Fresh, Turn
  <2> QED BY <1>1, <2>1, <2>2 DEF ToPending, ReleaseDraft, PersistState
<1>3. CASE row = NoTurn
  BY <1>3 DEF ToPending, ReleaseDraft, FlushDraft, NoTurn
<1> QED BY <1>2, <1>3 DEF Row

LEMMA WorkWrites ==
  ASSUME TypeOK, NEW s \in Streams, Working(s)
  PROVE  Writes(s) /\ UNCHANGED <<msg, lastId, sweep>>
<1> DEFINE i == msg[s]
           old == turns[i]
<1>0. i \in Ids /\ old \in Row /\ acc[s] \in 0 .. MaxDeltas
  BY DEF Working, Prepare, Delta, ReasoningDelta, TouchActivity, ChatEnd, UpstreamFails, FinalizeToPending,
         CommitFinal, FinalizeFails, Epilogue, Row, Marked, InGroup
<1>1. UNCHANGED <<msg, lastId, sweep>>
  BY DEF Working, Prepare, Delta, ReasoningDelta, TouchActivity, ChatEnd, UpstreamFails, FinalizeToPending,
         CommitFinal, FinalizeFails, Epilogue, rowVars, streamVars
<1>2. ASSUME NEW row, turns' = [turns EXCEPT ![i] = row], RowWritten(s, old, row)
      PROVE  Writes(s)
  BY <1>0, <1>2 DEF Writes
<1>3. CASE UNCHANGED turns BY <1>0, <1>1, <1>3 DEF Writes, RowWritten
<1>4. CASE Delta(s) \/ ReasoningDelta(s) \/ ChatEnd(s)
  <2>1. buf[s] \in Nat /\ acc[s] \in Nat /\ pc[s] = "generating"
    BY <1>0, <1>4 DEF Delta, ReasoningDelta, ChatEnd
  <2>2. ASSUME NEW n \in Nat, Flush(s, n), Drains(s, n) PROVE Writes(s)
    <3>1. FlushDraft(old, n) = old \/ Flushes(s, old, FlushDraft(old, n))
      BY <1>0, <2>1, <2>2, FreshWrites DEF Flushes
    <3> QED BY <1>2, <2>2, <3>1 DEF Flush, RowWritten
  <2>3. ASSUME Flush(s, buf[s] + 1), acc' = [acc EXCEPT ![s] = @ + 1] PROVE Drains(s, buf[s] + 1)
    <3>1. buf'[s] = 0 /\ acc'[s] = acc[s] + 1 BY <2>3 DEF Flush
    <3> QED BY <2>1, <3>1 DEF Drains
  <2>4. ASSUME Flush(s, buf[s]), UNCHANGED acc PROVE Drains(s, buf[s])
    <3>1. buf'[s] = 0 /\ acc'[s] = acc[s] BY <2>4 DEF Flush
    <3> QED BY <2>1, <3>1 DEF Drains
  <2>5. CASE Delta(s)
    BY <1>1, <1>3, <2>1, <2>2, <2>3, <2>5 DEF Delta, NoFlush
  <2>6. CASE ReasoningDelta(s) \/ ChatEnd(s)
    BY <1>1, <1>3, <2>1, <2>2, <2>4, <2>6 DEF ReasoningDelta, ChatEnd
  <2> QED BY <1>1, <1>4, <2>5, <2>6
<1>5. CASE TouchActivity(s)
  <2>1. old \in Turn /\ pc[s] = "generating" /\ old.state = "draft"
    BY <1>0, <1>5, PresentRow DEF TouchActivity
  <2>2. turns' = [turns EXCEPT ![i] = Fresh(old, "draft", old.text + 0, old.form)]
    <3>1. old.text + 0 = old.text BY <2>1 DEF Turn
    <3> QED BY <1>0, <1>5, <2>1, <3>1 DEF TouchActivity, Closed, Fresh, Turn
  <2>3. Drains(s, 0)
    <3>1. acc'[s] = acc[s] /\ buf'[s] = buf[s] /\ acc[s] \in Nat /\ buf[s] \in Nat
      BY <1>0, <1>5 DEF TouchActivity, streamVars
    <3> QED BY <3>1 DEF Drains
  <2>4. Flushes(s, old, Fresh(old, "draft", old.text + 0, old.form)) BY <2>1, <2>3 DEF Flushes
  <2> QED BY <1>1, <1>2, <2>2, <2>4 DEF RowWritten
<1>6. CASE FinalizeToPending(s)
  <2>1. pc[s] = "finalizing" /\ (old.state = "draft" => pc'[s] = "committing")
    BY <1>6 DEF FinalizeToPending, Goto
  <2>2. RowWritten(s, old, ToPending(old, acc[s]))
    BY <1>0, <2>1, FreshWrites DEF RowWritten, Prepares
  <2> QED BY <1>1, <1>2, <1>6, <2>2 DEF FinalizeToPending
<1>7. CASE CommitFinal(s)
  <2>1. RowWritten(s, old, FinalizePending(old))
    BY <1>0, <1>7, FreshTransition DEF RowWritten, Commits, CommitFinal, FinalizePending, PersistState
  <2> QED BY <1>1, <1>2, <1>7, <2>1 DEF CommitFinal
<1>8. \/ UNCHANGED turns \/ TouchActivity(s) \/ FinalizeToPending(s) \/ CommitFinal(s)
      \/ Delta(s) \/ ReasoningDelta(s) \/ ChatEnd(s)
  BY DEF Working, Prepare, UpstreamFails, FinalizeFails, Epilogue, rowVars
<1> QED BY <1>1, <1>3, <1>4, <1>5, <1>6, <1>7, <1>8

LEMMA EndWrites ==
  ASSUME TypeOK, NEW s \in Streams, Ending(s)
  PROVE  Writes(s) /\ UNCHANGED <<msg, lastId, sweep>>
<1>1. CASE WatchDisconnect(s) \/ Cancelled(s) \/ AwaitCancelled(s)
  <2>1. msg[s] \in Ids /\ UNCHANGED <<turns, msg, lastId, sweep>>
    BY <1>1 DEF WatchDisconnect, Cancelled, AwaitCancelled, rowVars, Marked, InGroup, Teardown
  <2> QED BY <2>1 DEF Writes, RowWritten
<1>2. ASSUME NEW u \in Update, UpdateFails(s, u) PROVE Writes(s) /\ UNCHANGED <<msg, lastId, sweep>>
  <2>1. msg[s] \in Ids /\ UNCHANGED <<turns, msg, lastId, sweep>>
    BY <1>2 DEF UpdateFails, rowVars
  <2> QED BY <2>1 DEF Writes, RowWritten
<1>3. ASSUME NEW u \in Update, UpdateLands(s, u) PROVE Writes(s) /\ UNCHANGED <<msg, lastId, sweep>>
  <2> DEFINE old == turns[msg[s]]
  <2>1. /\ msg[s] \in Ids /\ u \in inflight[s] /\ old \in Row /\ acc[s] \in Nat
        /\ UNCHANGED <<msg, lastId, sweep>>
    BY <1>3 DEF UpdateLands, Row
  <2>2. PICK new \in UpdatedRow(s, u, old) : turns' = [turns EXCEPT ![msg[s]] = new]
    BY <1>3 DEF UpdateLands
  <2>3. RowWritten(s, old, new)
    <3>1. CASE u \in {"watch", "abort"}
      <4>1. new = IF old.state = "draft" THEN Closed(old, "aborted_by_client") ELSE old
        BY <2>1, <2>2, <3>1, FreshTransition DEF UpdatedRow, SafeAbortDraft, PersistState
      <4> QED BY <2>1, <3>1, <4>1 DEF RowWritten, Aborts
    <3>2. CASE u = "release"
      <4>1. new \in IF old.state = "draft"
                    THEN {Fresh(old, "final", acc[s], "terminal"), Closed(old, "final")} ELSE {old}
        BY <2>1, <2>2, <3>2, FreshWrites DEF UpdatedRow
      <4> QED BY <2>1, <3>2, <4>1 DEF RowWritten, Releases
    <3>3. CASE u = "salvage"
      <4>1. new = SalvageAborted(old, acc[s]) BY <2>2, <3>3 DEF UpdatedRow
      <4> QED BY <4>1 DEF SalvageAborted, RowWritten, Salvages
    <3> QED BY <3>1, <3>2, <3>3 DEF Update
  <2> QED BY <2>1, <2>2, <2>3 DEF Writes
<1> QED BY <1>1, <1>2, <1>3 DEF Ending

-----------------------------------------------------------------------------
(* What everyone else does to the table.                                   *)

Inserts(s) ==
  /\ turns' = [turns EXCEPT ![NextId] = [chat |-> chat[s], by |-> s,
                 state |-> "draft", text |-> 0, form |-> "raw", age |-> "fresh"]]
  /\ NextId \in Ids /\ lastId' = IF NextId > lastId THEN NextId ELSE lastId
Recovers(i) ==
  /\ turns[i].state = "pending_finalization"
  /\ turns' = [turns EXCEPT ![i] = Closed(turns[i], "final")]
Flips ==
  /\ sweep.at = "flip"
  /\ turns' = [i \in Ids |-> IF i \in SweptIds /\ turns[i].state = "draft"
                             THEN Closed(turns[i], "final") ELSE turns[i]]
Reaps ==
  /\ sweep.at = "reap"
  /\ turns' = [i \in Ids |-> IF i \in SweptIds THEN NoTurn ELSE turns[i]]
Ages(i) ==
  /\ turns[i].state = "draft" /\ turns[i].age # "old"
  /\ \E a \in {"quiet", "old"} :
       /\ turns' = [turns EXCEPT ![i] = [turns[i] EXCEPT !.age = a]]
       /\ a = "old" => \A s \in Streams : msg[s] = i => pc[s] = "done" /\ inflight[s] = {}
Deletes ==
  \E D \in SUBSET Ids, c \in Chats :
    /\ \A i \in D : Exists(i) /\ turns[i].chat = c
    /\ turns' = [i \in Ids |-> IF i \in D THEN NoTurn ELSE turns[i]]

LEMMA EnterWrites ==
  ASSUME TypeOK, NEW s \in Streams, Entering(s)
  PROVE  /\ UNCHANGED sweep
         /\ \/ UNCHANGED <<turns, lastId, msg>>
            \/ Inserts(s) /\ (UNCHANGED msg \/ msg' = [msg EXCEPT ![s] = NextId])
BY DEF Entering, AcquireLock, AssertNoInProgressStream, CreateDraft, CancelledEarly,
       CreateDraftFails, Inserts, InsertTurn, rowVars

LEMMA ReaperWrites ==
  ASSUME TypeOK, Reaper
  PROVE  UNCHANGED turns \/ (\E i \in Ids : Recovers(i)) \/ Flips \/ Reaps
<1>1. CASE RecoverPending
  <2>1. PICK r \in sweep.rows :
          UNCHANGED turns \/ turns' = [turns EXCEPT ![r[1]] = FinalizePending(@)]
    BY <1>1 DEF RecoverPending
  <2>2. r[1] \in Ids /\ turns[r[1]] \in Row BY <2>1 DEF Row
  <2>3. FinalizePending(turns[r[1]]) =
          IF turns[r[1]].state = "pending_finalization"
          THEN Closed(turns[r[1]], "final") ELSE turns[r[1]]
    BY <2>2, FreshTransition DEF FinalizePending, PersistState
  <2> QED BY ZenonT(30), <2>1, <2>2, <2>3 DEF Recovers
<1>2. CASE FlipStuck /\ ~UNCHANGED turns
  <2>1. \A i \in Ids : Transition(turns[i], "draft", "final") =
          IF turns[i].state = "draft" THEN Closed(turns[i], "final") ELSE turns[i]
    BY FreshTransition DEF PersistState, Row
  <2>2. /\ sweep.at = "flip"
        /\ turns' = [i \in Ids |-> IF i \in SweptIds
                                   THEN Transition(turns[i], "draft", "final") ELSE turns[i]]
    BY <1>2 DEF FlipStuck
  <2> QED BY <2>1, <2>2 DEF Flips
<1>3. CASE DeleteOld BY <1>3 DEF DeleteOld, Reaps
<1>4. CASE SelectPending \/ SelectStuck \/ SkipActive \/ SelectOld
  BY <1>4 DEF SelectPending, SelectStuck, SkipActive, SelectOld
<1> QED BY <1>1, <1>2, <1>3, <1>4 DEF Reaper

LEMMA EnvironmentWrites ==
  ASSUME TypeOK, Environment
  PROVE  /\ (\E i \in Ids : Ages(i)) \/ Deletes \/ (UNCHANGED turns /\ Restart)
         /\ UNCHANGED <<lastId, msg, acc, chat, completed, gone>>
         /\ UNCHANGED sweep \/ sweep'.rows = {}
<1>1. ASSUME NEW i \in Ids, GoQuiet(i) \/ GoOld(i)
      PROVE  Ages(i) /\ UNCHANGED <<lastId, msg, acc, chat, completed, gone, sweep>>
  <2>1. CASE GoQuiet(i) BY <2>1 DEF GoQuiet, Ages, streamVars
  <2>2. CASE GoOld(i) BY <2>2 DEF GoOld, Ages, streamVars
  <2> QED BY <1>1, <2>1, <2>2
<1>2. CASE UserDeletes
  <2>1. ASSUME NEW D \in SUBSET Ids, NEW c \in Chats, Remove(D),
               \A i \in D : Exists(i) /\ turns[i].chat = c
        PROVE  Deletes
    BY <2>1 DEF Deletes, Remove
  <2>2. \A i \in Ids : Exists(i) => turns[i].chat \in Chats BY AbsentOrTurn DEF Exists, Turn
  <2>3. Deletes
    <3>1. ASSUME NEW i \in Ids, DeleteMessage(i) PROVE Deletes
      <4>1. {i} \in SUBSET Ids /\ Exists(i) /\ Remove({i}) BY <3>1 DEF DeleteMessage
      <4> QED BY <2>1, <2>2, <4>1
    <3>2. ASSUME NEW i \in Ids, DeleteOnward(i) PROVE Deletes
      <4> DEFINE D == {j \in Ids : Exists(j) /\ turns[j].chat = turns[i].chat /\ j >= i}
      <4>1. Exists(i) /\ Remove(D) BY <3>2 DEF DeleteOnward
      <4>2. D \in SUBSET Ids /\ \A j \in D : Exists(j) /\ turns[j].chat = turns[i].chat OBVIOUS
      <4> QED BY <2>1, <2>2, <4>1, <4>2
    <3>3. ASSUME NEW c \in Chats, ClearMessages(c) PROVE Deletes
      <4> DEFINE D == {j \in Ids : Exists(j) /\ turns[j].chat = c}
      <4>1. Remove(D) BY <3>3 DEF ClearMessages
      <4>2. D \in SUBSET Ids /\ \A j \in D : Exists(j) /\ turns[j].chat = c OBVIOUS
      <4> QED BY <2>1, <4>1, <4>2
    <3> QED BY <1>2, <3>1, <3>2, <3>3 DEF UserDeletes
  <2>4. Deletion BY <1>2 DEF UserDeletes, DeleteMessage, DeleteOnward, ClearMessages
  <2> QED BY <2>3, <2>4 DEF Deletion, streamVars
<1>3. CASE Restart BY <1>3 DEF Restart, rowVars
<1> QED BY <1>1, <1>2, <1>3 DEF Environment, UserDeletes

(* No step but an insertion gives a row another owner or chat.             *)
SameOwners ==
  \A i \in Ids : turns'[i].state # "absent" =>
    /\ turns[i].state # "absent"
    /\ turns'[i].by = turns[i].by /\ turns'[i].chat = turns[i].chat

LEMMA WritesKeepOwners == ASSUME TypeOK, NEW s \in Streams, Writes(s) PROVE SameOwners
<1> DEFINE old == turns[msg[s]]
           new == turns'[msg[s]]
<1>1. CASE new = old BY <1>1 DEF Writes, SameOwners
<1>2. CASE new # old
  <2>1. old.state \in PersistState
    BY <1>2 DEF Writes, RowWritten, Flushes, Prepares, Commits, Aborts, Releases, Salvages, PersistState
  <2>2. old \in Turn BY <2>1, AbsentOrTurn DEF Writes, PersistState
  <2>3. new.by = old.by /\ new.chat = old.chat
    BY <1>2, <2>2 DEF Writes, RowWritten, Flushes, Prepares, Commits, Aborts, Releases, Salvages,
                      Closed, Fresh, Turn
  <2> QED BY <2>1, <2>3 DEF Writes, SameOwners, PersistState
<1> QED BY <1>1, <1>2

LEMMA OthersKeepOwners ==
  ASSUME TypeOK, Reaper \/ Environment \/ UNCHANGED vars
  PROVE  SameOwners
<1>0. \A i \in Ids : turns[i].state # "absent" => turns[i] \in Turn BY AbsentOrTurn
<1>1. ASSUME NEW i \in Ids, Recovers(i) PROVE SameOwners
  BY <1>0, <1>1 DEF Recovers, Closed, Fresh, SameOwners, Turn
<1>2. CASE Flips BY <1>0, <1>2 DEF Flips, Closed, Fresh, SameOwners, Turn
<1>3. CASE Reaps BY <1>3 DEF Reaps, SameOwners, NoTurn
<1>4. ASSUME NEW i \in Ids, Ages(i) PROVE SameOwners
  BY <1>0, <1>4 DEF Ages, SameOwners, Turn
<1>5. CASE Deletes BY <1>5 DEF Deletes, SameOwners, NoTurn
<1>6. CASE UNCHANGED turns BY <1>6 DEF SameOwners
<1> QED BY <1>1, <1>2, <1>3, <1>4, <1>5, <1>6, ReaperWrites, EnvironmentWrites DEF vars

-----------------------------------------------------------------------------
(* Whose row is whose. A stream claims the row of its message id as long   *)
(* as it may still write it, and for good once it has completed the turn.  *)
(* Rows that are claimed, and rows the reaper has selected, keep their     *)
(* ids. A Postgres sequence never hands out an id twice; SQLite hands out  *)
(* that of a row that is gone, but the reaper removes no row that is       *)
(* claimed, so this is enough unless the user deletes messages.            *)

NoReuse == ~ReuseIds \/ MaxDeletes = 0

Over(s) == pc[s] = "done" /\ inflight[s] = {}
Claims(s) == msg[s] \in Ids /\ (~Over(s) \/ completed[s])

Ownership ==
  /\ \A s, q \in Streams : Claims(s) /\ Claims(q) /\ msg[s] = msg[q] => s = q
  /\ \A s \in Streams : Claims(s) /\ Exists(msg[s]) =>
       turns[msg[s]].by = s /\ turns[msg[s]].chat = chat[s]

IdsCounted ==
  ~ReuseIds =>
    /\ \A i \in Ids : Exists(i) => i <= lastId
    /\ \A s \in Streams : msg[s] <= lastId
    /\ \A r \in sweep.rows : r[1] <= lastId
RowsHeld ==
  ReuseIds =>
    /\ \A s \in Streams : Claims(s) => Exists(msg[s])
    /\ \A r \in sweep.rows : Exists(r[1])

(* What an insertion needs of its id.                                      *)
IdIsNew(i) ==
  /\ ~Exists(i)
  /\ \A s \in Streams : Claims(s) => msg[s] # i
  /\ \A r \in sweep.rows : r[1] # i

Less == {p \in Nat \X Nat : p[1] < p[2]}

LEMMA GreatestId ==
  ASSUME NEW S \in SUBSET Ids, S # {}
  PROVE  \E x \in S : \A y \in S : y <= x
<1> DEFINE T == {MaxTurns - x : x \in S}
<1>1. T \subseteq Nat /\ T # {}
  <2>1. \A x \in S : MaxTurns - x \in Nat BY BoundsAssumption
  <2> QED BY <2>1
<1>2. IsWellFoundedOn(Less, Nat) BY NatLessThanWellFounded DEF OpToRel, Less
<1>3. PICK t \in T : \A u \in T : <<u, t>> \notin Less BY <1>1, <1>2, WFMin
<1>4. PICK x \in S : t = MaxTurns - x BY <1>3
<1>5. ASSUME NEW y \in S PROVE y <= x
  <2>1. MaxTurns - y \in T /\ MaxTurns - y \in Nat /\ t \in Nat BY <1>1
  <2>2. ~(MaxTurns - y < t) BY <1>3, <2>1 DEF Less
  <2> QED BY <1>4, <2>1, <2>2, BoundsAssumption
<1> QED BY <1>5

LEMMA NextIdIsFree ==
  ASSUME ReuseIds, TypeOK, NEW i \in Ids, Exists(i)
  PROVE  i < NextId
<1> DEFINE S == {j \in Ids : Exists(j)}
           P(n) == /\ \A j \in Ids : Exists(j) => j < n
                   /\ n = 1 \/ Exists(n - 1)
<1>1. PICK x \in S : \A y \in S : y <= x
  <2>1. S \in SUBSET Ids /\ S # {} OBVIOUS
  <2> QED BY <2>1, GreatestId
<1>2. x + 1 \in 1 .. (MaxTurns + 1) /\ P(x + 1)
  <2>1. x \in Nat /\ x <= MaxTurns /\ (x + 1) - 1 = x BY <1>1, BoundsAssumption
  <2>2. \A j \in Ids : Exists(j) => j < x + 1 BY <1>1, <2>1
  <2> QED BY <1>1, <2>1, <2>2, BoundsAssumption
<1>3. NextId = CHOOSE n \in 1 .. (MaxTurns + 1) : P(n) BY DEF NextId
<1> HIDE DEF P
<1>4. P(NextId) BY <1>2, <1>3
<1> QED BY <1>4 DEF P

LEMMA NextIdIsNew ==
  ASSUME TypeOK, IdsCounted, RowsHeld, NextId \in Ids
  PROVE  IdIsNew(NextId)
<1>1. CASE ~ReuseIds
  <2>1. NextId = lastId + 1 BY <1>1 DEF NextId
  <2>2. \A r \in sweep.rows : r[1] \in Nat OBVIOUS
  <2> QED BY <1>1, <2>1, <2>2 DEF IdsCounted, IdIsNew
<1>2. CASE ReuseIds
  <2>1. \A i \in Ids : Exists(i) => i # NextId BY <1>2, NextIdIsFree
  <2>2. \A s \in Streams : Claims(s) => msg[s] \in Ids /\ Exists(msg[s])
    BY <1>2 DEF RowsHeld, Claims
  <2>3. \A r \in sweep.rows : r[1] \in Ids /\ Exists(r[1]) BY <1>2 DEF RowsHeld
  <2> QED BY <2>1, <2>2, <2>3 DEF IdIsNew
<1> QED BY <1>1, <1>2 DEF BoundsAssumption

LEMMA ReaperSelects ==
  ASSUME TypeOK, Reaper, NEW r \in sweep'.rows
  PROVE  r \in sweep.rows \/ (r[1] \in Ids /\ Exists(r[1]))
<1>1. \/ sweep'.rows \subseteq sweep.rows
      \/ \E I \in SUBSET {i \in Ids : Exists(i)} : sweep'.rows = WithChat(I)
  <2>1. CASE RecoverPending \/ SkipActive \/ FlipStuck \/ DeleteOld
    BY <2>1 DEF RecoverPending, SkipActive, FlipStuck, DeleteOld, SweepTo
  <2>2. ASSUME NEW I \in SUBSET Ids, SweepTo(sweep'.at, WithChat(I)), \A i \in I : Exists(i)
        PROVE  \E J \in SUBSET {i \in Ids : Exists(i)} : sweep'.rows = WithChat(J)
    <3>1. I \in SUBSET {i \in Ids : Exists(i)} BY <2>2
    <3>2. sweep'.rows = WithChat(I) BY <2>2 DEF SweepTo
    <3> QED BY <3>1, <3>2
  <2>3. CASE SelectPending
    BY <2>2, <2>3 DEF SelectPending, SweepTo, Exists
  <2>4. CASE SelectStuck BY <2>2, <2>4 DEF SelectStuck, SweepTo, Exists
  <2>5. CASE SelectOld BY <2>2, <2>5 DEF SelectOld, SweepTo, Exists
  <2> QED BY <2>1, <2>3, <2>4, <2>5 DEF Reaper
<1>2. CASE sweep'.rows \subseteq sweep.rows BY <1>2
<1>3. ASSUME NEW I \in SUBSET {i \in Ids : Exists(i)}, r \in WithChat(I)
      PROVE  r[1] \in Ids /\ Exists(r[1])
  <2>1. PICK i \in I : r = <<i, turns[i].chat>> BY <1>3 DEF WithChat
  <2>2. r[1] = i /\ i \in Ids /\ Exists(i) BY <2>1
  <2> QED BY <2>2
<1> QED BY <1>1, <1>2, <1>3

(* A step that inserts nothing makes no claims.                            *)
ClaimsStay == \A s \in Streams : Claims(s)' => msg'[s] = msg[s] /\ Claims(s)

LEMMA BusyStream ==
  ASSUME NEW s \in Streams, Working(s) \/ Ending(s)
  PROVE  ~Over(s)
BY DEF Working, Prepare, Delta, ReasoningDelta, TouchActivity, ChatEnd, UpstreamFails, FinalizeToPending,
       CommitFinal, FinalizeFails, Epilogue, Ending, WatchDisconnect, Cancelled, AwaitCancelled,
       UpdateLands, UpdateFails, InGroup, Over

LEMMA MarkedClaims ==
  ASSUME TypeOK, NEW s \in Streams, pc[s] \in Marked \/ inflight[s] # {}
  PROVE  Claims(s)
BY DEF Claims, Over, Marked, InGroup, Teardown

LEMMA WriterClaims ==
  ASSUME TypeOK, NEW s \in Streams, Working(s) \/ Ending(s)
  PROVE  Claims(s) /\ ClaimsStay
<1>1. Writes(s) /\ UNCHANGED msg BY WorkWrites, EndWrites
<1>2. Claims(s) BY <1>1, BusyStream DEF Claims, Writes
<1>3. \A q \in Streams : q # s => Kept(q) BY OthersKept
<1> QED BY <1>1, <1>2, <1>3 DEF ClaimsStay, Claims, Over, Kept

LEMMA OthersClaim ==
  ASSUME TypeOK, Reaper \/ Environment \/ UNCHANGED vars
  PROVE  ClaimsStay
<1>1. CASE Restart BY <1>1 DEF Restart, ClaimsStay, Claims, Over
<1>2. CASE ~Restart BY <1>2, StreamsKept DEF ClaimsStay, Claims, Over
<1> QED BY <1>1, <1>2

(* A stream that enters claims nothing, until it has inserted its rows.    *)
LEMMA EntererClaims ==
  ASSUME TypeOK, StreamShape, NEW s \in Streams, Entering(s)
  PROVE  /\ msg[s] = 0 /\ ~Claims(s)
         /\ Claims(s)' => Inserts(s) /\ msg'[s] = NextId
         /\ \A q \in Streams : q # s => msg'[q] = msg[q] /\ (Claims(q)' <=> Claims(q))
<1>1. msg[s] = 0 /\ ~completed[s]
  BY DEF Entering, AcquireLock, AssertNoInProgressStream, CreateDraft, CancelledEarly,
         CreateDraftFails, InLock, StreamShape, Shape
<1>2. msg'[s] = 0 \/ (Inserts(s) /\ msg'[s] = NextId) BY <1>1, EnterWrites
<1>3. \A q \in Streams : q # s => Kept(q) BY OthersKept
<1> QED BY <1>1, <1>2, <1>3 DEF Claims, Over, Kept

LEMMA OwnershipKept ==
  ASSUME TypeOK, Ownership, SameOwners, ClaimsStay, UNCHANGED chat
  PROVE  Ownership'
<1>1. ASSUME NEW s \in Streams, Claims(s)', turns'[msg'[s]].state # "absent"
      PROVE  turns'[msg'[s]].by = s /\ turns'[msg'[s]].chat = chat'[s]
  <2>1. Claims(s) /\ msg'[s] = msg[s] /\ msg[s] \in Ids BY <1>1 DEF ClaimsStay, Claims
  <2>2. /\ turns[msg[s]].state # "absent"
        /\ turns'[msg[s]].by = turns[msg[s]].by /\ turns'[msg[s]].chat = turns[msg[s]].chat
    BY <1>1, <2>1 DEF SameOwners
  <2> QED BY <2>1, <2>2 DEF Ownership, Exists
<1>2. \A s, q \in Streams : Claims(s)' /\ Claims(q)' /\ msg'[s] = msg'[q] => s = q
  BY DEF Ownership, ClaimsStay
<1> QED BY <1>1, <1>2 DEF Ownership, Exists

LEMMA IdsCountedKept ==
  ASSUME TypeOK, IdsCounted, SameOwners, UNCHANGED <<msg, lastId>>,
         \A r \in sweep'.rows : r \in sweep.rows \/ (r[1] \in Ids /\ Exists(r[1]))
  PROVE  IdsCounted'
<1>1. \A i \in Ids : Exists(i)' => Exists(i) BY DEF SameOwners, Exists
<1> QED BY <1>1 DEF IdsCounted

(* The rows that a step removes are neither claimed nor selected.          *)
RemovesFree ==
  \A i \in Ids : Exists(i) /\ turns'[i].state = "absent" =>
    /\ \A s \in Streams : Claims(s) => msg[s] # i
    /\ \A r \in sweep'.rows : r[1] # i

LEMMA RowsHeldKept ==
  ASSUME TypeOK, RowsHeld, ClaimsStay, ReuseIds => RemovesFree,
         \A r \in sweep'.rows : r \in sweep.rows \/ (r[1] \in Ids /\ Exists(r[1]))
  PROVE  RowsHeld'
<1> SUFFICES ASSUME ReuseIds
             PROVE  /\ \A s \in Streams : Claims(s)' => turns'[msg'[s]].state # "absent"
                    /\ \A r \in sweep'.rows : turns'[r[1]].state # "absent"
  BY DEF RowsHeld, Exists
<1>1. ASSUME NEW s \in Streams, Claims(s)' PROVE turns'[msg'[s]].state # "absent"
  <2>1. Claims(s) /\ msg'[s] = msg[s] /\ msg[s] \in Ids BY <1>1 DEF ClaimsStay, Claims
  <2>2. Exists(msg[s]) BY <2>1 DEF RowsHeld
  <2> QED BY <2>1, <2>2 DEF RemovesFree
<1>2. ASSUME NEW r \in sweep'.rows PROVE turns'[r[1]].state # "absent"
  <2>1. r[1] \in Ids /\ Exists(r[1]) BY <1>2 DEF RowsHeld
  <2> QED BY <1>2, <2>1 DEF RemovesFree
<1> QED BY <1>1, <1>2

LEMMA IdsCountedInserted ==
  ASSUME TypeOK, IdsCounted, NEW s \in Streams, Inserts(s), UNCHANGED sweep,
         UNCHANGED msg \/ msg' = [msg EXCEPT ![s] = NextId]
  PROVE  IdsCounted'
<1> SUFFICES ASSUME ~ReuseIds PROVE IdsCounted' BY DEF IdsCounted
<1> DEFINE n == NextId
<1> HIDE DEF n
<1>1. n \in Ids /\ n = lastId + 1 /\ lastId' = n BY DEF NextId, Inserts, n
<1>2. \A i \in Ids : i # n => turns'[i] = turns[i] BY DEF Inserts, n
<1>3. /\ \A i \in Ids : turns[i].state # "absent" => i <= lastId
      /\ \A q \in Streams : msg[q] <= lastId
      /\ \A r \in sweep.rows : r[1] <= lastId /\ r[1] \in Nat
  BY DEF IdsCounted, Exists
<1>4. \A i \in Ids : turns'[i].state # "absent" => i <= lastId' BY <1>1, <1>2, <1>3
<1>5. ASSUME NEW q \in Streams PROVE msg'[q] <= lastId'
  <2>1. msg[q] \in Nat /\ msg[q] <= lastId /\ n \in Nat /\ lastId \in Nat BY <1>1, <1>3
  <2>2. msg'[q] \in {msg[q], n} BY DEF n
  <2> HIDE DEF TypeOK
  <2> QED BY <1>1, <2>1, <2>2
<1>6. \A r \in sweep'.rows : r[1] <= lastId' BY <1>1, <1>3
<1> QED BY <1>4, <1>5, <1>6 DEF IdsCounted, Exists

LEMMA OwnershipInserted ==
  ASSUME TypeOK, StreamShape, Ownership, IdsCounted, RowsHeld,
         NEW s \in Streams, Entering(s), Inserts(s)
  PROVE  Ownership' /\ IdsCounted' /\ RowsHeld'
<1> DEFINE n == NextId
<1> HIDE DEF n
<1>1. n \in Ids /\ IdIsNew(n) BY NextIdIsNew DEF Inserts, n
<1>2. /\ \A i \in Ids : i # n => turns'[i] = turns[i]
      /\ turns'[n].by = s /\ turns'[n].chat = chat[s] /\ turns'[n].state # "absent"
  BY DEF Inserts, n
<1>3. /\ msg[s] = 0 /\ (Claims(s)' => msg'[s] = n)
      /\ \A q \in Streams : q # s => msg'[q] = msg[q] /\ (Claims(q)' <=> Claims(q))
      /\ UNCHANGED <<chat, sweep>>
      /\ UNCHANGED msg \/ msg' = [msg EXCEPT ![s] = NextId]
  BY EntererClaims, OthersKept, EnterWrites DEF n
<1>4. \A q \in Streams : q # s /\ Claims(q)' =>
        Claims(q) /\ msg[q] \in Ids /\ msg[q] # n /\ msg'[q] = msg[q]
                  /\ turns'[msg[q]] = turns[msg[q]]
  BY <1>1, <1>2, <1>3 DEF IdIsNew, Claims
<1>5. Ownership'
  <2>1. ASSUME NEW p \in Streams, NEW q \in Streams, Claims(p)', Claims(q)', msg'[p] = msg'[q]
        PROVE  p = q
    <3>1. CASE p # s /\ q # s BY <1>4, <2>1, <3>1 DEF Ownership
    <3>2. CASE (p = s) # (q = s) BY <1>3, <1>4, <2>1, <3>2
    <3> QED BY <3>1, <3>2
  <2>2. ASSUME NEW q \in Streams, Claims(q)', turns'[msg'[q]].state # "absent"
        PROVE  turns'[msg'[q]].by = q /\ turns'[msg'[q]].chat = chat'[q]
    <3>1. CASE q = s BY <1>2, <1>3, <2>2, <3>1
    <3>2. CASE q # s BY <1>3, <1>4, <2>2, <3>2 DEF Ownership, Exists
    <3> QED BY <3>1, <3>2
  <2> QED BY <2>1, <2>2 DEF Ownership, Exists
<1>6. IdsCounted' BY <1>3, IdsCountedInserted
<1>7. RowsHeld'
  <2> SUFFICES ASSUME ReuseIds
               PROVE  /\ \A q \in Streams : Claims(q)' => turns'[msg'[q]].state # "absent"
                      /\ \A r \in sweep'.rows : turns'[r[1]].state # "absent"
    BY DEF RowsHeld, Exists
  <2>1. ASSUME NEW q \in Streams, Claims(q)' PROVE turns'[msg'[q]].state # "absent"
    <3>1. CASE q = s BY <1>2, <1>3, <2>1, <3>1
    <3>2. CASE q # s BY <1>4, <2>1, <3>2 DEF RowsHeld, Exists
    <3> QED BY <3>1, <3>2
  <2>2. ASSUME NEW r \in sweep'.rows PROVE turns'[r[1]].state # "absent"
    <3>1. r \in sweep.rows /\ r[1] \in Ids /\ r[1] # n BY <1>1, <1>3, <2>2 DEF IdIsNew
    <3> QED BY <1>2, <3>1 DEF RowsHeld, Exists
  <2> QED BY <2>1, <2>2
<1> QED BY <1>5, <1>6, <1>7

-----------------------------------------------------------------------------
(* What the reaper may touch. A draft that is a day old has no stream that *)
(* could still write it; what is about to be deleted still is such a draft *)
(* or gone; what is about to be finalized belongs to no marked stream,     *)
(* because its chat was inactive after it had been selected.               *)

OldIsOver ==
  \A i \in Ids : turns[i].state # "absent" /\ turns[i].age = "old" =>
    /\ turns[i].state = "draft"
    /\ \A s \in Streams : msg[s] = i => Over(s)

SweepSpares ==
  /\ sweep.at \in {"stuck", "flip"} =>
       \A r \in sweep.rows, s \in Streams : Claims(s) /\ msg[s] = r[1] => r[2] = chat[s]
  /\ sweep.at = "flip" =>
       \A r \in sweep.rows, s \in Streams : msg[s] = r[1] => pc[s] \notin Marked
  /\ sweep.at = "reap" =>
       \A r \in sweep.rows : turns[r[1]].state # "absent" => turns[r[1]].age = "old"

CompletedFinal ==
  \A s \in Streams : completed[s] /\ Exists(msg[s]) => turns[msg[s]].state = "final"

(* A row that a step leaves old was old before, or just became so.         *)
OldBefore(i) ==
  /\ turns[i].state = "draft" /\ turns'[i].state = "draft"
  /\ \/ turns[i].age = "old"
     \/ \A s \in Streams : msg[s] = i => Over(s)

OnlyDraftsAge ==
  \A i \in Ids : turns'[i].state # "absent" /\ turns'[i].age = "old" => OldBefore(i)
OldStays ==
  \A i \in Ids :
    turns[i].state # "absent" /\ turns[i].age = "old" =>
      turns'[i].state = "absent" \/ turns'[i].age = "old"

LEMMA WritesSpareOld ==
  ASSUME TypeOK, OldIsOver, NEW s \in Streams, Working(s) \/ Ending(s), Writes(s)
  PROVE  OnlyDraftsAge /\ OldStays
<1> DEFINE old == turns[msg[s]]
           new == turns'[msg[s]]
<1>1. msg[s] \in Ids /\ \A i \in Ids : i # msg[s] => turns'[i] = turns[i] BY DEF Writes
<1>2. old.state # "absent" => old.age # "old" BY <1>1, BusyStream DEF OldIsOver
<1>3. new.state # "absent" => new.age # "old"
  <2>1. CASE new = old BY <1>2, <2>1
  <2>2. CASE new # old
    <3>1. old.state \in PersistState
      BY <2>2 DEF Writes, RowWritten, Flushes, Prepares, Commits, Aborts, Releases, Salvages,
                  PersistState
    <3>2. old \in Turn BY <1>1, <3>1, AbsentOrTurn DEF PersistState
    <3> QED BY <1>2, <2>2, <3>1, <3>2 DEF Writes, RowWritten, Flushes, Prepares, Commits, Aborts,
               Releases, Salvages, Closed, Fresh, Turn, PersistState
  <2> QED BY <2>1, <2>2
<1>4. OnlyDraftsAge
  <2> SUFFICES ASSUME NEW i \in Ids, turns'[i].state # "absent", turns'[i].age = "old"
               PROVE  OldBefore(i)
    BY DEF OnlyDraftsAge
  <2>1. turns'[i] = turns[i] BY <1>1, <1>3
  <2> QED BY <2>1 DEF OldBefore, OldIsOver
<1>5. OldStays
  <2> SUFFICES ASSUME NEW i \in Ids, turns[i].state # "absent", turns[i].age = "old"
               PROVE  turns'[i].age = "old"
    BY DEF OldStays
  <2>1. i # msg[s] BY <1>2
  <2> QED BY <1>1, <2>1
<1> QED BY <1>4, <1>5

LEMMA OthersSpareOld ==
  ASSUME TypeOK, OldIsOver, Reaper \/ Environment \/ UNCHANGED vars
  PROVE  OnlyDraftsAge
<1>0. \A i \in Ids : turns[i].state # "absent" => turns[i] \in Turn BY AbsentOrTurn
<1> SUFFICES ASSUME NEW i \in Ids, turns'[i].state # "absent", turns'[i].age = "old"
             PROVE  OldBefore(i)
  BY DEF OnlyDraftsAge
<1>1. CASE turns'[i] = turns[i] BY <1>1 DEF OldBefore, OldIsOver
<1>2. ASSUME NEW j \in Ids, Recovers(j) PROVE turns'[i] = turns[i]
  <2>1. turns'[j].age = "fresh" /\ \A k \in Ids : k # j => turns'[k] = turns[k]
    BY <1>0, <1>2 DEF Recovers, Closed, Fresh, Turn
  <2> QED BY <2>1
<1>3. CASE Flips
  <2>1. turns'[i] = turns[i] \/ turns'[i].age = "fresh"
    BY <1>0, <1>3 DEF Flips, Closed, Fresh, Turn
  <2> QED BY <1>1, <2>1
<1>4. CASE Reaps \/ Deletes
  <2>1. NoTurn.state = "absent" BY DEF NoTurn
  <2>2. turns'[i] = turns[i] \/ turns'[i] = NoTurn BY <1>4 DEF Reaps, Deletes
  <2> QED BY <1>1, <2>1, <2>2
<1>5. ASSUME NEW j \in Ids, Ages(j) PROVE OldBefore(i)
  <2>1. turns[j] \in Turn BY <1>0, <1>5 DEF Ages
  <2>2. PICK a \in {"quiet", "old"} :
          /\ turns' = [turns EXCEPT ![j] = [turns[j] EXCEPT !.age = a]]
          /\ a = "old" => \A s \in Streams : msg[s] = j => pc[s] = "done" /\ inflight[s] = {}
    BY <1>5 DEF Ages
  <2>3. /\ turns'[j].age = a /\ turns'[j].state = "draft"
        /\ \A k \in Ids : k # j => turns'[k] = turns[k]
    BY <1>5, <2>1, <2>2 DEF Turn, Ages
  <2>4. CASE i = j BY <1>5, <2>2, <2>3, <2>4 DEF OldBefore, Ages, Over
  <2>5. CASE i # j BY <1>1, <2>3, <2>5
  <2> QED BY <2>4, <2>5
<1> QED BY <1>1, <1>2, <1>3, <1>4, <1>5, ReaperWrites, EnvironmentWrites DEF vars

LEMMA EnvironmentSparesOld ==
  ASSUME TypeOK, Environment \/ UNCHANGED vars
  PROVE  OldStays
<1> SUFFICES ASSUME NEW i \in Ids, turns[i].state # "absent", turns[i].age = "old"
             PROVE  turns'[i].state = "absent" \/ turns'[i].age = "old"
  BY DEF OldStays
<1>1. ASSUME NEW j \in Ids, Ages(j) PROVE turns'[i] = turns[i] BY <1>1 DEF Ages
<1>2. CASE Deletes BY <1>2 DEF Deletes, NoTurn
<1> QED BY <1>1, <1>2, EnvironmentWrites DEF vars

(* The steps of the reaper and of the environment, row by row.             *)
LEMMA OldIsOverKept ==
  ASSUME TypeOK, OldIsOver, OnlyDraftsAge, UNCHANGED msg, \A s \in Streams : Over(s) => Over(s)'
  PROVE  OldIsOver'
BY DEF OnlyDraftsAge, OldBefore, OldIsOver

LEMMA OldIsOverStep ==
  ASSUME TypeOK, StreamShape, OldIsOver, [Next]_vars
  PROVE  OldIsOver'
<1>1. ASSUME NEW s \in Streams, StreamStep(s) \/ StreamEvent(s) PROVE OldIsOver'
  <2>0. Entering(s) \/ Working(s) \/ Ending(s) BY <1>1, StepKinds
  <2>1. \A q \in Streams : q # s => Kept(q) BY <2>0, OthersKept
  <2>2. CASE Entering(s)
    <3>1. msg[s] = 0 /\ ~Over(s)
      BY <2>2, EntererClaims DEF Entering, AcquireLock, AssertNoInProgressStream, CreateDraft,
         CancelledEarly, CreateDraftFails, InLock, Over
    <3>2. CASE UNCHANGED <<turns, lastId, msg>>
      <4>1. OnlyDraftsAge BY <3>2 DEF OnlyDraftsAge, OldBefore, OldIsOver
      <4> QED BY <2>1, <3>1, <3>2, <4>1, OldIsOverKept DEF Kept, Over
    <3>3. CASE Inserts(s) /\ (UNCHANGED msg \/ msg' = [msg EXCEPT ![s] = NextId])
      <4> SUFFICES ASSUME NEW i \in Ids, turns'[i].state # "absent", turns'[i].age = "old"
                   PROVE  turns'[i].state = "draft" /\ \A q \in Streams : msg'[q] = i => Over(q)'
        BY DEF OldIsOver
      <4>1. i # NextId /\ turns'[i] = turns[i] BY <3>3 DEF Inserts
      <4>2. msg'[s] # i BY <3>1, <3>3, <4>1
      <4>3. turns[i].state = "draft" /\ \A q \in Streams : msg[q] = i => Over(q)
        BY <4>1 DEF OldIsOver
      <4> QED BY <2>1, <4>1, <4>2, <4>3 DEF Kept, Over
    <3> QED BY <2>2, <3>2, <3>3, EnterWrites
  <2>3. CASE Working(s) \/ Ending(s)
    <3>1. Writes(s) /\ UNCHANGED msg BY <2>3, WorkWrites, EndWrites
    <3>2. OnlyDraftsAge BY <2>3, <3>1, WritesSpareOld
    <3> QED BY <2>1, <2>3, <3>1, <3>2, BusyStream, OldIsOverKept DEF Kept, Over
  <2> QED BY <2>0, <2>2, <2>3
<1>2. CASE Reaper \/ Environment \/ UNCHANGED vars
  <2>1. OnlyDraftsAge BY <1>2, OthersSpareOld
  <2>2. UNCHANGED msg BY <1>2, StreamsKept, EnvironmentWrites
  <2>3. \A s \in Streams : Over(s) => Over(s)' BY <1>2, StreamsKept DEF Restart, Over
  <2> QED BY <2>1, <2>2, <2>3, OldIsOverKept
<1> QED BY <1>1, <1>2 DEF Next

(* A stream claims a row, and becomes marked, only with a new id.          *)
NewIdsOnly ==
  \A s \in Streams :
    /\ Claims(s)' => IdIsNew(msg'[s]) \/ (msg'[s] = msg[s] /\ Claims(s))
    /\ msg'[s] = msg[s] /\ pc'[s] \in Marked => pc[s] \in Marked

LEMMA StreamsTakeNewIds ==
  ASSUME TypeOK, StreamShape, IdsCounted, RowsHeld, NEW s \in Streams,
         Entering(s) \/ Working(s) \/ Ending(s)
  PROVE  NewIdsOnly
<1>0. \A q \in Streams : q # s => Kept(q) BY OthersKept
<1>1. CASE Entering(s)
  <2>1. Claims(s)' => IdIsNew(msg'[s]) BY <1>1, EntererClaims, NextIdIsNew DEF Inserts
  <2>2. \A q \in Streams : q # s => msg'[q] = msg[q] /\ (Claims(q)' <=> Claims(q))
    BY <1>1, EntererClaims
  <2>3. msg'[s] = msg[s] => pc'[s] \notin Marked
    <3>1. CASE CreateDraft(s)
      <4>1. msg[s] = 0 /\ msg'[s] \in Ids
        BY <1>1, <3>1, EntererClaims DEF CreateDraft, InsertTurn
      <4> QED BY <4>1
    <3>2. CASE ~CreateDraft(s)
      BY <1>1, <3>2 DEF Entering, AcquireLock, AssertNoInProgressStream, CancelledEarly,
         CreateDraftFails, Goto, InLock, Marked, InGroup, Teardown
    <3> QED BY <3>1, <3>2
  <2> QED BY <1>0, <2>1, <2>2, <2>3 DEF NewIdsOnly, Kept
<1>2. CASE Working(s)
  <2>1. pc[s] \in Marked
    BY <1>2 DEF Working, Prepare, Delta, ReasoningDelta, TouchActivity, ChatEnd, UpstreamFails,
                FinalizeToPending, CommitFinal, FinalizeFails, Epilogue, Marked, InGroup
  <2> QED BY <1>0, <1>2, <2>1, WriterClaims DEF NewIdsOnly, Kept, ClaimsStay
<1>3. CASE Ending(s)
  <2>1. pc[s] \in Marked \/ pc'[s] \notin Marked
    <3>1. CASE WatchDisconnect(s) \/ Cancelled(s) \/ AwaitCancelled(s)
      BY <3>1 DEF WatchDisconnect, Cancelled, AwaitCancelled, Marked, InGroup, Teardown
    <3>2. ASSUME NEW u \in Update, UpdateLands(s, u) \/ UpdateFails(s, u), pc[s] \notin Marked
          PROVE  pc'[s] \notin Marked
      <4>1. u \notin Awaited(s) /\ pc[s] \notin InGroup
        BY <3>2 DEF Awaited, Marked, Teardown
      <4> QED BY <3>2, <4>1 DEF UpdateLands, UpdateFails
    <3> QED BY <1>3, <3>1, <3>2 DEF Ending
  <2> QED BY <1>0, <1>3, <2>1, WriterClaims DEF NewIdsOnly, Kept, ClaimsStay
<1> QED BY <1>1, <1>2, <1>3

LEMMA OthersTakeNoIds ==
  ASSUME TypeOK, Reaper \/ Environment \/ UNCHANGED vars
  PROVE  NewIdsOnly
<1>1. CASE Restart
  BY <1>1, OthersClaim DEF Restart, NewIdsOnly, ClaimsStay, Marked, InGroup, Teardown
<1>2. CASE ~Restart BY <1>2, StreamsKept, OthersClaim DEF NewIdsOnly, ClaimsStay
<1> QED BY <1>1, <1>2

(* The sweep keeps sparing the streams while everyone else moves.          *)
LEMMA SweepSparesKept ==
  ASSUME TypeOK, TypeOK', SweepSpares, NewIdsOnly, OldStays, UNCHANGED <<sweep, chat>>,
         \A r \in sweep.rows : turns'[r[1]].state # "absent" => turns[r[1]].state # "absent"
  PROVE  SweepSpares'
<1>0. \A r \in sweep.rows : r[1] \in Ids OBVIOUS
<1>1. ASSUME NEW r \in sweep.rows, NEW s \in Streams, Claims(s)', msg'[s] = r[1]
      PROVE  Claims(s) /\ msg[s] = r[1] /\ (pc'[s] \in Marked => pc[s] \in Marked)
  BY <1>1 DEF NewIdsOnly, IdIsNew
<1>2. \A s \in Streams : pc'[s] \in Marked => Claims(s)'
  BY DEF Claims, Over, Marked, InGroup, Teardown
<1>3. sweep'.at = "reap" =>
        \A r \in sweep'.rows : turns'[r[1]].state # "absent" => turns'[r[1]].age = "old"
  BY <1>0 DEF SweepSpares, OldStays
<1>4. ASSUME sweep'.at \in {"stuck", "flip"}, NEW r \in sweep'.rows, NEW s \in Streams,
             Claims(s)', msg'[s] = r[1]
      PROVE  r[2] = chat'[s]
  <2>1. r \in sweep.rows /\ sweep.at \in {"stuck", "flip"} /\ chat'[s] = chat[s] BY <1>4
  <2>2. Claims(s) /\ msg[s] = r[1] BY <1>1, <1>4, <2>1
  <2> HIDE DEF TypeOK
  <2> QED BY <2>1, <2>2 DEF SweepSpares
<1>5. ASSUME sweep'.at = "flip", NEW r \in sweep'.rows, NEW s \in Streams, msg'[s] = r[1]
      PROVE  pc'[s] \notin Marked
  <2>1. r \in sweep.rows /\ sweep.at = "flip" BY <1>5
  <2>2. pc'[s] \in Marked => msg[s] = r[1] /\ pc[s] \in Marked BY <1>1, <1>2, <1>5, <2>1
  <2> QED BY <2>1, <2>2 DEF SweepSpares
<1> QED BY <1>3, <1>4, <1>5 DEF SweepSpares

LEMMA ReaperSpares ==
  ASSUME TypeOK, Ownership, RefsCover, SweepSpares, Reaper
  PROVE  SweepSpares'
<1> USE DEF SweepTo
<1>0. UNCHANGED <<pc, chat, msg>> /\ \A s \in Streams : Claims(s)' <=> Claims(s)
  BY StreamsKept DEF Claims, Over
<1>1. CASE SelectPending \/ RecoverPending \/ FlipStuck \/ DeleteOld
  BY <1>1 DEF SelectPending, RecoverPending, FlipStuck, DeleteOld, SweepSpares
<1>2. CASE SelectStuck
  <2>1. sweep'.at = "stuck"
        /\ \A r \in sweep'.rows : r[1] \in Ids /\ Exists(r[1]) /\ r[2] = turns[r[1]].chat
    BY <1>2 DEF SelectStuck, WithChat, Exists
  <2>2. ASSUME NEW r \in sweep'.rows, NEW s \in Streams, Claims(s), msg[s] = r[1]
        PROVE  r[2] = chat[s]
    <3>1. msg[s] \in Ids /\ Exists(msg[s]) /\ r[2] = turns[msg[s]].chat BY <2>1, <2>2
    <3> QED BY <2>2, <3>1 DEF Ownership
  <2> QED BY <1>0, <2>1, <2>2 DEF SweepSpares
<1>3. CASE SkipActive
  <2>1. sweep'.at = "flip" /\ sweep'.rows = {r \in sweep.rows : ~IsActive(r[2])}
        /\ \A r \in sweep.rows, s \in Streams : Claims(s) /\ msg[s] = r[1] => r[2] = chat[s]
    BY <1>3 DEF SkipActive, SweepSpares
  <2>2. ASSUME NEW r \in sweep'.rows, NEW s \in Streams, msg[s] = r[1], pc[s] \in Marked
        PROVE  FALSE
    <3>1. r \in sweep.rows /\ ~IsActive(r[2]) /\ r[2] = chat[s]
      BY <2>1, <2>2, MarkedClaims
    <3>2. IsActive(chat[s]) BY <2>2, MarkedIsActive
    <3> QED BY <3>1, <3>2
  <2> QED BY <1>0, <2>1, <2>2 DEF SweepSpares
<1>4. CASE SelectOld
  <2>1. sweep'.at = "reap" /\ UNCHANGED turns
        /\ \A r \in sweep'.rows : turns[r[1]].age = "old"
    BY <1>4 DEF SelectOld, WithChat
  <2> QED BY <2>1 DEF SweepSpares
<1> QED BY <1>1, <1>2, <1>3, <1>4 DEF Reaper

LEMMA SweepSparesStep ==
  ASSUME TypeOK, TypeOK', StreamShape, RefsCover, Ownership, IdsCounted, RowsHeld, OldIsOver,
         SweepSpares, [Next]_vars
  PROVE  SweepSpares'
<1>0. \A r \in sweep.rows : r[1] \in Ids OBVIOUS
<1>1. ASSUME NEW s \in Streams, StreamStep(s) \/ StreamEvent(s) PROVE SweepSpares'
  <2>0. Entering(s) \/ Working(s) \/ Ending(s) BY <1>1, StepKinds
  <2>1. UNCHANGED chat /\ NewIdsOnly BY <2>0, OthersKept, StreamsTakeNewIds
  <2>2. CASE Entering(s)
    <3>1. UNCHANGED sweep /\ (UNCHANGED turns \/ Inserts(s)) BY <2>2, EnterWrites
    <3>2. ASSUME NEW i \in Ids, Exists(i) \/ \E r \in sweep.rows : r[1] = i
          PROVE  turns'[i] = turns[i]
      <4>1. CASE UNCHANGED turns BY <4>1
      <4>2. CASE Inserts(s)
        <5>1. i # NextId BY <3>2, <4>2, NextIdIsNew DEF IdIsNew, Inserts
        <5> QED BY <4>2, <5>1 DEF Inserts
      <4> QED BY <3>1, <4>1, <4>2
    <3>3. OldStays BY <3>2 DEF OldStays, Exists
    <3>4. \A r \in sweep.rows : turns'[r[1]] = turns[r[1]] BY <1>0, <3>2
    <3> QED BY <2>1, <3>1, <3>3, <3>4, SweepSparesKept
  <2>3. CASE Working(s) \/ Ending(s)
    <3>1. Writes(s) /\ UNCHANGED sweep BY <2>3, WorkWrites, EndWrites
    <3>2. OldStays /\ SameOwners BY <2>3, <3>1, WritesSpareOld, WritesKeepOwners
    <3> QED BY <1>0, <2>1, <3>1, <3>2, SweepSparesKept DEF SameOwners
  <2> QED BY <2>0, <2>2, <2>3
<1>2. CASE Reaper BY <1>2, ReaperSpares
<1>3. CASE Environment \/ UNCHANGED vars
  <2>1. UNCHANGED chat /\ (UNCHANGED sweep \/ Restart)
    BY <1>3 DEF Environment, GoQuiet, GoOld, DeleteMessage, DeleteOnward,
       ClearMessages, Deletion, streamVars, vars, Restart
  <2>2. OldStays /\ SameOwners /\ NewIdsOnly
    BY <1>3, EnvironmentSparesOld, OthersKeepOwners, OthersTakeNoIds
  <2>3. CASE UNCHANGED sweep BY <1>0, <2>1, <2>2, <2>3, SweepSparesKept DEF SameOwners
  <2>4. CASE Restart BY <2>4 DEF Restart, SweepSpares
  <2> QED BY <2>1, <2>3, <2>4
<1> QED BY <1>1, <1>2, <1>3 DEF Next

(* What the reaper deletes nobody claims; without deletions by the user    *)
(* nothing else is removed.                                                *)
LEMMA ReaperRemovesFree ==
  ASSUME TypeOK, OldIsOver, SweepSpares, CompletedFinal, Reaper
  PROVE  RemovesFree
<1>1. CASE DeleteOld /\ ~UNCHANGED turns
  <2>1. /\ sweep.at = "reap" /\ sweep'.rows = {}
        /\ turns' = [i \in Ids |-> IF i \in SweptIds THEN NoTurn ELSE turns[i]]
    BY <1>1 DEF DeleteOld, SweepTo
  <2>2. ASSUME NEW i \in Ids, turns[i].state # "absent", turns'[i].state = "absent",
               NEW s \in Streams, Claims(s), msg[s] = i
        PROVE  FALSE
    <3>1. i \in SweptIds BY <2>1, <2>2
    <3>2. PICK r \in sweep.rows : r[1] = i BY <3>1 DEF SweptIds
    <3>3. turns[i].age = "old" BY <2>1, <2>2, <3>2 DEF SweepSpares
    <3>4. turns[i].state = "draft" /\ Over(s) BY <2>2, <3>3 DEF OldIsOver
    <3>5. completed[s] BY <2>2, <3>4 DEF Claims
    <3> QED BY <2>2, <3>4, <3>5 DEF CompletedFinal, Exists
  <2> QED BY <2>1, <2>2 DEF RemovesFree, Exists
<1>2. CASE UNCHANGED turns BY <1>2 DEF RemovesFree, Exists
<1>3. CASE ~DeleteOld /\ ~UNCHANGED turns
  <2>1. (\E i \in Ids : Recovers(i)) \/ Flips
    <3>1. ~Reaps
      BY <1>3 DEF Reaper, SelectPending, RecoverPending, SelectStuck, SkipActive, FlipStuck,
         SelectOld, Reaps
    <3> QED BY <1>3, <3>1, ReaperWrites
  <2>2. \A i \in Ids : turns[i].state # "absent" => turns[i] \in Turn BY AbsentOrTurn
  <2>3. ASSUME NEW i \in Ids, turns[i].state # "absent" PROVE turns'[i].state # "absent"
    <3>1. turns[i] \in Turn BY <2>2, <2>3
    <3>2. turns'[i] = turns[i] \/ turns'[i] = Closed(turns[i], "final")
      BY <2>1 DEF Recovers, Flips
    <3> QED BY <2>3, <3>1, <3>2 DEF Closed, Fresh, Turn
  <2> QED BY <2>3 DEF RemovesFree, Exists
<1> QED BY <1>1, <1>2, <1>3

LEMMA EnvironmentRemovesFree ==
  ASSUME TypeOK, MaxDeletes = 0, Environment \/ UNCHANGED vars
  PROVE  RemovesFree
<1>1. ASSUME NEW i \in Ids, GoQuiet(i) \/ GoOld(i) PROVE RemovesFree
  <2>1. turns[i] \in Turn BY <1>1, AbsentOrTurn DEF GoQuiet, GoOld
  <2>2. PICK a \in {"quiet", "old"} : turns' = [turns EXCEPT ![i].age = a]
    BY <1>1 DEF GoQuiet, GoOld
  <2>3. turns'[i].state = turns[i].state /\ \A j \in Ids : j # i => turns'[j] = turns[j]
    BY <2>1, <2>2 DEF Turn
  <2>4. \A j \in Ids : turns'[j].state = turns[j].state BY <2>3
  <2> QED BY <2>4 DEF RemovesFree, Exists
<1>2. ~UserDeletes
  BY DEF UserDeletes, DeleteMessage, DeleteOnward, ClearMessages, Deletion
<1>3. CASE UNCHANGED turns BY <1>3 DEF RemovesFree, Exists
<1> QED BY <1>1, <1>2, <1>3 DEF Environment, UserDeletes, Restart, rowVars, vars

(* Nobody else finalizes the draft of a marked stream: it takes a release  *)
(* that the stream itself started.                                         *)
LEMMA OnlyReleased ==
  ASSUME TypeOK, StreamShape, Ownership, SweepSpares, [Next]_vars,
         NEW s \in Streams, pc[s] \in Marked,
         turns[msg[s]].state = "draft", turns'[msg[s]].state = "final"
  PROVE  "release" \in inflight[s]
<1>0. msg[s] \in Ids /\ turns[msg[s]] \in Turn BY AbsentOrTurn DEF PersistState
<1>1. ASSUME NEW q \in Streams, StreamStep(q) \/ StreamEvent(q) PROVE "release" \in inflight[s]
  <2>0. Entering(q) \/ Working(q) \/ Ending(q) BY <1>1, StepKinds
  <2>1. CASE Entering(q)
    <3>1. UNCHANGED turns \/ Inserts(q) BY <2>1, EnterWrites
    <3>2. CASE UNCHANGED turns BY <3>2
    <3>3. CASE Inserts(q) /\ msg[s] = NextId BY <1>0, <3>3 DEF Inserts
    <3>4. CASE Inserts(q) /\ msg[s] # NextId
      <4>1. turns'[msg[s]] = turns[msg[s]] BY <1>0, <3>4 DEF Inserts
      <4> QED BY <4>1
    <3> QED BY <3>1, <3>2, <3>3, <3>4
  <2>2. CASE Working(q) \/ Ending(q)
    <3>1. Writes(q) BY <2>2, WorkWrites, EndWrites
    <3>2. msg[q] = msg[s] BY <1>0, <3>1 DEF Writes
    <3>3. q = s BY <2>2, <3>2, WriterClaims, MarkedClaims DEF Ownership
    <3> QED BY <1>0, <3>1, <3>3 DEF Writes, RowWritten, Flushes, Prepares, Commits, Aborts,
               Releases, Salvages, Closed, Fresh, Turn
  <2> QED BY <2>0, <2>1, <2>2
<1>2. CASE Reaper
  <2>1. CASE UNCHANGED turns BY <2>1
  <2>2. ASSUME NEW i \in Ids, Recovers(i) PROVE FALSE BY <1>0, <2>2 DEF Recovers
  <2>3. CASE Flips
    <3>1. sweep.at = "flip" /\ msg[s] \in SweptIds BY <1>0, <2>3 DEF Flips
    <3>2. PICK r \in sweep.rows : r[1] = msg[s] BY <3>1 DEF SweptIds
    <3> QED BY <3>1, <3>2 DEF SweepSpares
  <2>4. CASE Reaps BY <1>0, <2>4 DEF Reaps, NoTurn
  <2> QED BY <1>2, <2>1, <2>2, <2>3, <2>4, ReaperWrites
<1>3. CASE Environment
  <2>1. ASSUME NEW i \in Ids, Ages(i) PROVE turns'[msg[s]].state = "draft"
    BY <1>0, <2>1 DEF Ages, Turn
  <2>2. CASE Deletes BY <1>0, <2>2 DEF Deletes, NoTurn
  <2> QED BY <1>3, <2>1, <2>2, EnvironmentWrites
<1>4. CASE UNCHANGED vars BY <1>4 DEF vars
<1> QED BY <1>1, <1>2, <1>3, <1>4 DEF Next

-----------------------------------------------------------------------------
(* What is saved of an answer. A row is made from no more than its stream  *)
(* has received; a draft has not been given what is in the buffer yet. A   *)
(* pending row is made from all of it, because its stream receives nothing *)
(* any more; and the row of a completed turn is frozen.                    *)

Settling == {"committing", "done"} \cup Teardown

SavedBy(i, s) ==
  /\ turns[i].text <= acc[s]
  /\ turns[i].state = "draft" => turns[i].text + buf[s] <= acc[s]
SavedNoMore == \A i \in Ids : turns[i].state # "absent" => SavedBy(i, turns[i].by)
SavedRaw ==
  \A i \in Ids : turns[i].state \in {"draft", "aborted_by_client"} => turns[i].form = "raw"
PendingWhole ==
  \A i \in Ids : turns[i].state = "pending_finalization" =>
    /\ MadeFrom(turns[i], acc[turns[i].by])
    /\ msg[turns[i].by] = i /\ pc[turns[i].by] \in Settling
CompletedWhole ==
  \A s \in Streams : completed[s] =>
    /\ msg[s] \in Ids
    /\ Exists(msg[s]) => turns[msg[s]].state = "final" /\ MadeFrom(turns[msg[s]], acc[s])
TextSaved == SavedNoMore /\ SavedRaw /\ PendingWhole /\ CompletedWhole

LEMMA StepReceives ==
  ASSUME TypeOK, NEW s \in Streams, Entering(s) \/ Working(s) \/ Ending(s)
  PROVE  acc'[s] = acc[s] \/ (Delta(s) /\ pc[s] = "generating" /\ acc'[s] = acc[s] + 1)
<1>1. CASE Delta(s) BY <1>1 DEF Delta
<1>2. CASE ~Delta(s)
  BY <1>2 DEF Entering, AcquireLock, AssertNoInProgressStream, CreateDraft, CancelledEarly,
     CreateDraftFails, Working, Prepare, ReasoningDelta, TouchActivity, ChatEnd, UpstreamFails,
     FinalizeToPending, CommitFinal, FinalizeFails, Epilogue, Ending, WatchDisconnect, Cancelled,
     AwaitCancelled, UpdateLands, UpdateFails, streamVars
<1> QED BY <1>1, <1>2

(* A buffer gains only what is received.                                   *)
LEMMA StepBuffers ==
  ASSUME TypeOK, NEW s \in Streams, Entering(s) \/ Working(s) \/ Ending(s)
  PROVE  Drains(s, 0)
<1>0. acc[s] \in Nat /\ buf[s] \in Nat OBVIOUS
<1>1. CASE Delta(s)
  <2>1. acc'[s] = acc[s] + 1 /\ buf'[s] \in {0, buf[s] + 1}
    BY <1>1 DEF Delta, Flush, NoFlush
  <2> QED BY <1>0, <2>1 DEF Drains
<1>2. CASE ~Delta(s)
  <2>1. acc'[s] = acc[s] BY <1>2, StepReceives
  <2>2. buf'[s] \in {0, buf[s]}
    BY <1>2 DEF Entering, AcquireLock, AssertNoInProgressStream, CreateDraft, CancelledEarly,
       CreateDraftFails, Working, Prepare, ReasoningDelta, TouchActivity, ChatEnd, UpstreamFails,
       FinalizeToPending, CommitFinal, FinalizeFails, Epilogue, Ending, WatchDisconnect, Cancelled,
       AwaitCancelled, UpdateLands, UpdateFails, Flush, DropBuffer, streamVars
  <2> QED BY <1>0, <2>1, <2>2 DEF Drains
<1> QED BY <1>1, <1>2

LEMMA StepCompletes ==
  ASSUME TypeOK, NEW s \in Streams, Entering(s) \/ Working(s) \/ Ending(s), completed'[s]
  PROVE  completed[s] \/ (CommitFinal(s) /\ turns[msg[s]].state = "pending_finalization")
<1>1. CASE CommitFinal(s) BY <1>1 DEF CommitFinal
<1>2. CASE ~CommitFinal(s)
  BY <1>2 DEF Entering, AcquireLock, AssertNoInProgressStream, CreateDraft, CancelledEarly,
     CreateDraftFails, Working, Prepare, Delta, ReasoningDelta, TouchActivity, ChatEnd, UpstreamFails,
     FinalizeToPending, FinalizeFails, Epilogue, Ending, WatchDisconnect, Cancelled,
     AwaitCancelled, UpdateLands, UpdateFails, streamVars
<1> QED BY <1>1, <1>2

(* A stream that settles goes on settling unless it commits.               *)
LEMMA StepSettles ==
  ASSUME TypeOK, NEW s \in Streams, Working(s) \/ Ending(s), pc[s] \in Settling
  PROVE  pc'[s] \in Settling
         \/ (CommitFinal(s) /\ turns[msg[s]].state = "pending_finalization")
<1> USE DEF Goto, Settling, Teardown
<1>1. CASE CommitFinal(s) BY <1>1 DEF CommitFinal, BeginTeardown
<1>2. CASE Working(s) /\ ~CommitFinal(s)
  BY <1>2 DEF Working, Prepare, Delta, ReasoningDelta, TouchActivity, ChatEnd, UpstreamFails,
     FinalizeToPending, FinalizeFails, Epilogue, BeginTeardown
<1>3. CASE WatchDisconnect(s) \/ Cancelled(s) \/ AwaitCancelled(s)
  BY <1>3 DEF WatchDisconnect, Cancelled, AwaitCancelled, BeginTeardown, Proceed
<1>4. ASSUME NEW u \in Update, UpdateLands(s, u) \/ UpdateFails(s, u) PROVE pc'[s] \in Settling
  BY <1>4 DEF UpdateLands, UpdateFails, BeginTeardown, Proceed
<1> QED BY <1>1, <1>2, <1>3, <1>4 DEF Ending

LEMMA CommitIsFinal ==
  ASSUME TypeOK, NEW s \in Streams, CommitFinal(s), turns[msg[s]].state = "pending_finalization"
  PROVE  /\ turns'[msg[s]].state = "final"
         /\ turns'[msg[s]].text = turns[msg[s]].text /\ turns'[msg[s]].form = turns[msg[s]].form
<1>1. msg[s] \in Ids BY DEF CommitFinal, Marked, InGroup
<1>2. turns[msg[s]] \in Turn BY <1>1, AbsentOrTurn
<1>3. turns'[msg[s]] = Closed(turns[msg[s]], "final")
  BY <1>1, <1>2, FreshTransition DEF CommitFinal, FinalizePending, PersistState, Row
<1> QED BY <1>2, <1>3 DEF Closed, Fresh, Turn

(* What a write leaves: its state and content, in the terms above.         *)
LEMMA WriteResult ==
  ASSUME TypeOK, NEW s \in Streams, Writes(s), turns'[msg[s]] # turns[msg[s]]
  PROVE  /\ turns[msg[s]] \in Turn /\ turns[msg[s]].state # "final"
         /\ turns'[msg[s]] \in Turn
         /\ turns'[msg[s]].by = turns[msg[s]].by /\ turns'[msg[s]].chat = turns[msg[s]].chat
         /\ \/ /\ turns[msg[s]].state = "draft" /\ turns'[msg[s]].state = "draft"
               /\ turns'[msg[s]].form = turns[msg[s]].form
               /\ \E n \in Nat : Drains(s, n) /\ turns'[msg[s]].text = turns[msg[s]].text + n
            \/ /\ turns[msg[s]].state = "draft" /\ turns'[msg[s]].state = "pending_finalization"
               /\ MadeFrom(turns'[msg[s]], acc[s])
               /\ pc[s] = "finalizing" /\ pc'[s] = "committing"
            \/ /\ turns[msg[s]].state \in {"draft", "pending_finalization"}
               /\ turns'[msg[s]].state = "final"
               /\ turns'[msg[s]].form = turns[msg[s]].form
               /\ turns'[msg[s]].text = turns[msg[s]].text
            \/ /\ turns[msg[s]].state = "draft" /\ turns'[msg[s]].state = "final"
               /\ MadeFrom(turns'[msg[s]], acc[s])
            \/ /\ turns[msg[s]].state = "draft" /\ turns'[msg[s]].state = "aborted_by_client"
               /\ turns'[msg[s]].form = turns[msg[s]].form
               /\ turns'[msg[s]].text = turns[msg[s]].text
            \/ /\ turns[msg[s]].state = "aborted_by_client"
               /\ turns'[msg[s]].state = "aborted_by_client"
               /\ turns'[msg[s]].form = "raw" /\ turns'[msg[s]].text = acc[s]
<1> DEFINE old == turns[msg[s]]
           new == turns'[msg[s]]
<1>1. old.state \in PersistState \ {"final"}
  BY DEF Writes, RowWritten, Flushes, Prepares, Commits, Aborts, Releases, Salvages, PersistState
<1>2. old \in Turn /\ acc[s] \in Nat BY <1>1, AbsentOrTurn DEF Writes, PersistState
<1>3. ASSUME NEW state \in PersistState, NEW text \in Nat, NEW form \in ContentForm,
             new = Fresh(old, state, text, form)
      PROVE  /\ new \in Turn /\ new.by = old.by /\ new.chat = old.chat
             /\ new.state = state /\ new.text = text /\ new.form = form
  BY <1>2, <1>3 DEF Fresh, Turn
<1>4. ASSUME NEW state \in PersistState, new = Closed(old, state)
      PROVE  /\ new \in Turn /\ new.by = old.by /\ new.chat = old.chat
             /\ new.state = state /\ new.text = old.text /\ new.form = old.form
  <2>1. old.text \in Nat /\ old.form \in ContentForm BY <1>2 DEF Turn
  <2> QED BY <1>3, <1>4, <2>1 DEF Closed
<1> HIDE DEF new, old
<1>5. CASE Flushes(s, old, new)
  <2>1. PICK n \in Nat : Drains(s, n) /\ new = Fresh(old, "draft", old.text + n, old.form)
    BY <1>5 DEF Flushes
  <2>2. old.text + n \in Nat /\ old.form \in ContentForm BY <1>2 DEF Turn
  <2>3. old.state = "draft" /\ old.state \in PersistState BY <1>5 DEF Flushes, PersistState
  <2>4. /\ new \in Turn /\ new.by = old.by /\ new.chat = old.chat
        /\ new.state = "draft" /\ new.text = old.text + n /\ new.form = old.form
    BY ONLY <1>3, <2>1, <2>2, <2>3
  <2> QED BY ONLY <1>2, <2>1, <2>3, <2>4 DEF old, new
<1>6. CASE Prepares(s, old, new)
  <2>1. pc[s] = "finalizing" /\ pc'[s] = "committing" /\ old.state = "draft"
        /\ new = Fresh(old, "pending_finalization", acc[s], "terminal")
    BY <1>6 DEF Prepares
  <2>2. "pending_finalization" \in PersistState /\ "terminal" \in ContentForm
    BY DEF PersistState, ContentForm
  <2>3. /\ new \in Turn /\ new.by = old.by /\ new.chat = old.chat
        /\ new.state = "pending_finalization" /\ new.text = acc[s] /\ new.form = "terminal"
    BY ONLY <1>2, <1>3, <2>1, <2>2
  <2> QED BY ONLY <1>2, <2>1, <2>3 DEF MadeFrom, old, new
<1>7. CASE Commits(s, old, new)
  BY <1>2, <1>4, <1>7 DEF Commits, PersistState, old, new
<1>8. CASE Aborts(s, old, new)
  BY <1>2, <1>4, <1>8 DEF Aborts, PersistState, old, new
<1>9. CASE Releases(s, old, new)
  BY <1>2, <1>3, <1>4, <1>9 DEF Releases, MadeFrom, PersistState, ContentForm, old, new
<1>10. CASE Salvages(s, old, new)
  <2>1. /\ new \in Turn /\ new.by = old.by /\ new.chat = old.chat
        /\ old.state = "aborted_by_client" /\ new.state = "aborted_by_client"
        /\ new.form = "raw" /\ new.text = acc[s]
    BY <1>2, <1>10 DEF Salvages, Turn, ContentForm
  <2> QED BY <1>2, <2>1 DEF old, new
<1>11. new # old /\ RowWritten(s, old, new) BY DEF Writes, old, new
<1> QED BY <1>5, <1>6, <1>7, <1>8, <1>9, <1>10, <1>11 DEF RowWritten

(* What everyone else leaves of a row: all of it but its age, or a turn in *)
(* progress closed as it is.                                               *)
LEMMA OthersResult ==
  ASSUME TypeOK, Reaper \/ Environment \/ UNCHANGED vars,
         NEW i \in Ids, turns'[i].state # "absent"
  PROVE  /\ turns[i] \in Turn
         /\ turns'[i].text = turns[i].text /\ turns'[i].form = turns[i].form
         /\ turns'[i].by = turns[i].by /\ turns'[i].chat = turns[i].chat
         /\ \/ turns'[i].state = turns[i].state
            \/ turns[i].state \in {"draft", "pending_finalization"} /\ turns'[i].state = "final"
<1>0. NoTurn.state = "absent" BY DEF NoTurn
<1>1. turns[i] \in Turn
  <2>1. turns[i].state # "absent" BY OthersKeepOwners DEF SameOwners
  <2> QED BY <2>1, AbsentOrTurn
<1>2. CASE turns'[i] = turns[i] BY <1>1, <1>2
<1>3. ASSUME turns'[i] # turns[i], turns'[i] # NoTurn
      PROVE  \/ /\ turns[i].state \in {"draft", "pending_finalization"}
                /\ turns'[i] = Closed(turns[i], "final")
             \/ \E a \in {"quiet", "old"} : turns'[i] = [turns[i] EXCEPT !.age = a]
  <2>1. ASSUME NEW j \in Ids, Recovers(j) \/ Ages(j) PROVE i = j
    BY <1>3, <2>1 DEF Recovers, Ages
  <2>2. ASSUME NEW j \in Ids, Recovers(j) PROVE turns'[j] = Closed(turns[j], "final")
    BY <2>2 DEF Recovers
  <2>3. ASSUME NEW j \in Ids, Ages(j)
        PROVE  \E a \in {"quiet", "old"} : turns'[j] = [turns[j] EXCEPT !.age = a]
    BY <2>3 DEF Ages
  <2>4. CASE \E j \in Ids : Recovers(j) BY <2>1, <2>2, <2>4 DEF Recovers
  <2>5. CASE \E j \in Ids : Ages(j) BY <2>1, <2>3, <2>5
  <2>6. CASE Flips BY <1>3, <2>6 DEF Flips
  <2>7. ~Reaps /\ ~Deletes /\ ~UNCHANGED turns BY <1>3 DEF Reaps, Deletes
  <2> QED BY <2>4, <2>5, <2>6, <2>7, ReaperWrites, EnvironmentWrites DEF vars
<1> QED BY <1>0, <1>1, <1>2, <1>3 DEF Closed, Fresh, Turn

LEMMA OthersSaveText ==
  ASSUME TypeOK, TextSaved, Reaper \/ Environment \/ UNCHANGED vars
  PROVE  TextSaved'
<1>0. UNCHANGED <<msg, acc, completed>> BY StreamsKept, EnvironmentWrites
<1>1. \A s \in Streams : pc[s] \in Settling => pc'[s] \in Settling
  BY StreamsKept DEF Restart, Settling
<1>2. ASSUME NEW s \in Streams
      PROVE  acc[s] \in Nat /\ buf[s] \in Nat /\ buf'[s] \in {0, buf[s]}
  BY StreamsKept DEF Restart
<1>3. SavedNoMore'
  <2> SUFFICES ASSUME NEW i \in Ids, turns'[i].state # "absent"
               PROVE  /\ turns'[i].text <= acc'[turns'[i].by]
                      /\ turns'[i].state = "draft" =>
                           turns'[i].text + buf'[turns'[i].by] <= acc'[turns'[i].by]
    BY DEF SavedNoMore, SavedBy
  <2> DEFINE s == turns[i].by
  <2>1. /\ turns'[i].text = turns[i].text /\ turns'[i].by = s /\ s \in Streams
        /\ turns[i].text \in Nat /\ turns[i].state # "absent"
        /\ turns'[i].state = "draft" => turns[i].state = "draft"
    BY OthersResult, OthersKeepOwners DEF SameOwners, Turn
  <2>2. turns[i].text <= acc[s] /\ (turns[i].state = "draft" => turns[i].text + buf[s] <= acc[s])
    BY <2>1 DEF TextSaved, SavedNoMore, SavedBy
  <2>3. acc'[s] = acc[s] /\ acc[s] \in Nat /\ buf[s] \in Nat /\ buf'[s] \in {0, buf[s]}
    BY <1>0, <1>2, <2>1
  <2> HIDE DEF TypeOK, s
  <2> QED BY <2>1, <2>2, <2>3
<1>4. SavedRaw'
  <2> SUFFICES ASSUME NEW i \in Ids, turns'[i].state \in {"draft", "aborted_by_client"}
               PROVE  turns'[i].form = "raw"
    BY DEF SavedRaw
  <2> QED BY OthersResult DEF TextSaved, SavedRaw
<1>5. PendingWhole'
  <2> SUFFICES ASSUME NEW i \in Ids, turns'[i].state = "pending_finalization"
               PROVE  /\ MadeFrom(turns'[i], acc'[turns'[i].by])
                      /\ msg'[turns'[i].by] = i /\ pc'[turns'[i].by] \in Settling
    BY DEF PendingWhole, MadeFrom
  <2>1. /\ turns'[i].text = turns[i].text /\ turns'[i].form = turns[i].form
        /\ turns'[i].by = turns[i].by
        /\ turns[i].state = "pending_finalization" /\ turns[i].by \in Streams
    BY OthersResult DEF Turn
  <2> QED BY <1>0, <1>1, <2>1 DEF TextSaved, PendingWhole, MadeFrom
<1>6. CompletedWhole'
  <2> SUFFICES ASSUME NEW s \in Streams, completed'[s]
               PROVE  /\ msg'[s] \in Ids
                      /\ turns'[msg'[s]].state # "absent" =>
                           turns'[msg'[s]].state = "final" /\ MadeFrom(turns'[msg'[s]], acc'[s])
    BY DEF CompletedWhole, Exists, MadeFrom
  <2>1. completed[s] /\ msg[s] \in Ids /\ msg'[s] = msg[s] /\ acc'[s] = acc[s]
    BY <1>0 DEF TextSaved, CompletedWhole
  <2>2. ASSUME turns'[msg[s]].state # "absent"
        PROVE  turns'[msg[s]].state = "final" /\ MadeFrom(turns'[msg[s]], acc[s])
    <3>1. turns[msg[s]].state # "absent" BY <2>1, <2>2, OthersKeepOwners DEF SameOwners
    <3>2. turns[msg[s]].state = "final" /\ MadeFrom(turns[msg[s]], acc[s])
      BY <2>1, <3>1 DEF TextSaved, CompletedWhole, Exists
    <3> QED BY <2>1, <2>2, <3>2, OthersResult DEF MadeFrom
  <2> QED BY <2>1, <2>2
<1> QED BY <1>3, <1>4, <1>5, <1>6 DEF TextSaved

LEMMA EnterSavesText ==
  ASSUME TypeOK, StreamShape, IdsCounted, RowsHeld, TextSaved, NEW s \in Streams, Entering(s)
  PROVE  TextSaved'
<1> DEFINE n == NextId
<1> HIDE DEF n
<1>0. \A q \in Streams : q # s => Kept(q) BY OthersKept
<1>1. msg[s] = 0 /\ acc[s] = 0 /\ buf[s] = 0 /\ ~completed[s]
  BY DEF Entering, AcquireLock, AssertNoInProgressStream, CreateDraft, CancelledEarly,
         CreateDraftFails, InLock, StreamShape, Shape
<1>2. UNCHANGED <<acc, buf, completed>>
  BY DEF Entering, AcquireLock, AssertNoInProgressStream, CreateDraft, CancelledEarly,
         CreateDraftFails
<1>3. ASSUME NEW i \in Ids PROVE turns'[i] = turns[i] \/ (i = n /\ Inserts(s))
  BY EnterWrites DEF Inserts, n
<1>4. ASSUME Inserts(s)
      PROVE  /\ turns'[n].state = "draft" /\ turns'[n].text = 0 /\ turns'[n].form = "raw"
             /\ turns'[n].by = s
  BY <1>4 DEF Inserts, n
<1>5. ASSUME Inserts(s), NEW q \in Streams, Claims(q) PROVE msg[q] # n
  BY <1>5, NextIdIsNew DEF IdIsNew, Inserts, n
<1>6. SavedNoMore'
  <2> SUFFICES ASSUME NEW i \in Ids, turns'[i].state # "absent"
               PROVE  /\ turns'[i].text <= acc'[turns'[i].by]
                      /\ turns'[i].state = "draft" =>
                           turns'[i].text + buf'[turns'[i].by] <= acc'[turns'[i].by]
    BY DEF SavedNoMore, SavedBy
  <2>1. CASE turns'[i] = turns[i] BY <1>2, <2>1 DEF TextSaved, SavedNoMore, SavedBy
  <2>2. CASE i = n /\ Inserts(s) BY <1>1, <1>2, <1>4, <2>2
  <2> QED BY <1>3, <2>1, <2>2
<1>7. SavedRaw'
  <2> SUFFICES ASSUME NEW i \in Ids, turns'[i].state \in {"draft", "aborted_by_client"}
               PROVE  turns'[i].form = "raw"
    BY DEF SavedRaw
  <2> QED BY <1>3, <1>4 DEF TextSaved, SavedRaw
<1>8. PendingWhole'
  <2> SUFFICES ASSUME NEW i \in Ids, turns'[i].state = "pending_finalization"
               PROVE  /\ MadeFrom(turns'[i], acc'[turns'[i].by])
                      /\ msg'[turns'[i].by] = i /\ pc'[turns'[i].by] \in Settling
    BY DEF PendingWhole, MadeFrom
  <2>1. turns'[i] = turns[i] BY <1>3, <1>4
  <2>2. turns[i] \in Turn BY <2>1, AbsentOrTurn
  <2>3. /\ MadeFrom(turns[i], acc[turns[i].by])
        /\ msg[turns[i].by] = i /\ pc[turns[i].by] \in Settling
    BY <2>1 DEF TextSaved, PendingWhole
  <2>4. turns[i].by # s BY <1>1, <2>3
  <2> QED BY <1>0, <1>2, <2>1, <2>2, <2>3, <2>4 DEF Kept, Turn
<1>9. CompletedWhole'
  <2> SUFFICES ASSUME NEW q \in Streams, completed'[q]
               PROVE  /\ msg'[q] \in Ids
                      /\ turns'[msg'[q]].state # "absent" =>
                           turns'[msg'[q]].state = "final" /\ MadeFrom(turns'[msg'[q]], acc'[q])
    BY DEF CompletedWhole, Exists, MadeFrom
  <2>1. q # s /\ completed[q] BY <1>1, <1>2
  <2>2. msg'[q] = msg[q] /\ msg[q] \in Ids BY <1>0, <2>1 DEF Kept, TextSaved, CompletedWhole
  <2>3. turns'[msg[q]] = turns[msg[q]] BY <1>3, <1>5, <2>1, <2>2 DEF Claims
  <2> QED BY <1>2, <2>1, <2>2, <2>3 DEF TextSaved, CompletedWhole, Exists
<1> QED BY <1>6, <1>7, <1>8, <1>9 DEF TextSaved

(* No step of a stream takes back what was received or fills a buffer with *)
(* anything else.                                                          *)
LEMMA Receiving ==
  ASSUME TypeOK, NEW s \in Streams, Entering(s) \/ Working(s) \/ Ending(s), NEW q \in Streams
  PROVE  /\ acc[q] \in Nat /\ acc'[q] \in Nat /\ buf[q] \in Nat
         /\ acc[q] <= acc'[q] /\ Drains(q, 0)
<1>1. acc[q] \in Nat /\ buf[q] \in Nat OBVIOUS
<1>2. CASE q = s
  <2>1. acc'[q] = acc[q] \/ acc'[q] = acc[q] + 1 BY <1>2, StepReceives
  <2>2. Drains(q, 0) BY <1>2, StepBuffers
  <2> HIDE DEF TypeOK
  <2> QED BY <1>1, <2>1, <2>2
<1>3. CASE q # s
  <2>1. acc'[q] = acc[q] /\ buf'[q] = buf[q] BY <1>3, OthersKept DEF Kept
  <2> HIDE DEF TypeOK
  <2> QED BY <1>1, <2>1 DEF Drains
<1> QED BY <1>2, <1>3

LEMMA WorkSavesNoMore ==
  ASSUME TypeOK, TypeOK', StreamShape, Ownership, TextSaved,
         NEW s \in Streams, Working(s) \/ Ending(s)
  PROVE  SavedNoMore' /\ SavedRaw'
<1> DEFINE old == turns[msg[s]]
           new == turns'[msg[s]]
<1>1. /\ Writes(s) /\ msg[s] \in Ids
      /\ \A i \in Ids : i # msg[s] => turns'[i] = turns[i]
  BY WorkWrites, EndWrites DEF Writes
<1>2. old.state # "absent" => old.by = s
  BY <1>1, WriterClaims DEF Ownership, Exists
<1>3. ASSUME NEW i \in Ids, turns'[i].state # "absent"
      PROVE  /\ turns'[i].text <= acc'[turns'[i].by]
             /\ turns'[i].state = "draft" =>
                  turns'[i].text + buf'[turns'[i].by] <= acc'[turns'[i].by]
  <2>0. buf' \in [Streams -> Nat] OBVIOUS
  <2>1. CASE turns'[i] = turns[i]
    <3> DEFINE q == turns[i].by
    <3>1. turns[i] \in Turn /\ SavedBy(i, q)
      BY <1>3, <2>1, AbsentOrTurn DEF TextSaved, SavedNoMore
    <3>2. q \in Streams /\ turns[i].text \in Nat BY <3>1 DEF Turn
    <3>3. /\ acc[q] \in Nat /\ acc'[q] \in Nat /\ buf[q] \in Nat /\ buf'[q] \in Nat
          /\ acc[q] <= acc'[q] /\ Drains(q, 0)
      BY <2>0, <3>2, Receiving
    <3> HIDE DEF TypeOK, q
    <3>4. turns[i].text <= acc'[q] BY <3>1, <3>2, <3>3 DEF SavedBy
    <3>5. turns[i].state = "draft" => turns[i].text + buf'[q] <= acc'[q]
      BY <3>1, <3>2, <3>3 DEF SavedBy, Drains
    <3> QED BY <2>1, <3>4, <3>5 DEF q
  <2>2. CASE turns'[i] # turns[i]
    <3>1. i = msg[s] BY <1>1, <2>2
    <3>2. old \in Turn /\ new.by = s /\ old.by = s /\ old.state # "absent"
      BY <1>1, <1>2, <2>2, <3>1, WriteResult DEF Turn, PersistState
    <3>3. SavedBy(i, s) /\ old.text \in Nat
      BY <1>1, <3>1, <3>2 DEF TextSaved, SavedNoMore, Turn
    <3>4. /\ acc[s] \in Nat /\ acc'[s] \in Nat /\ buf[s] \in Nat /\ buf'[s] \in Nat
          /\ acc[s] <= acc'[s]
      BY <2>0, Receiving
    <3>5. \/ /\ old.state = "draft" /\ \E n \in Nat : Drains(s, n) /\ new.text = old.text + n
          \/ new.state # "draft" /\ new.text \in {old.text, acc[s]}
      BY <1>1, <2>2, <3>1, WriteResult DEF MadeFrom
    <3>6. new.text <= acc'[s] /\ (new.state = "draft" => new.text + buf'[s] <= acc'[s])
      <4>1. ASSUME old.state = "draft", NEW n \in Nat, Drains(s, n), new.text = old.text + n
            PROVE  new.text <= acc'[s] /\ new.text + buf'[s] <= acc'[s]
        <5>1. old.text + buf[s] <= acc[s] BY <3>1, <4>1, <3>3 DEF SavedBy
        <5>2. n + buf'[s] + acc[s] <= buf[s] + acc'[s] BY <4>1 DEF Drains
        <5> HIDE DEF TypeOK, old, new
        <5> QED BY <3>3, <3>4, <4>1, <5>1, <5>2
      <4>2. ASSUME new.state # "draft", new.text \in {old.text, acc[s]}
            PROVE  new.text <= acc'[s]
        <5>1. old.text <= acc[s] BY <3>1, <3>3 DEF SavedBy
        <5> HIDE DEF TypeOK, old, new
        <5> QED BY <3>3, <3>4, <4>2, <5>1
      <4> QED BY <3>5, <4>1, <4>2
    <3> QED BY <3>1, <3>2, <3>6
  <2> QED BY <2>1, <2>2
<1>4. SavedNoMore' BY <1>3 DEF SavedNoMore, SavedBy
<1>5. SavedRaw'
  <2> SUFFICES ASSUME NEW i \in Ids, turns'[i].state \in {"draft", "aborted_by_client"}
               PROVE  turns'[i].form = "raw"
    BY DEF SavedRaw
  <2>1. CASE turns'[i] = turns[i] BY <2>1 DEF TextSaved, SavedRaw
  <2>2. CASE turns'[i] # turns[i]
    <3>1. i = msg[s] BY <1>1, <2>2
    <3>2. \/ old.state = "draft" /\ new.form = old.form
          \/ new.form = "raw"
      BY <1>1, <2>2, <3>1, WriteResult
    <3> QED BY <3>1, <3>2 DEF TextSaved, SavedRaw
  <2> QED BY <2>1, <2>2
<1> QED BY <1>4, <1>5

LEMMA WorkSavesText ==
  ASSUME TypeOK, TypeOK', StreamShape, Ownership, TextSaved,
         NEW s \in Streams, Working(s) \/ Ending(s)
  PROVE  TextSaved'
<1> DEFINE old == turns[msg[s]]
           new == turns'[msg[s]]
<1>0. \A q \in Streams : q # s => Kept(q) BY OthersKept
<1>1. /\ Writes(s) /\ UNCHANGED msg /\ msg[s] \in Ids
      /\ \A i \in Ids : i # msg[s] => turns'[i] = turns[i]
  BY WorkWrites, EndWrites DEF Writes
<1>2. acc'[s] = acc[s] \/ (pc[s] = "generating" /\ acc'[s] = acc[s] + 1) BY StepReceives
<1>4. old.state # "absent" => old.by = s /\ old \in Turn
  BY <1>1, WriterClaims, AbsentOrTurn DEF Ownership, Exists
<1>5. \A q \in Streams : q # s /\ Claims(q) => msg[q] # msg[s] BY WriterClaims DEF Ownership
<1>7. PendingWhole'
  <2> SUFFICES ASSUME NEW i \in Ids, turns'[i].state = "pending_finalization"
               PROVE  /\ MadeFrom(turns'[i], acc'[turns'[i].by])
                      /\ msg'[turns'[i].by] = i /\ pc'[turns'[i].by] \in Settling
    BY DEF PendingWhole, MadeFrom
  <2>1. CASE turns'[i] = turns[i]
    <3>1. /\ turns[i] \in Turn /\ MadeFrom(turns[i], acc[turns[i].by])
          /\ msg[turns[i].by] = i /\ pc[turns[i].by] \in Settling
      BY <2>1, AbsentOrTurn DEF TextSaved, PendingWhole
    <3>2. turns[i].by \in Streams BY <3>1 DEF Turn
    <3>3. CASE turns[i].by # s BY <1>0, <2>1, <3>1, <3>2, <3>3 DEF Kept
    <3>4. CASE turns[i].by = s
      <4>1. acc'[s] = acc[s] BY <1>2, <3>1, <3>4 DEF Settling, Teardown
      <4>2. ~(CommitFinal(s) /\ turns[msg[s]].state = "pending_finalization")
        BY <2>1, <3>1, <3>4, CommitIsFinal
      <4>3. pc'[s] \in Settling BY <3>1, <3>4, <4>2, StepSettles
      <4> QED BY <1>1, <2>1, <3>1, <3>4, <4>1, <4>3
    <3> QED BY <3>3, <3>4
  <2>2. CASE turns'[i] # turns[i]
    <3>1. i = msg[s] BY <1>1, <2>2
    <3>2. /\ new.by = s /\ MadeFrom(new, acc[s])
          /\ pc[s] = "finalizing" /\ pc'[s] = "committing"
      BY <1>1, <1>4, <2>2, <3>1, WriteResult DEF Turn, PersistState
    <3>3. acc'[s] = acc[s] BY <1>2, <3>2
    <3> QED BY <1>1, <3>1, <3>2, <3>3 DEF Settling
  <2> QED BY <2>1, <2>2
<1>8. CompletedWhole'
  <2> SUFFICES ASSUME NEW q \in Streams, completed'[q]
               PROVE  /\ msg'[q] \in Ids
                      /\ turns'[msg'[q]].state # "absent" =>
                           turns'[msg'[q]].state = "final" /\ MadeFrom(turns'[msg'[q]], acc'[q])
    BY DEF CompletedWhole, Exists, MadeFrom
  <2>1. CASE q # s
    <3>1. completed[q] /\ msg[q] \in Ids BY <1>0, <2>1 DEF Kept, TextSaved, CompletedWhole
    <3>2. turns'[msg[q]] = turns[msg[q]] BY <1>1, <1>5, <2>1, <3>1 DEF Claims
    <3>3. msg'[q] = msg[q] /\ acc'[q] = acc[q] BY <1>0, <1>1, <2>1 DEF Kept
    <3>4. turns[msg[q]].state # "absent" =>
            turns[msg[q]].state = "final" /\ MadeFrom(turns[msg[q]], acc[q])
      BY <3>1 DEF TextSaved, CompletedWhole, Exists
    <3> QED BY <3>1, <3>2, <3>3, <3>4
  <2>2. CASE q = s /\ completed[s]
    <3>1. acc'[s] = acc[s] BY <1>2, <2>2 DEF StreamShape, Shape, Teardown
    <3>2. new = old
      <4>1. old.state # "absent" => old.state = "final"
        BY <2>2 DEF TextSaved, CompletedWhole, Exists
      <4>2. old.state = "absent" => old \notin Turn BY DEF Turn, PersistState
      <4> QED BY <1>1, <4>1, <4>2, WriteResult
    <3> QED BY <1>1, <2>2, <3>1, <3>2 DEF TextSaved, CompletedWhole, Exists
  <2>3. CASE q = s /\ ~completed[s]
    <3>1. CommitFinal(s) /\ old.state = "pending_finalization" BY <2>2, <2>3, StepCompletes
    <3>2. MadeFrom(old, acc[s]) BY <1>1, <1>4, <3>1 DEF TextSaved, PendingWhole
    <3>3. acc'[s] = acc[s] BY <3>1 DEF CommitFinal
    <3> QED BY <1>1, <2>3, <3>1, <3>2, <3>3, CommitIsFinal DEF MadeFrom
  <2> QED BY <2>1, <2>2, <2>3
<1> QED BY <1>7, <1>8, WorkSavesNoMore DEF TextSaved

-----------------------------------------------------------------------------
(* All of it together. Without deletions by the user it is one argument:   *)
(* a row that a stream claims is not removed, since what the reaper        *)
(* removes is old and unfinished, so that its id stays taken; and what is  *)
(* old, or selected by the reaper, stays so only because no new row takes  *)
(* its id.                                                                 *)

RowsInv ==
  Ownership /\ IdsCounted /\ RowsHeld /\ OldIsOver /\ SweepSpares /\ TextSaved

LEMMA WritesRemoveNone ==
  ASSUME TypeOK, NEW s \in Streams, Writes(s)
  PROVE  RemovesFree
<1>1. /\ msg[s] \in Ids /\ \A i \in Ids : i # msg[s] => turns'[i] = turns[i]
      /\ turns'[msg[s]] = turns[msg[s]] \/ RowWritten(s, turns[msg[s]], turns'[msg[s]])
  BY DEF Writes
<1>2. turns[msg[s]].state # "absent" => turns[msg[s]] \in Turn BY <1>1, AbsentOrTurn
<1>3. turns[msg[s]].state # "absent" => turns'[msg[s]].state # "absent"
  BY <1>1, <1>2 DEF RowWritten, Flushes, Prepares, Commits, Aborts, Releases, Salvages, Closed, Fresh, Turn
<1> QED BY <1>1, <1>3 DEF RemovesFree, Exists

LEMMA RowsInvStep ==
  ASSUME NoReuse, TypeOK, TypeOK', StreamShape, RefsCover, RowsInv, [Next]_vars
  PROVE  RowsInv'
<1>0. Ownership /\ IdsCounted /\ RowsHeld /\ OldIsOver /\ SweepSpares /\ TextSaved BY DEF RowsInv
<1>1. Ownership' /\ IdsCounted' /\ RowsHeld'
  <2>0. ASSUME SameOwners, ClaimsStay, UNCHANGED <<msg, lastId, chat>>, ReuseIds => RemovesFree,
               \A r \in sweep'.rows : r \in sweep.rows \/ (r[1] \in Ids /\ Exists(r[1]))
        PROVE  Ownership' /\ IdsCounted' /\ RowsHeld'
    BY <1>0, <2>0, OwnershipKept, IdsCountedKept, RowsHeldKept
  <2>1. ASSUME NEW s \in Streams, StreamStep(s) \/ StreamEvent(s)
        PROVE  Ownership' /\ IdsCounted' /\ RowsHeld'
    <3>0. Entering(s) \/ Working(s) \/ Ending(s) BY <2>1, StepKinds
    <3>1. UNCHANGED chat BY <3>0, OthersKept
    <3>2. CASE Entering(s) /\ Inserts(s) BY <1>0, <3>2, OwnershipInserted
    <3>3. CASE Entering(s) /\ UNCHANGED <<turns, lastId, msg>>
      <4>1. UNCHANGED sweep BY <3>3, EnterWrites
      <4>2. SameOwners /\ RemovesFree BY <3>3 DEF SameOwners, RemovesFree, Exists
      <4>3. msg[s] = 0 BY <3>3, EntererClaims
      <4>4. ~Claims(s)' BY <3>3, <4>3 DEF Claims
      <4>5. ClaimsStay BY <3>3, <4>4, EntererClaims DEF ClaimsStay
      <4> QED BY <2>0, <3>1, <3>3, <4>1, <4>2, <4>5
    <3>4. CASE Working(s) \/ Ending(s)
      <4>1. Writes(s) /\ UNCHANGED <<msg, lastId, sweep>> BY <3>4, WorkWrites, EndWrites
      <4>2. SameOwners /\ RemovesFree /\ ClaimsStay
        BY <3>4, <4>1, WritesKeepOwners, WritesRemoveNone, WriterClaims
      <4> QED BY <2>0, <3>1, <4>1, <4>2
    <3> QED BY <3>0, <3>2, <3>3, <3>4, EnterWrites
  <2>2. CASE Reaper
    <3>1. CompletedFinal BY <1>0 DEF TextSaved, CompletedWhole, CompletedFinal
    <3>2. RemovesFree BY <1>0, <2>2, <3>1, ReaperRemovesFree
    <3> QED BY <2>0, <2>2, <3>2, StreamsKept, OthersKeepOwners, OthersClaim, ReaperSelects
  <2>3. CASE Environment \/ UNCHANGED vars
    <3>1. UNCHANGED <<msg, lastId, chat>> /\ sweep'.rows \subseteq sweep.rows
      BY <2>3, EnvironmentWrites DEF vars
    <3>2. ReuseIds => RemovesFree BY <2>3, EnvironmentRemovesFree DEF NoReuse
    <3> QED BY <2>0, <2>3, <3>1, <3>2, OthersKeepOwners, OthersClaim
  <2> QED BY <2>1, <2>2, <2>3 DEF Next
<1>2. OldIsOver' BY <1>0, OldIsOverStep
<1>3. SweepSpares' BY <1>0, SweepSparesStep
<1>4. TextSaved'
  <2>1. ASSUME NEW s \in Streams, StreamStep(s) \/ StreamEvent(s) PROVE TextSaved'
    BY <1>0, <2>1, StepKinds, EnterSavesText, WorkSavesText
  <2> QED BY <1>0, <2>1, OthersSaveText DEF Next
<1> QED BY <1>1, <1>2, <1>3, <1>4 DEF RowsInv

LEMMA RowsInvHolds == ASSUME NoReuse PROVE Spec => []RowsInv
<1>1. Init => RowsInv
  <2> SUFFICES ASSUME Init PROVE RowsInv OBVIOUS
  <2>1. \A i \in Ids : turns[i] = NoTurn /\ turns[i].state = "absent" BY DEF Init, NoTurn
  <2>2. \A s \in Streams : msg[s] = 0 /\ ~Claims(s) /\ ~completed[s] BY DEF Init, Claims
  <2>3. sweep.rows = {} /\ sweep.at = "asleep" /\ lastId = 0 BY DEF Init
  <2> QED BY <2>1, <2>2, <2>3
      DEF RowsInv, Ownership, IdsCounted, RowsHeld, OldIsOver, SweepSpares, TextSaved, SavedNoMore,
          SavedRaw, PendingWhole, CompletedWhole, Exists
<1>2. TypeOK /\ TypeOK' /\ StreamShape /\ RefsCover /\ RowsInv /\ [Next]_vars => RowsInv'
  BY RowsInvStep
<1> QED BY <1>1, <1>2, TypeCorrect, ShapeHolds, MarkersNeverFallShort, PTL DEF Spec

(* A stream that can still write, and an update it left in flight, address *)
(* their own turn on Postgres, and on SQLite unless the user deletes       *)
(* messages: restarts, the reaper and late updates never make one stream   *)
(* write into the turn of another.                                         *)
THEOREM StreamsOwnTheirTurns == ASSUME NoReuse PROVE Spec => []OwnTurn
<1>1. TypeOK /\ RowsInv => OwnTurn BY MarkedClaims DEF RowsInv, Ownership, OwnTurn
<1> QED BY <1>1, RowsInvHolds, TypeCorrect, PTL

(* The reaper never finalizes the draft of a stream that is still          *)
(* generating, however many streams, faults and restarts there are: the    *)
(* refcount never falls short, and the sweep re-reads it after it has      *)
(* selected its rows (_draft_reaper_loop).                                 *)
THEOREM ReaperSparesLiveDrafts == ASSUME NoReuse PROVE Spec => LiveDraftNotReaped
<1>1. TypeOK /\ StreamShape /\ RowsInv /\ [Next]_vars =>
        \A s \in Streams :
          Generating(s) /\ turns[msg[s]].state = "draft" => turns'[msg[s]].state # "final"
  <2> SUFFICES ASSUME TypeOK, StreamShape, RowsInv, [Next]_vars, NEW s \in Streams,
                      Generating(s), turns[msg[s]].state = "draft"
               PROVE  turns'[msg[s]].state # "final"
    OBVIOUS
  <2>1. pc[s] \in Marked BY DEF Generating, Marked, InGroup
  <2> QED BY <2>1, OnlyReleased DEF RowsInv, Generating, StreamShape, Shape, Marked, InGroup
<1> QED BY <1>1, TypeCorrect, ShapeHolds, RowsInvHolds, PTL DEF Spec, LiveDraftNotReaped

(* While a stream that knows its client is gone tears down, no step takes  *)
(* its draft straight to the state of a finished answer, in whatever order *)
(* the shielded updates of the watcher and of the finally clause, and the  *)
(* reaper, commit. A draft it leaves behind, or a turn it had already made *)
(* pending, may be finalized by the reaper later.                          *)
THEOREM GoneTurnsStayUnfinished == ASSUME NoReuse PROVE Spec => DisconnectNeverFinal
<1>1. TypeOK /\ StreamShape /\ RowsInv /\ [Next]_vars =>
        \A s \in Streams :
          /\ gone[s] /\ pc[s] # "done"
          /\ turns[msg[s]].state = "draft"
          => turns'[msg[s]].state # "final"
  <2> SUFFICES ASSUME TypeOK, StreamShape, RowsInv, [Next]_vars,
                      NEW s \in Streams, gone[s], pc[s] # "done",
                      turns[msg[s]].state = "draft", turns'[msg[s]].state = "final"
               PROVE  FALSE
    OBVIOUS
  <2>1. pc[s] \in InGroup \cup Teardown
    BY DEF StreamShape, Shape, Location, Marked
  <2>2. "release" \in inflight[s] BY <2>1, OnlyReleased DEF Marked, RowsInv
  <2> QED BY <2>1, <2>2 DEF StreamShape, Shape
<1> QED BY <1>1, TypeCorrect, ShapeHolds, RowsInvHolds, PTL DEF Spec, DisconnectNeverFinal

(* What is committed as finished is made from the whole answer: the        *)
(* pending state is saved together with the terminal content, nothing is   *)
(* received after it, and nobody writes a row that is final. What that     *)
(* content says (the answer, stripped of leaked tool calls, or a notice)   *)
(* is not part of it.                                                      *)
THEOREM FinishedTurnsAreWhole == ASSUME NoReuse PROVE Spec => []FinishedTurnComplete
<1>1. RowsInv => FinishedTurnComplete
  BY DEF RowsInv, TextSaved, PendingWhole, CompletedWhole, FinishedTurnComplete
<1> QED BY <1>1, RowsInvHolds, PTL

-----------------------------------------------------------------------------
(* What holds on any database, whatever the user deletes: an answer is      *)
(* frozen. A late update that hits the row of another stream, because the   *)
(* id was used again, finds an answer there and leaves it as it is, since   *)
(* each UPDATE asks for the state it expects.                               *)

AnswersFrozen ==
  [][\A i \in Ids : turns[i].state = "final" => turns'[i] \in {turns[i], NoTurn}]_vars

LEMMA IdsCountedHolds == Spec => []IdsCounted
<1>1. Init => IdsCounted BY DEF Init, IdsCounted, Exists, NoTurn
<1>2. ASSUME TypeOK, IdsCounted, [Next]_vars PROVE IdsCounted'
  <2>1. ASSUME NEW s \in Streams, StreamStep(s) \/ StreamEvent(s) PROVE IdsCounted'
    <3>0. Entering(s) \/ Working(s) \/ Ending(s) BY <2>1, StepKinds
    <3>1. CASE Entering(s)
      <4>1. CASE UNCHANGED <<turns, lastId, msg>>
        <5>1. UNCHANGED sweep BY <1>2, <3>1, EnterWrites
        <5> QED BY <1>2, <4>1, <5>1, IdsCountedKept DEF SameOwners
      <4>2. CASE Inserts(s) /\ (UNCHANGED msg \/ msg' = [msg EXCEPT ![s] = NextId])
        <5>1. UNCHANGED sweep BY <1>2, <3>1, EnterWrites
        <5> QED BY <1>2, <4>2, <5>1, IdsCountedInserted
      <4> QED BY <1>2, <3>1, <4>1, <4>2, EnterWrites
    <3>2. CASE Working(s) \/ Ending(s)
      BY <1>2, <3>2, WorkWrites, EndWrites, WritesKeepOwners, IdsCountedKept
    <3> QED BY <3>0, <3>1, <3>2
  <2>2. CASE Reaper
    BY <1>2, <2>2, StreamsKept, OthersKeepOwners, ReaperSelects, IdsCountedKept
  <2>3. CASE Environment \/ UNCHANGED vars
    <3>1. UNCHANGED <<msg, lastId>> /\ sweep'.rows \subseteq sweep.rows
      BY <1>2, <2>3, EnvironmentWrites DEF vars
    <3> QED BY <1>2, <2>3, <3>1, OthersKeepOwners, IdsCountedKept
  <2> QED BY <1>2, <2>1, <2>2, <2>3 DEF Next
<1> QED BY <1>1, <1>2, TypeCorrect, PTL DEF Spec

LEMMA InsertsElsewhere ==
  ASSUME TypeOK, IdsCounted, NEW s \in Streams, Inserts(s), NEW i \in Ids, Exists(i)
  PROVE  turns'[i] = turns[i]
<1> DEFINE n == NextId
           row == [chat |-> chat[s], by |-> s, state |-> "draft", text |-> 0, form |-> "raw",
                   age |-> "fresh"]
<1> HIDE DEF n, row
<1>1. i # n
  <2>1. n \in Ids BY DEF Inserts, n
  <2>2. CASE ReuseIds
    <3>1. i < n BY <2>2, NextIdIsFree DEF n
    <3> QED BY <2>1, <3>1
  <2>3. CASE ~ReuseIds BY <2>3 DEF IdsCounted, NextId, n
  <2> QED BY <2>2, <2>3
<1>2. turns' = [turns EXCEPT ![n] = row] BY DEF Inserts, n, row
<1> QED BY <1>1, <1>2

(* An answer that is final is never altered, only removed: not by a late   *)
(* flush, a shielded update, the backfill of an aborted row or the reaper, *)
(* whichever stream they belong to ("assistant history is immutable",      *)
(* message_service.edit). This needs no assumption on ids or deletions.    *)
THEOREM AnswersStayFrozen == Spec => AnswersFrozen
<1>1. ASSUME TypeOK, IdsCounted, [Next]_vars, NEW i \in Ids, turns[i].state = "final"
      PROVE  turns'[i] \in {turns[i], NoTurn}
  <2>0. turns[i] \in Turn BY <1>1, AbsentOrTurn
  <2>1. ASSUME NEW s \in Streams, StreamStep(s) \/ StreamEvent(s) PROVE turns'[i] = turns[i]
    <3>0. Entering(s) \/ Working(s) \/ Ending(s) BY <2>1, StepKinds
    <3>1. CASE Entering(s)
      <4>1. UNCHANGED turns \/ Inserts(s) BY <1>1, <3>1, EnterWrites
      <4> QED BY <1>1, <4>1, InsertsElsewhere DEF Exists
    <3>2. CASE Working(s) \/ Ending(s)
      <4>1. Writes(s) BY <1>1, <3>2, WorkWrites, EndWrites
      <4>2. turns'[msg[s]] = turns[msg[s]] \/ turns[msg[s]].state # "final"
        BY <1>1, <4>1, WriteResult
      <4> QED BY <1>1, <4>1, <4>2 DEF Writes
    <3> QED BY <3>0, <3>1, <3>2
  <2>2. ASSUME NEW j \in Ids, Recovers(j) \/ Ages(j) PROVE turns'[i] = turns[i]
    BY <1>1, <2>2 DEF Recovers, Ages
  <2>3. CASE Flips BY <1>1, <2>3 DEF Flips
  <2>4. CASE Reaps \/ Deletes
    <3>1. PICK D \in SUBSET Ids : turns' = [j \in Ids |-> IF j \in D THEN NoTurn ELSE turns[j]]
      <4>1. CASE Reaps
        <5>1. SweptIds \in SUBSET Ids BY <1>1 DEF SweptIds
        <5> QED BY <4>1, <5>1 DEF Reaps
      <4>2. CASE Deletes BY <4>2 DEF Deletes
      <4> QED BY <2>4, <4>1, <4>2
    <3> QED BY <3>1
  <2>5. CASE UNCHANGED turns BY <2>5
  <2> QED BY <1>1, <2>1, <2>2, <2>3, <2>4, <2>5, ReaperWrites, EnvironmentWrites DEF Next, vars
<1>2. TypeOK /\ IdsCounted /\ [Next]_vars =>
        \A i \in Ids : turns[i].state = "final" => turns'[i] \in {turns[i], NoTurn}
  BY <1>1
<1> QED BY <1>2, TypeCorrect, IdsCountedHolds, PTL DEF Spec, AnswersFrozen

-----------------------------------------------------------------------------
(* The rows of ChatStream are the log of TurnLog.                          *)

Log == [i \in Ids |-> Phase(turns[i])]
LogStep == History!Next \/ UNCHANGED Log

(* A turn in the log, of one chat.                                         *)
Logged(c, p, n, f) == [chat |-> c, phase |-> p, text |-> n, form |-> f]

LEMMA PhaseOfTurn ==
  ASSUME NEW row \in Turn
  PROVE  Phase(row) = Logged(row.chat, PhaseName(row.state), row.text, row.form)
BY DEF Turn, Phase, Logged, PersistState

LEMMA PhaseNames ==
  /\ PhaseName("draft") = "open" /\ PhaseName("pending_finalization") = "open"
  /\ PhaseName("final") = "answered" /\ PhaseName("aborted_by_client") = "interrupted"
BY DEF PhaseName

LEMMA LogFields ==
  ASSUME NEW c, NEW p, NEW n, NEW f, NEW turn, turn = Logged(c, p, n, f)
  PROVE  turn.chat = c /\ turn.phase = p /\ turn.text = n /\ turn.form = f
BY DEF Logged

LEMMA Rephased ==
  ASSUME NEW c, NEW p, NEW n, NEW f, NEW q, NEW turn, turn = Logged(c, p, n, f)
  PROVE  [turn EXCEPT !.phase = q] = Logged(c, q, n, f)
BY DEF Logged

LEMMA Retexted ==
  ASSUME NEW c, NEW p, NEW n, NEW f, NEW m, NEW turn, turn = Logged(c, p, n, f)
  PROVE  [turn EXCEPT !.text = m] = Logged(c, p, m, f)
BY DEF Logged

LEMMA PhaseOfNone == Phase(NoTurn) = History!Vacant
BY DEF Phase, NoTurn, History!Vacant

LEMMA LogOf == Log' = [i \in Ids |-> Phase(turns'[i])]
BY DEF Log

(* One row gains text, is given its terminal content, or is closed.        *)
LEMMA RowStep ==
  ASSUME NEW i \in Ids, \A j \in Ids : j # i => turns'[j] = turns[j],
         turns[i] \in Turn, turns'[i] \in Turn, turns'[i].chat = turns[i].chat,
         turns[i].text <= turns'[i].text, turns'[i].text <= MaxDeltas,
         NEW p, NEW q, p = PhaseName(turns[i].state), q = PhaseName(turns'[i].state),
         \/ p = q /\ p \in {"open", "interrupted"} /\ turns[i].form = "raw" /\ turns'[i].form = "raw"
         \/ /\ p = "open" /\ q \in {"open", "answered"}
            /\ turns[i].form = "raw" /\ turns'[i].form = "terminal"
         \/ /\ p = "open" /\ q \in {"answered", "interrupted"}
            /\ turns'[i].text = turns[i].text /\ turns'[i].form = turns[i].form
            /\ q = "interrupted" => turns[i].form = "raw"
  PROVE  History!Next
<1> DEFINE c == turns[i].chat
           n == turns[i].text
           f == turns[i].form
           m == turns'[i].text
           g == turns'[i].form
<1>0. m \in n .. MaxDeltas BY BoundsAssumption DEF Turn
<1>1. Log[i] = Logged(c, p, n, f) BY PhaseOfTurn DEF Log
<1>2. Log' = [Log EXCEPT ![i] = Logged(c, q, m, g)]
  <2>1. Phase(turns'[i]) = Logged(c, q, m, g) BY PhaseOfTurn
  <2> QED BY <2>1, LogOf DEF Log
<1>a. Log \in [Ids -> {Log[j] : j \in Ids}] BY DEF Log
<1>b. Log[i].phase = p /\ Log[i].text = n /\ Log[i].form = f /\ Log[i].chat = c
  BY <1>1, LogFields
<1> HIDE DEF TypeOK, c, n, f, m, g
<1>3. CASE p = q /\ p \in {"open", "interrupted"} /\ f = "raw" /\ g = "raw"
  <2>1. [Log[i] EXCEPT !.text = m] = Logged(c, p, m, f) BY <1>1, Retexted
  <2>2. Log' = [Log EXCEPT ![i].text = m]
    BY <1>2, <1>3, <2>1 DEF Log
  <2>3. History!Write(i) BY <1>0, <1>3, <1>b, <2>2 DEF History!Write, Log
  <2> QED BY <2>3 DEF History!Next
<1>4. CASE p = "open" /\ q \in {"open", "answered"} /\ f = "raw" /\ g = "terminal"
  <2>1. Log' = [Log EXCEPT ![i] = [chat |-> Log[i].chat, phase |-> q, text |-> m,
                                   form |-> "terminal"]]
    BY <1>2, <1>4, <1>b DEF Logged
  <2>2. History!Resolve(i) BY <1>0, <1>4, <1>b, <2>1 DEF History!Resolve, Log
  <2> QED BY <2>2 DEF History!Next
<1>5. CASE /\ p = "open" /\ q \in {"answered", "interrupted"} /\ m = n /\ g = f
           /\ q = "interrupted" => f = "raw"
  <2>1. [Log[i] EXCEPT !.phase = q] = Logged(c, q, n, f) BY <1>1, Rephased
  <2>2. Log' = [Log EXCEPT ![i].phase = q]
    BY <1>2, <1>5, <2>1 DEF Log
  <2>3. History!Answer(i) \/ History!Interrupt(i)
    BY <1>5, <1>b, <2>2 DEF History!Answer, History!Interrupt, Log
  <2> QED BY <2>3 DEF History!Next
<1> QED BY <1>3, <1>4, <1>5 DEF c, n, f, m, g

LEMMA InsertBegins ==
  ASSUME TypeOK, IdsCounted, RowsHeld, NEW s \in Streams, Inserts(s), InProgressOf(chat[s]) = {}
  PROVE  History!Next
<1> DEFINE i == NextId
           c == chat[s]
<1> HIDE DEF i
<1>1. i \in Ids /\ turns' = [turns EXCEPT ![i] = [chat |-> c, by |-> s, state |-> "draft", text |-> 0,
                                                 form |-> "raw", age |-> "fresh"]]
  BY DEF Inserts, i
<1>2. turns[i] = NoTurn
  <2>1. turns[i].state = "absent" BY <1>1, NextIdIsNew DEF IdIsNew, Exists, i
  <2>2. turns[i] \notin Turn BY <2>1 DEF Turn, PersistState
  <2> QED BY <1>1, <2>2, AbsentOrTurn
<1>3. Log[i] = History!Vacant BY <1>1, <1>2, PhaseOfNone DEF Log
<1>4. Phase([chat |-> c, by |-> s, state |-> "draft", text |-> 0, form |-> "raw", age |-> "fresh"])
        = [chat |-> c, phase |-> "open", text |-> 0, form |-> "raw"]
  BY PhaseNames DEF Phase
<1>5. Log' = [Log EXCEPT ![i] = [chat |-> c, phase |-> "open", text |-> 0, form |-> "raw"]]
  BY <1>1, <1>4, LogOf DEF Log
<1>6. History!Open(c) = {}
  <2> SUFFICES ASSUME NEW j \in Ids, Log[j].phase = "open", Log[j].chat = c PROVE FALSE
    BY DEF History!Open, Log
  <2>1. turns[j] # NoTurn BY PhaseOfNone DEF Log, History!Vacant
  <2>2. turns[j] \in Turn BY <2>1
  <2>0. Log[j] = Logged(turns[j].chat, PhaseName(turns[j].state), turns[j].text, turns[j].form)
    BY <2>2, PhaseOfTurn DEF Log
  <2>3. PhaseName(turns[j].state) = "open" /\ turns[j].chat = c BY <2>0, LogFields
  <2>4. turns[j].state \in PersistState BY <2>2 DEF Turn
  <2> QED BY <2>3, <2>4, PhaseNames DEF PersistState, InProgressOf, InProgress
<1>7. History!Begin(i, c) BY <1>3, <1>5, <1>6 DEF History!Begin, Log
<1>8. c \in Chats OBVIOUS
<1> QED BY <1>1, <1>7, <1>8 DEF History!Next

LEMMA WriteLogs ==
  ASSUME TypeOK, TypeOK', StreamShape, Ownership, TextSaved,
         NEW s \in Streams, Working(s) \/ Ending(s)
  PROVE  LogStep
<1> DEFINE i == msg[s]
           old == turns[i]
           new == turns'[i]
<1>1. Writes(s) /\ i \in Ids /\ \A j \in Ids : j # i => turns'[j] = turns[j]
  BY WorkWrites, EndWrites DEF Writes
<1>2. CASE new = old
  <2>1. Log' = Log BY <1>1, <1>2, LogOf DEF Log
  <2> QED BY <2>1 DEF LogStep
<1>3. CASE new # old
  <2>1. old \in Turn /\ new \in Turn /\ new.chat = old.chat /\ new.by = old.by
    BY <1>1, <1>3, WriteResult
  <2>2. old.state # "absent" /\ old.text \in Nat /\ new.text \in Nat /\ new.state # "absent"
    BY <2>1 DEF Turn, PersistState
  <2>3. old.by = s
    <3>1. Claims(s) /\ Exists(msg[s]) BY <2>2, WriterClaims DEF Exists
    <3> QED BY <3>1 DEF Ownership
  <2>4. SavedBy(i, s) /\ SavedBy(i, s)' /\ SavedRaw
    <3>1. SavedNoMore' BY WorkSavesNoMore
    <3>2. SavedBy(i, s) BY <1>1, <2>2, <2>3 DEF TextSaved, SavedNoMore
    <3>3. new.text <= acc'[s] /\ (new.state = "draft" => new.text + buf'[s] <= acc'[s])
      BY <1>1, <2>1, <2>2, <2>3, <3>1 DEF SavedNoMore, SavedBy
    <3>4. UNCHANGED msg BY WorkWrites, EndWrites
    <3> QED BY <3>2, <3>3, <3>4 DEF TextSaved, SavedBy
  <2>5. old.text <= acc[s] /\ new.text <= MaxDeltas
    <3>1. acc'[s] \in 0 .. MaxDeltas /\ UNCHANGED msg BY WorkWrites, EndWrites
    <3>2. old.text <= acc[s] BY <2>4 DEF SavedBy
    <3>3. new.text <= acc'[s] BY <2>4, <3>1 DEF SavedBy
    <3> QED BY ONLY <2>2, <3>1, <3>2, <3>3, BoundsAssumption
  <2>6. old.state \in {"draft", "aborted_by_client"} => old.form = "raw"
    BY <1>1, <2>4 DEF SavedRaw
  <2> HIDE DEF TypeOK
  <2>7. old.text <= new.text
    <3>1. new.text \in {old.text, acc[s]} \/ \E n \in Nat : new.text = old.text + n
      BY <1>1, <1>3, WriteResult DEF MadeFrom
    <3> HIDE DEF old, new
    <3> QED BY <2>2, <2>5, <3>1
  <2>8. \/ /\ PhaseName(new.state) = PhaseName(old.state)
           /\ PhaseName(old.state) \in {"open", "interrupted"}
           /\ old.form = "raw" /\ new.form = "raw"
        \/ /\ PhaseName(old.state) = "open" /\ PhaseName(new.state) \in {"open", "answered"}
           /\ old.form = "raw" /\ new.form = "terminal"
        \/ /\ PhaseName(old.state) = "open"
           /\ PhaseName(new.state) \in {"answered", "interrupted"}
           /\ new.text = old.text /\ new.form = old.form
           /\ PhaseName(new.state) = "interrupted" => old.form = "raw"
    BY <1>1, <1>3, <2>6, WriteResult, PhaseNames DEF MadeFrom
  <2> QED BY <1>1, <2>1, <2>5, <2>7, <2>8, RowStep DEF LogStep
<1> QED BY <1>2, <1>3

(* A row is closed as it is.                                               *)
LEMMA RecoverLogs ==
  ASSUME TypeOK, TypeOK', TextSaved, NEW i \in Ids, Recovers(i)
  PROVE  LogStep
<1>1. turns[i] \in Turn BY AbsentOrTurn DEF Recovers
<1>2. /\ turns'[i].state = "final" /\ turns'[i].text = turns[i].text
      /\ turns'[i].form = turns[i].form
      /\ turns'[i].chat = turns[i].chat
      /\ \A j \in Ids : j # i => turns'[j] = turns[j]
  BY <1>1 DEF Recovers, Closed, Fresh, Turn
<1>3. turns'[i] \in Turn
  <2>1. turns'[i] \in Turn \cup {NoTurn} OBVIOUS
  <2> QED BY <1>2, <2>1 DEF NoTurn
<1>4. turns[i].text <= turns'[i].text /\ turns'[i].text <= MaxDeltas
  <2>1. turns[i].text \in Nat /\ turns[i].by \in Streams /\ turns[i].state # "absent"
    BY <1>1 DEF Turn, PersistState
  <2>2. turns[i].text <= acc[turns[i].by] BY <2>1 DEF TextSaved, SavedNoMore, SavedBy
  <2>3. acc[turns[i].by] \in 0 .. MaxDeltas BY <2>1
  <2>4. turns'[i].text = turns[i].text BY <1>2
  <2> QED BY ONLY <2>1, <2>2, <2>3, <2>4, BoundsAssumption
<1>5. PhaseName(turns[i].state) = "open" /\ PhaseName(turns'[i].state) = "answered"
  BY <1>2, PhaseNames DEF Recovers
<1> QED BY <1>1, <1>2, <1>3, <1>4, <1>5, RowStep DEF LogStep

LEMMA FlipLogs == ASSUME TypeOK, Flips PROVE LogStep
<1> DEFINE S == {i \in Ids : i \in SweptIds /\ turns[i].state = "draft"}
<1>1. ASSUME NEW i \in S
      PROVE  /\ Log[i] = Logged(turns[i].chat, "open", turns[i].text, turns[i].form)
             /\ Phase(turns'[i]) = Logged(turns[i].chat, "answered", turns[i].text, turns[i].form)
  <2>1. turns[i] \in Turn BY AbsentOrTurn
  <2>2. turns'[i] = Closed(turns[i], "final") BY DEF Flips
  <2>3. /\ turns'[i] \in Turn /\ turns'[i].state = "final" /\ turns'[i].chat = turns[i].chat
        /\ turns'[i].text = turns[i].text /\ turns'[i].form = turns[i].form
    BY <2>1, <2>2 DEF Closed, Fresh, Turn, PersistState
  <2> QED BY <2>1, <2>3, PhaseOfTurn, PhaseNames DEF Log
<1>2. ASSUME NEW i \in S PROVE [Log[i] EXCEPT !.phase = "answered"] = Phase(turns'[i])
  <2> DEFINE turn == Log[i]
             c == turns[i].chat
             n == turns[i].text
             f == turns[i].form
  <2>1. turn = Logged(c, "open", n, f) BY <1>1
  <2>2. Phase(turns'[i]) = Logged(c, "answered", n, f) BY <1>1
  <2> HIDE DEF turn, c, n, f, S, TypeOK
  <2>3. [turn EXCEPT !.phase = "answered"] = Logged(c, "answered", n, f) BY <2>1, Rephased
  <2> QED BY <2>2, <2>3 DEF turn
<1>3. ASSUME NEW i \in Ids, i \notin S PROVE Log[i] = Phase(turns'[i])
  BY <1>3 DEF Flips, Log
<1>4. Log' = [i \in Ids |-> IF i \in S THEN [Log[i] EXCEPT !.phase = "answered"] ELSE Log[i]]
  <2> SUFFICES ASSUME NEW i \in Ids
               PROVE  Phase(turns'[i])
                        = IF i \in S THEN [Log[i] EXCEPT !.phase = "answered"] ELSE Log[i]
    BY LogOf
  <2> HIDE DEF S
  <2> QED BY <1>2, <1>3
<1>5. \A i \in S : Log[i].phase = "open" BY <1>1, LogFields
<1>6. History!Sweep(S) BY <1>4, <1>5 DEF History!Sweep, Log
<1> QED BY <1>6 DEF LogStep, History!Next

(* Rows that become vacant: open ones in a sweep, those of a chat when the *)
(* user removes them.                                                      *)
LEMMA VacantRows ==
  ASSUME NEW D \in SUBSET Ids, turns' = [i \in Ids |-> IF i \in D THEN NoTurn ELSE turns[i]]
  PROVE  Log' = [i \in Ids |-> IF i \in D THEN History!Vacant ELSE Log[i]]
BY LogOf, PhaseOfNone DEF Log

LEMMA ReapLogs == ASSUME TypeOK, OldIsOver, SweepSpares, Reaps PROVE LogStep
<1> DEFINE S == {i \in Ids : i \in SweptIds /\ turns[i].state # "absent"}
<1>1. ASSUME NEW i \in S PROVE turns[i] \in Turn /\ turns[i].state = "draft"
  <2>1. PICK r \in sweep.rows : r[1] = i BY DEF SweptIds
  <2>2. turns[i].age = "old" BY <2>1 DEF SweepSpares, Reaps
  <2> QED BY <2>2, AbsentOrTurn DEF OldIsOver
<1>2. ASSUME NEW i \in S PROVE Log[i].phase = "open"
  <2>1. Log[i] = Logged(turns[i].chat, "open", turns[i].text, turns[i].form)
    BY <1>1, PhaseOfTurn, PhaseNames DEF Log
  <2> QED BY <2>1, LogFields
<1>3. turns' = [i \in Ids |-> IF i \in S THEN NoTurn ELSE turns[i]]
  BY AbsentOrTurn DEF Reaps, Turn, PersistState
<1>4. Log' = [i \in Ids |-> IF i \in S THEN History!Vacant ELSE Log[i]] BY <1>3, VacantRows
<1>5. History!Sweep(S) BY <1>2, <1>4 DEF History!Sweep, Log
<1> QED BY <1>5 DEF LogStep, History!Next

LEMMA DeleteLogs == ASSUME TypeOK, Deletes PROVE LogStep
<1>1. PICK D \in SUBSET Ids, c \in Chats :
        /\ \A i \in D : Exists(i) /\ turns[i].chat = c
        /\ turns' = [i \in Ids |-> IF i \in D THEN NoTurn ELSE turns[i]]
  BY DEF Deletes
<1>2. \A i \in D : Log[i].phase # "vacant" /\ Log[i].chat = c
  <2> SUFFICES ASSUME NEW i \in D PROVE Log[i].phase # "vacant" /\ Log[i].chat = c OBVIOUS
  <2>1. turns[i] \in Turn /\ turns[i].chat = c BY <1>1, AbsentOrTurn DEF Exists
  <2>0. Log[i] = Logged(turns[i].chat, PhaseName(turns[i].state), turns[i].text, turns[i].form)
    BY <2>1, PhaseOfTurn DEF Log
  <2>2. Log[i].chat = c /\ Log[i].phase = PhaseName(turns[i].state)
    BY <2>0, <2>1, LogFields
  <2>3. turns[i].state \in PersistState BY <2>1 DEF Turn
  <2> QED BY <2>2, <2>3, PhaseNames DEF PersistState
<1>3. Log' = [i \in Ids |-> IF i \in D THEN History!Vacant ELSE Log[i]] BY <1>1, VacantRows
<1>4. History!Remove(D, c) BY <1>2, <1>3 DEF History!Remove, Log
<1> QED BY <1>4 DEF LogStep, History!Next

LEMMA AgeLogs == ASSUME TypeOK, NEW i \in Ids, Ages(i) PROVE LogStep
<1>1. turns[i] \in Turn BY AbsentOrTurn DEF Ages
<1>2. /\ turns'[i] \in Turn /\ turns'[i].state = turns[i].state
      /\ turns'[i].chat = turns[i].chat
      /\ turns'[i].text = turns[i].text /\ turns'[i].form = turns[i].form
      /\ \A j \in Ids : j # i => turns'[j] = turns[j]
  <2>1. PICK a \in {"quiet", "old"} : turns' = [turns EXCEPT ![i] = [turns[i] EXCEPT !.age = a]]
    BY DEF Ages
  <2>2. turns'[i] = [turns[i] EXCEPT !.age = a] /\ \A j \in Ids : j # i => turns'[j] = turns[j]
    BY <2>1
  <2> QED BY <1>1, <2>2 DEF Turn
<1>3. Phase(turns'[i]) = Phase(turns[i]) BY <1>1, <1>2, PhaseOfTurn
<1>4. Log' = Log BY <1>2, <1>3, LogOf DEF Log
<1> QED BY <1>4 DEF LogStep

(* The rows that stream_chat, its shielded updates, the reaper and, on     *)
(* Postgres, the user's deletions write are a chat history: one open turn  *)
(* per chat, a partial text that only grows until the turn is given its    *)
(* terminal content, answers that are frozen, and no turn that is over     *)
(* lost but by the user ("assistant history is immutable",                 *)
(* message_service.edit).                                                  *)
THEOREM RowsAreAHistory == ASSUME NoReuse PROVE Spec => ImplementsTurnLog
<1>1. Init => History!Init
  <2> SUFFICES ASSUME Init PROVE History!Init OBVIOUS
  <2>1. \A i \in Ids : Phase(turns[i]) = History!Vacant BY PhaseOfNone DEF Init
  <2> QED BY <2>1 DEF History!Init
<1>2. TypeOK /\ TypeOK' /\ SingleInv /\ StreamShape /\ RowsInv /\ [Next]_vars => LogStep
  <2> SUFFICES ASSUME TypeOK, TypeOK', SingleInv, StreamShape, Ownership, IdsCounted, RowsHeld,
                      OldIsOver, SweepSpares, TextSaved, [Next]_vars
               PROVE  LogStep
    BY DEF RowsInv
  <2>0. ASSUME UNCHANGED turns PROVE LogStep BY <2>0, LogOf DEF LogStep, Log
  <2>1. ASSUME NEW s \in Streams, StreamStep(s) \/ StreamEvent(s) PROVE LogStep
    <3>0. Entering(s) \/ Working(s) \/ Ending(s) BY <2>1, StepKinds
    <3>1. CASE Entering(s) /\ ~UNCHANGED turns
      <4>1. Inserts(s) BY <3>1, EnterWrites
      <4>2. pc[s] = "inserting"
        BY <3>1 DEF Entering, AcquireLock, AssertNoInProgressStream, CreateDraft,
           CancelledEarly, CreateDraftFails, rowVars
      <4>3. InProgressOf(chat[s]) = {} BY <4>2 DEF SingleInv, CheckStillHolds
      <4> QED BY <4>1, <4>3, InsertBegins DEF LogStep
    <3>2. CASE Working(s) \/ Ending(s) BY <3>2, WriteLogs
    <3> QED BY <2>0, <3>0, <3>1, <3>2
  <2>2. CASE Reaper BY <2>0, <2>2, ReaperWrites, RecoverLogs, FlipLogs, ReapLogs
  <2>3. CASE Environment BY <2>0, <2>3, EnvironmentWrites, AgeLogs, DeleteLogs
  <2>4. CASE UNCHANGED vars BY <2>0, <2>4 DEF vars
  <2> QED BY <2>1, <2>2, <2>3, <2>4 DEF Next
<1>3. LogStep => [History!Next]_[i \in Ids |-> Phase(turns[i])] BY DEF LogStep, Log
<1> QED
  BY <1>1, <1>2, <1>3, TypeCorrect, SingleInvHolds, ShapeHolds, RowsInvHolds, PTL
  DEF Spec, ImplementsTurnLog, History!Spec

=============================================================================
