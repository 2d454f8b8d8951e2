-------------------------- MODULE ChatStream_proofs --------------------------
(* What holds of ChatStream for every number of chats, streams, faults,     *)
(* restarts and deletions, on SQLite and on Postgres.                      *)
EXTENDS ChatStream, TLAPS

Row == Turn \cup {NoTurn}

-----------------------------------------------------------------------------
(* The guarded updates keep a row a row.                                   *)

LEMMA PresentRow == ASSUME NEW row \in Row, row.state # "absent" PROVE row \in Turn
BY DEF Row, NoTurn

LEMMA TransitionType ==
  ASSUME NEW row \in Row, NEW from \in PersistState, NEW to \in PersistState
  PROVE  Transition(row, from, to) \in Row
<1>1. CASE row.state = from
  <2>1. row \in Turn BY <1>1, PresentRow DEF PersistState
  <2> QED BY <1>1, <2>1 DEF Transition, Row, Turn
<1>2. CASE row.state # from BY <1>2 DEF Transition
<1> QED BY <1>1, <1>2

LEMMA WriteType ==
  ASSUME NEW row \in Row, NEW n \in Nat
  PROVE  /\ ToPending(row, n) \in Row
         /\ ReleaseDraft(row, n) \subseteq Row
         /\ SalvageAborted(row, n) \in Row
         /\ FlushDraft(row, n) \in Row
<1>1. CASE row \in Turn
  <2>1. \A to \in PersistState : Resolved(row, to, n) \in Row
    BY <1>1 DEF Resolved, Row, Turn, ContentForm
  <2>2. Transition(row, "draft", "final") \in Row BY TransitionType DEF PersistState
  <2>3. ToPending(row, n) \in Row BY <1>1, <2>1 DEF ToPending, Row, PersistState
  <2>4. ReleaseDraft(row, n) \subseteq Row
    BY <1>1, <2>1, <2>2 DEF ReleaseDraft, Row, PersistState
  <2>5. SalvageAborted(row, n) \in Row BY <1>1 DEF SalvageAborted, Row, Turn, ContentForm
  <2>6. FlushDraft(row, n) \in Row
    <3>1. row.text + n \in Nat BY <1>1 DEF Turn
    <3> QED BY <1>1, <3>1 DEF FlushDraft, Row, Turn
  <2> QED BY <2>3, <2>4, <2>5, <2>6
<1>2. CASE row = NoTurn
  BY <1>2 DEF NoTurn, ToPending, ReleaseDraft, SalvageAborted, FlushDraft, Row
<1> QED BY <1>1, <1>2 DEF Row

LEMMA UpdatedRowType ==
  ASSUME TypeOK, NEW s \in Streams, NEW u \in Update, NEW row \in Row
  PROVE  UpdatedRow(s, u, row) \subseteq Row
<1>1. acc[s] \in Nat BY DEF TypeOK
<1>2. CASE u \in {"watch", "abort"}
  BY <1>2, TransitionType DEF UpdatedRow, SafeAbortDraft, PersistState
<1>3. CASE u = "release" BY <1>1, <1>3, WriteType DEF UpdatedRow
<1>4. CASE u = "salvage" BY <1>1, <1>4, WriteType DEF UpdatedRow
<1> QED BY <1>2, <1>3, <1>4 DEF Update

(* A table with one row replaced by a row.                                 *)
LEMMA OneRowType ==
  ASSUME turns \in [Ids -> Row], NEW i \in Ids, NEW row \in Row,
         turns' = [turns EXCEPT ![i] = row]
  PROVE  turns' \in [Ids -> Row]
OBVIOUS

(* The flush of a buffer, or none.                                         *)
LEMMA FlushType ==
  ASSUME TypeOK, NEW s \in Streams, NEW n \in Nat, msg[s] \in Ids,
         \/ Flush(s, n) \/ NoFlush(s, n)
         \/ UNCHANGED turns /\ DropBuffer(s)
  PROVE  turns' \in [Ids -> Row] /\ buf' \in [Streams -> Nat]
<1>1. turns \in [Ids -> Row] /\ buf \in [Streams -> Nat] BY DEF TypeOK, Row
<1>2. FlushDraft(turns[msg[s]], n) \in Row BY <1>1, WriteType
<1>3. turns' \in [Ids -> Row] BY <1>1, <1>2 DEF Flush, NoFlush
<1> QED BY <1>1, <1>3 DEF Flush, NoFlush, DropBuffer

-----------------------------------------------------------------------------
(* Type correctness, one lemma per group of actions.                       *)

LEMMA InitType == Init => TypeOK
BY BoundsAssumption DEF Init, TypeOK, Ids, Row, Location, InLock, Marked, InGroup, Teardown

USE DEF TypeOK, Ids

LEMMA InsertTurnType ==
  ASSUME TypeOK, NEW s \in Streams, InsertTurn(s)
  PROVE  /\ turns' \in [Ids -> Turn \cup {NoTurn}]
         /\ lastId' \in 0 .. MaxTurns
         /\ NextId \in Ids
BY BoundsAssumption DEF InsertTurn, Turn, PersistState, ContentForm

LEMMA EnterType ==
  ASSUME TypeOK, NEW s \in Streams,
         \/ AcquireLock(s) \/ AssertNoInProgressStream(s) \/ CreateDraft(s)
         \/ CancelledEarly(s) \/ CreateDraftFails(s)
  PROVE  TypeOK'
<1> USE DEF rowVars, budgetVars, Goto, Location, InLock, Marked, InGroup, Teardown, Release
<1>1. CASE AcquireLock(s) BY <1>1 DEF AcquireLock
<1>2. CASE AssertNoInProgressStream(s) BY <1>2 DEF AssertNoInProgressStream
<1>3. CASE CreateDraft(s)
  <2>1. InsertTurn(s) BY <1>3 DEF CreateDraft
  <2>2. refs' \in [Chats -> Nat] BY <1>3 DEF CreateDraft, MarkActive
  <2>3. /\ turns' \in [Ids -> Turn \cup {NoTurn}]
        /\ lastId' \in 0 .. MaxTurns
        /\ NextId \in 0 .. MaxTurns /\ NextId \in Ids
    <3>1. /\ turns' \in [Ids -> Turn \cup {NoTurn}]
          /\ lastId' \in 0 .. MaxTurns
          /\ NextId \in Ids
      BY ONLY <2>1, TypeOK, InsertTurnType
    <3>2. \A i \in Ids : i \in 0 .. MaxTurns BY ONLY BoundsAssumption DEF Ids
    <3> QED BY ONLY <3>1, <3>2
  <2>4. /\ msg' \in [Streams -> 0 .. MaxTurns]
        /\ \A q \in Streams : pc'[q] \in Marked \/ inflight'[q] # {} => msg'[q] \in Ids
    BY <1>3, <2>3 DEF CreateDraft
  <2>5. /\ lock' \in [Chats -> Streams \cup {NoStream}]
        /\ pc' \in [Streams -> Location]
    BY <1>3 DEF CreateDraft
  <2> QED BY <1>3, <2>2, <2>3, <2>4, <2>5 DEF CreateDraft
<1>4. CASE CancelledEarly(s)
  <2>1. /\ turns' \in [Ids -> Turn \cup {NoTurn}]
        /\ lastId' \in 0 .. MaxTurns
    BY <1>4, InsertTurnType DEF CancelledEarly
  <2> QED BY <1>4, <2>1 DEF CancelledEarly
<1>5. CASE CreateDraftFails(s) BY <1>5, BoundsAssumption DEF CreateDraftFails, Fault
<1> QED BY <1>1, <1>2, <1>3, <1>4, <1>5

(* Where the streams are and what they have in flight.                     *)
ControlOK ==
  /\ pc \in [Streams -> Location]
  /\ inflight \in [Streams -> SUBSET Update]
  /\ \A s \in Streams : pc[s] \in Marked \/ inflight[s] # {} => msg[s] \in Ids

LEMMA GotoType ==
  ASSUME TypeOK, NEW s \in Streams, NEW to \in Location, Goto(s, to),
         msg[s] \in Ids, UNCHANGED <<msg, inflight>>
  PROVE  ControlOK'
BY DEF Goto, ControlOK

LEMMA BeginTeardownType ==
  ASSUME TypeOK, NEW s \in Streams, NEW left \in SUBSET Update, BeginTeardown(s, left),
         msg[s] \in Ids, UNCHANGED msg
  PROVE  ControlOK'
<1>1. TeardownUpdate(s) \in Update BY DEF TeardownUpdate, Update
<1>2. left \cup {TeardownUpdate(s)} \in SUBSET Update BY <1>1
<1>3. inflight' \in [Streams -> SUBSET Update] BY <1>2 DEF BeginTeardown
<1>4. pc' \in [Streams -> Location]
  BY DEF BeginTeardown, Goto, Location, Marked, Teardown
<1>5. \A q \in Streams : q # s => pc'[q] = pc[q] /\ inflight'[q] = inflight[q]
  BY DEF BeginTeardown, Goto
<1> QED BY <1>3, <1>4, <1>5 DEF ControlOK

LEMMA ProceedType ==
  ASSUME TypeOK, NEW s \in Streams, NEW left \in SUBSET Update, Proceed(s, left),
         msg[s] \in Ids, UNCHANGED msg
  PROVE  ControlOK' /\ refs' \in [Chats -> Nat]
<1>1. CASE pc[s] = "releasing"
  <2>1. left \cup {"salvage"} \in SUBSET Update BY DEF Update
  <2>2. inflight' \in [Streams -> SUBSET Update] BY <1>1, <2>1 DEF Proceed
  <2>3. pc' \in [Streams -> Location] /\ refs' = refs
    BY <1>1 DEF Proceed, Goto, Location, Marked, Teardown
  <2>4. \A q \in Streams : q # s => pc'[q] = pc[q] /\ inflight'[q] = inflight[q]
    BY <1>1 DEF Proceed, Goto
  <2> QED BY <2>2, <2>3, <2>4 DEF ControlOK
<1>2. CASE pc[s] # "releasing"
  <2>1. refs' \in [Chats -> Nat]
    <3>1. chat[s] \in Chats /\ refs[chat[s]] \in Nat OBVIOUS
    <3>2. (IF refs[chat[s]] <= 1 THEN 0 ELSE refs[chat[s]] - 1) \in Nat BY <3>1
    <3> QED BY <1>2, <3>1, <3>2 DEF Proceed, MarkInactive
  <2>2. pc' \in [Streams -> Location] /\ inflight' \in [Streams -> SUBSET Update]
    BY ZenonT(30), <1>2 DEF Proceed, Goto, Location
  <2>3. \A q \in Streams : q # s => pc'[q] = pc[q] /\ inflight'[q] = inflight[q]
    BY <1>2 DEF Proceed, Goto
  <2> QED BY <2>1, <2>2, <2>3 DEF ControlOK
<1> QED BY <1>1, <1>2

LEMMA TurnType ==
  ASSUME TypeOK, NEW s \in Streams,
         \/ Prepare(s) \/ Delta(s) \/ ReasoningDelta(s) \/ TouchActivity(s) \/ ChatEnd(s) \/ UpstreamFails(s)
         \/ FinalizeToPending(s) \/ CommitFinal(s) \/ FinalizeFails(s) \/ Epilogue(s)
  PROVE  TypeOK'
<1> USE DEF rowVars, streamVars, budgetVars
<1>0. msg[s] \in Ids /\ turns[msg[s]] \in Row /\ acc[s] \in 0 .. MaxDeltas
  BY DEF Prepare, Delta, ReasoningDelta, TouchActivity, ChatEnd, UpstreamFails, FinalizeToPending,
         CommitFinal, FinalizeFails, Epilogue, Row, Marked, InGroup
<1>a. "generating" \in Location /\ "finalizing" \in Location
      /\ "committing" \in Location /\ "epilogue" \in Location
  BY DEF Location, Marked, InGroup
<1>b. inflight[s] \in SUBSET Update OBVIOUS
<1>1. CASE Prepare(s)
  <2>1. ControlOK' BY <1>0, <1>a, <1>b, <1>1, GotoType, BeginTeardownType DEF Prepare
  <2> QED BY <1>1, <2>1 DEF Prepare, ControlOK
<1>2. CASE Delta(s) \/ ReasoningDelta(s)
  <2>1. buf[s] + 1 \in Nat /\ buf[s] \in Nat OBVIOUS
  <2>2. turns' \in [Ids -> Turn \cup {NoTurn}] /\ buf' \in [Streams -> Nat]
    BY <1>0, <1>2, <2>1, FlushType DEF Delta, ReasoningDelta, Row
  <2>3. acc' \in [Streams -> 0 .. MaxDeltas]
    <3>1. CASE Delta(s)
      <4>1. acc[s] + 1 \in 0 .. MaxDeltas BY <1>0, <3>1, BoundsAssumption DEF Delta
      <4> QED BY <3>1, <4>1 DEF Delta
    <3>2. CASE ReasoningDelta(s) BY <3>2 DEF ReasoningDelta
    <3> QED BY <1>2, <3>1, <3>2
  <2> QED BY <1>2, <2>2, <2>3 DEF Delta, ReasoningDelta
<1>3. CASE TouchActivity(s)
  <2>1. turns[msg[s]] \in Turn BY <1>0, <1>3, PresentRow DEF TouchActivity
  <2>2. turns' \in [Ids -> Turn \cup {NoTurn}] BY <1>0, <1>3, <2>1 DEF TouchActivity, Turn
  <2> QED BY <1>3, <2>2 DEF TouchActivity
<1>4. CASE ChatEnd(s)
  <2>1. buf[s] \in Nat OBVIOUS
  <2>2. turns' \in [Ids -> Turn \cup {NoTurn}] /\ buf' \in [Streams -> Nat]
    BY <1>0, <1>4, <2>1, FlushType DEF ChatEnd, Row
  <2>3. ControlOK' BY <1>0, <1>a, <1>4, GotoType DEF ChatEnd
  <2> QED BY <1>4, <2>2, <2>3 DEF ChatEnd, ControlOK
<1>5. CASE UpstreamFails(s)
  <2>1. ControlOK' BY <1>0, <1>b, <1>5, BeginTeardownType DEF UpstreamFails
  <2> QED BY <1>5, <2>1 DEF UpstreamFails, DropBuffer, ControlOK
<1>6. CASE FinalizeToPending(s)
  <2>1. ToPending(turns[msg[s]], acc[s]) \in Row BY <1>0, WriteType
  <2>2. turns' \in [Ids -> Turn \cup {NoTurn}] BY <1>0, <1>6, <2>1 DEF FinalizeToPending, Row
  <2>3. ControlOK'
    BY <1>0, <1>a, <1>b, <1>6, GotoType, BeginTeardownType DEF FinalizeToPending
  <2> QED BY <1>6, <2>2, <2>3 DEF FinalizeToPending, ControlOK
<1>7. CASE CommitFinal(s)
  <2>1. FinalizePending(turns[msg[s]]) \in Row
    BY <1>0, TransitionType DEF FinalizePending, PersistState
  <2>2. turns' \in [Ids -> Turn \cup {NoTurn}] BY <1>0, <1>7, <2>1 DEF CommitFinal, Row
  <2>3. completed' \in [Streams -> BOOLEAN] BY <1>7 DEF CommitFinal
  <2>4. ControlOK'
    BY <1>0, <1>a, <1>b, <1>7, GotoType, BeginTeardownType DEF CommitFinal
  <2> QED BY <1>7, <2>2, <2>3, <2>4 DEF CommitFinal, ControlOK
<1>8. CASE FinalizeFails(s)
  <2>1. ControlOK' BY <1>0, <1>b, <1>8, BeginTeardownType DEF FinalizeFails
  <2> QED BY <1>8, <2>1, BoundsAssumption DEF FinalizeFails, Fault, ControlOK
<1>9. CASE Epilogue(s)
  <2>1. ControlOK' BY <1>0, <1>b, <1>9, BeginTeardownType DEF Epilogue
  <2> QED BY <1>9, <2>1 DEF Epilogue, ControlOK
<1> QED BY <1>1, <1>2, <1>3, <1>4, <1>5, <1>6, <1>7, <1>8, <1>9

LEMMA TeardownType ==
  ASSUME TypeOK, NEW s \in Streams,
         \/ WatchDisconnect(s) \/ Cancelled(s) \/ AwaitCancelled(s)
         \/ \E u \in Update : UpdateLands(s, u) \/ UpdateFails(s, u)
  PROVE  TypeOK'
<1> USE DEF rowVars, streamVars, budgetVars
<1>1. CASE WatchDisconnect(s)
  <2>1. msg[s] \in Ids BY <1>1 DEF WatchDisconnect, Marked
  <2>2. inflight[s] \cup {"watch"} \in SUBSET Update BY DEF Update
  <2>3. inflight' \in [Streams -> SUBSET Update] /\ gone' \in [Streams -> BOOLEAN]
    BY <1>1, <2>2 DEF WatchDisconnect
  <2>4. \A q \in Streams : q # s => inflight'[q] = inflight[q]
    BY <1>1 DEF WatchDisconnect
  <2> QED BY <1>1, <2>1, <2>3, <2>4 DEF WatchDisconnect
<1>2. CASE Cancelled(s)
  <2>1. msg[s] \in Ids /\ inflight[s] \in SUBSET Update
    BY <1>2 DEF Cancelled, Marked
  <2>2. ControlOK' BY <1>2, <2>1, BeginTeardownType DEF Cancelled
  <2> QED BY <1>2, <2>2 DEF Cancelled, DropBuffer, ControlOK
<1>3. CASE AwaitCancelled(s)
  <2>1. msg[s] \in Ids /\ inflight[s] \in SUBSET Update
    BY <1>3 DEF AwaitCancelled, Marked, Teardown
  <2>2. ControlOK' /\ refs' \in [Chats -> Nat] BY <1>3, <2>1, ProceedType DEF AwaitCancelled
  <2> QED BY <1>3, <2>2 DEF AwaitCancelled, ControlOK
<1>4. ASSUME NEW u \in Update, UpdateLands(s, u) PROVE TypeOK'
  <2>1. msg[s] \in Ids /\ turns[msg[s]] \in Row BY <1>4 DEF UpdateLands, Row
  <2>2. UpdatedRow(s, u, turns[msg[s]]) \subseteq Row BY <2>1, UpdatedRowType
  <2>3. turns' \in [Ids -> Turn \cup {NoTurn}] BY <1>4, <2>1, <2>2 DEF UpdateLands, Row
  <2>4. inflight[s] \ {u} \in SUBSET Update OBVIOUS
  <2>5. ControlOK' /\ refs' \in [Chats -> Nat]
    <3>1. CASE u \in Awaited(s) BY <1>4, <2>1, <2>4, <3>1, ProceedType DEF UpdateLands
    <3>2. CASE u \notin Awaited(s)
      <4>1. inflight' = [inflight EXCEPT ![s] = @ \ {u}] /\ UNCHANGED <<pc, refs, msg>>
        BY <1>4, <3>2 DEF UpdateLands
      <4> QED BY <2>1, <2>4, <4>1 DEF ControlOK
    <3> QED BY <3>1, <3>2
  <2> QED BY <1>4, <2>3, <2>5 DEF UpdateLands, ControlOK
<1>5. ASSUME NEW u \in Update, UpdateFails(s, u) PROVE TypeOK'
  <2>1. msg[s] \in Ids BY <1>5 DEF UpdateFails
  <2>2. faults' \in 0 .. MaxFaults /\ UNCHANGED <<crashes, deletes>>
    BY <1>5, BoundsAssumption DEF UpdateFails, Fault
  <2>3. inflight[s] \ {u} \in SUBSET Update OBVIOUS
  <2>4. ControlOK' /\ refs' \in [Chats -> Nat]
    <3>1. CASE u \in Awaited(s) /\ u # "abort"
      BY <1>5, <2>1, <2>3, <3>1, ProceedType DEF UpdateFails
    <3>2. CASE ~(u \in Awaited(s) /\ u # "abort") /\ u = "watch" /\ pc[s] \in InGroup
      BY <1>5, <2>1, <2>3, <3>2, BeginTeardownType DEF UpdateFails
    <3>3. CASE ~(u \in Awaited(s) /\ u # "abort") /\ ~(u = "watch" /\ pc[s] \in InGroup)
      <4>1. \/ Goto(s, "done")
            \/ UNCHANGED pc
        BY <1>5, <3>3 DEF UpdateFails
      <4>2. pc' \in [Streams -> Location]
            /\ \A q \in Streams : pc'[q] \in Marked => pc[q] \in Marked
        BY <4>1 DEF Goto, Location, Marked, InGroup, Teardown
      <4>3. inflight' = [inflight EXCEPT ![s] = @ \ {u}] /\ UNCHANGED <<msg, refs>>
        BY <1>5, <3>3 DEF UpdateFails
      <4> QED BY <2>1, <2>3, <4>2, <4>3 DEF ControlOK
    <3> QED BY <3>1, <3>2, <3>3
  <2>5. buf' \in [Streams -> Nat] BY <1>5 DEF UpdateFails, DropBuffer
  <2> QED BY <1>5, <2>2, <2>4, <2>5 DEF UpdateFails, ControlOK
<1> QED BY <1>1, <1>2, <1>3, <1>4, <1>5

LEMMA ReaperType == ASSUME TypeOK, Reaper PROVE TypeOK'
<1> USE DEF streamVars, budgetVars, ReaperOnly, SweepTo
<1> DEFINE Places == {"asleep", "recover", "stuck", "flip", "swept", "reap"}
<1>0. sweep.rows \in SUBSET (Ids \X Chats) /\ sweep.at \in Places OBVIOUS
<1>1. ASSUME NEW S \in SUBSET Ids, \A i \in S : Exists(i)
      PROVE  WithChat(S) \in SUBSET (Ids \X Chats)
  <2>1. \A i \in S : turns[i] \in Turn BY <1>1, PresentRow DEF Exists, Row
  <2> QED BY <2>1 DEF WithChat, Turn
<1>2. CASE SelectPending
  <2>1. WithChat({i \in Ids : turns[i].state = "pending_finalization"}) \in SUBSET (Ids \X Chats)
    BY <1>1 DEF Exists
  <2> QED BY <1>2, <2>1 DEF SelectPending
<1>3. CASE RecoverPending
  <2>1. PICK r \in sweep.rows :
          /\ SweepTo("recover", sweep.rows \ {r})
          /\ \/ turns' = [turns EXCEPT ![r[1]] = FinalizePending(@)] /\ UNCHANGED budgetVars
             \/ UNCHANGED turns /\ Fault
    BY <1>3 DEF RecoverPending
  <2>2. r[1] \in Ids /\ turns[r[1]] \in Row BY <1>0, <2>1 DEF Row
  <2>3. FinalizePending(turns[r[1]]) \in Row
    BY <2>2, TransitionType DEF FinalizePending, PersistState
  <2>4. turns' \in [Ids -> Turn \cup {NoTurn}] BY <2>1, <2>2, <2>3 DEF Row
  <2>5. faults' \in 0 .. MaxFaults /\ UNCHANGED <<crashes, deletes>>
    BY <2>1, BoundsAssumption DEF Fault
  <2> QED BY <1>0, <1>3, <2>1, <2>4, <2>5 DEF RecoverPending
<1>4. CASE SelectStuck
  <2>1. WithChat({i \in Ids : turns[i].state = "draft" /\ turns[i].age # "fresh"})
          \in SUBSET (Ids \X Chats)
    BY <1>1 DEF Exists
  <2> QED BY <1>4, <2>1 DEF SelectStuck
<1>5. CASE SkipActive BY <1>0, <1>5 DEF SkipActive
<1>6. CASE FlipStuck
  <2>1. \A i \in Ids : Transition(turns[i], "draft", "final") \in Row
    BY TransitionType DEF PersistState, Row
  <2>2. turns' \in [Ids -> Turn \cup {NoTurn}]
    <3>1. CASE turns' = [i \in Ids |-> IF i \in SweptIds
                                       THEN Transition(turns[i], "draft", "final") ELSE turns[i]]
      BY <2>1, <3>1 DEF Row
    <3>2. CASE UNCHANGED turns BY <3>2
    <3> QED BY <1>6, <3>1, <3>2 DEF FlipStuck
  <2>3. faults' \in 0 .. MaxFaults /\ UNCHANGED <<crashes, deletes>>
    BY <1>6, BoundsAssumption DEF FlipStuck, Fault
  <2> QED BY <1>6, <2>2, <2>3 DEF FlipStuck
<1>7. CASE SelectOld
  <2>1. WithChat({i \in Ids : turns[i].state = "draft" /\ turns[i].age = "old"})
          \in SUBSET (Ids \X Chats)
    BY <1>1 DEF Exists
  <2> QED BY <1>7, <2>1 DEF SelectOld
<1>8. CASE DeleteOld
  <2>1. turns' \in [Ids -> Turn \cup {NoTurn}] BY <1>8 DEF DeleteOld
  <2>2. faults' \in 0 .. MaxFaults /\ UNCHANGED <<crashes, deletes>>
    BY <1>8, BoundsAssumption DEF DeleteOld, Fault
  <2> QED BY <1>8, <2>1, <2>2 DEF DeleteOld
<1> QED BY <1>2, <1>3, <1>4, <1>5, <1>6, <1>7, <1>8 DEF Reaper

UserDeletes ==
  \/ \E i \in Ids : DeleteMessage(i) \/ DeleteOnward(i)
  \/ \E c \in Chats : ClearMessages(c)

LEMMA EnvironmentType == ASSUME TypeOK, Environment PROVE TypeOK'
<1> USE DEF rowVars, streamVars, budgetVars
<1>1. ASSUME NEW i \in Ids, GoQuiet(i) \/ GoOld(i) PROVE TypeOK'
  <2>1. turns[i] \in Turn BY <1>1, PresentRow DEF GoQuiet, GoOld, Row
  <2>2. [turns[i] EXCEPT !.age = "quiet"] \in Turn /\ [turns[i] EXCEPT !.age = "old"] \in Turn
    BY <2>1 DEF Turn
  <2>3. \/ turns' = [turns EXCEPT ![i] = [turns[i] EXCEPT !.age = "quiet"]]
        \/ turns' = [turns EXCEPT ![i] = [turns[i] EXCEPT !.age = "old"]]
    BY <1>1 DEF GoQuiet, GoOld
  <2>4. turns' \in [Ids -> Turn \cup {NoTurn}] BY <2>2, <2>3
  <2> QED BY <1>1, <2>4 DEF GoQuiet, GoOld
<1>2. CASE UserDeletes
  <2>1. turns' \in [Ids -> Turn \cup {NoTurn}]
    BY <1>2 DEF UserDeletes, DeleteMessage, DeleteOnward, ClearMessages, Remove
  <2>2. Deletion BY <1>2 DEF UserDeletes, DeleteMessage, DeleteOnward, ClearMessages
  <2>3. deletes' \in 0 .. MaxDeletes BY <2>2, BoundsAssumption DEF Deletion
  <2> QED BY <2>1, <2>2, <2>3 DEF Deletion
<1>3. CASE Restart
  <2>1. crashes' \in 0 .. MaxCrashes BY <1>3, BoundsAssumption DEF Restart
  <2>2. pc' \in [Streams -> Location] /\ \A s \in Streams : pc'[s] \notin Marked
    BY <1>3 DEF Restart, Location, Marked, InGroup, Teardown
  <2> QED BY <1>3, <2>1, <2>2 DEF Restart
<1> QED BY <1>1, <1>2, <1>3 DEF Environment, UserDeletes

LEMMA NextType == TypeOK /\ [Next]_vars => TypeOK'
<1> SUFFICES ASSUME TypeOK, [Next]_vars PROVE TypeOK' OBVIOUS
<1>1. ASSUME NEW s \in Streams, StreamStep(s) \/ StreamEvent(s) PROVE TypeOK'
  BY <1>1, EnterType, TurnType, TeardownType DEF StreamStep, StreamEvent
<1>2. CASE UNCHANGED vars BY <1>2 DEF vars, Exists
<1> QED BY <1>1, <1>2, ReaperType, EnvironmentType DEF Next

(* In every behaviour of stream_chat, the reaper and their environment the *)
(* variables keep their types, and a stream that has a marker or an update *)
(* in flight has a message id.                                             *)
THEOREM TypeCorrect == Spec => []TypeOK
<1>1. Init => TypeOK BY InitType
<1>2. TypeOK /\ [Next]_vars => TypeOK' BY NextType
<1> QED BY <1>1, <1>2, PTL DEF Spec

-----------------------------------------------------------------------------
(* One turn at a time. Inductive: whoever is inside the critical section   *)
(* holds the lock of its chat, and finds no turn in progress between the   *)
(* check and the insertion, because nothing else opens a turn.             *)

LockHeld == \A s \in Streams : pc[s] \in InLock => lock[chat[s]] = s
CheckStillHolds == \A s \in Streams : pc[s] = "inserting" => InProgressOf(chat[s]) = {}

SingleInv == TypeOK /\ LockHeld /\ CheckStillHolds /\ SingleInProgress

(* A row that is in progress after a change was so before, in that chat.   *)
Closes(old, new) ==
  new.state \in {"draft", "pending_finalization"} =>
    old.state \in {"draft", "pending_finalization"} /\ new.chat = old.chat

OpensNothing == \A i \in Ids : Closes(turns[i], turns'[i])

LEMMA TransitionCloses ==
  ASSUME NEW row \in Row, NEW from \in {"draft", "pending_finalization"}, NEW to \in PersistState
  PROVE  Closes(row, Transition(row, from, to))
<1>1. CASE row.state = from
  <2>1. row \in Turn BY <1>1, PresentRow
  <2> QED BY <1>1, <2>1 DEF Transition, Closes, Turn
<1>2. CASE row.state # from BY <1>2 DEF Transition, Closes
<1> QED BY <1>1, <1>2

LEMMA WriteCloses ==
  ASSUME NEW row \in Row, NEW n \in Nat
  PROVE  /\ Closes(row, ToPending(row, n))
         /\ \A new \in ReleaseDraft(row, n) : Closes(row, new)
         /\ Closes(row, SalvageAborted(row, n))
         /\ Closes(row, FlushDraft(row, n))
<1> USE DEF ToPending, ReleaseDraft, SalvageAborted, FlushDraft, Resolved, Transition, Closes
<1>1. CASE row \in Turn BY <1>1 DEF Turn
<1>2. CASE row = NoTurn BY <1>2 DEF NoTurn
<1> QED BY <1>1, <1>2 DEF Row

LEMMA UpdatedRowCloses ==
  ASSUME TypeOK, NEW s \in Streams, NEW u \in Update, NEW row \in Row
  PROVE  \A new \in UpdatedRow(s, u, row) : Closes(row, new)
<1>1. acc[s] \in Nat OBVIOUS
<1>2. CASE u \in {"watch", "abort"}
  BY <1>2, TransitionCloses DEF UpdatedRow, SafeAbortDraft, PersistState
<1>3. CASE u = "release" BY <1>1, <1>3, WriteCloses DEF UpdatedRow
<1>4. CASE u = "salvage" BY <1>1, <1>4, WriteCloses DEF UpdatedRow
<1> QED BY <1>2, <1>3, <1>4 DEF Update

LEMMA OneRowCloses ==
  ASSUME TypeOK, NEW i \in Ids, NEW row, turns' = [turns EXCEPT ![i] = row],
         Closes(turns[i], row)
  PROVE  OpensNothing
BY DEF OpensNothing, Closes

LEMMA SameRowsClose == ASSUME UNCHANGED turns PROVE OpensNothing
BY DEF OpensNothing, Closes

LEMMA KeptOrGoneCloses ==
  ASSUME \A i \in Ids : turns'[i] = turns[i] \/ turns'[i] = NoTurn
  PROVE  OpensNothing
<1> SUFFICES ASSUME NEW i \in Ids PROVE Closes(turns[i], turns'[i]) BY DEF OpensNothing
<1>1. CASE turns'[i] = turns[i] BY <1>1 DEF Closes
<1>2. CASE turns'[i] = NoTurn BY <1>2 DEF Closes, NoTurn
<1> QED BY <1>1, <1>2

LEMMA TurnOpensNothing ==
  ASSUME TypeOK, NEW s \in Streams,
         \/ Prepare(s) \/ Delta(s) \/ ReasoningDelta(s) \/ TouchActivity(s) \/ ChatEnd(s) \/ UpstreamFails(s)
         \/ FinalizeToPending(s) \/ CommitFinal(s) \/ FinalizeFails(s) \/ Epilogue(s)
  PROVE  OpensNothing
<1>0. msg[s] \in Ids /\ turns[msg[s]] \in Row /\ acc[s] \in 0 .. MaxDeltas
  BY DEF Prepare, Delta, ReasoningDelta, TouchActivity, ChatEnd, UpstreamFails, FinalizeToPending,
         CommitFinal, FinalizeFails, Epilogue, Row, Marked, InGroup
<1>1. CASE Delta(s) \/ ReasoningDelta(s) \/ ChatEnd(s)
  <2>1. buf[s] \in Nat /\ buf[s] + 1 \in Nat OBVIOUS
  <2>2. \/ UNCHANGED turns
        \/ \E n \in Nat : turns' = [turns EXCEPT ![msg[s]] = FlushDraft(turns[msg[s]], n)]
    BY <1>1, <2>1 DEF Delta, ReasoningDelta, ChatEnd, Flush, NoFlush
  <2>3. \A n \in Nat : Closes(turns[msg[s]], FlushDraft(turns[msg[s]], n)) BY <1>0, WriteCloses
  <2> QED BY <1>0, <2>2, <2>3, OneRowCloses, SameRowsClose
<1>2. CASE TouchActivity(s)
  <2>1. turns[msg[s]] \in Turn BY <1>0, <1>2, PresentRow DEF TouchActivity
  <2>2. Closes(turns[msg[s]], [turns[msg[s]] EXCEPT !.age = "fresh"])
    BY <1>2, <2>1 DEF TouchActivity, Closes, Turn
  <2>3. turns' = [turns EXCEPT ![msg[s]] = [turns[msg[s]] EXCEPT !.age = "fresh"]]
    BY <1>2 DEF TouchActivity
  <2> QED BY <1>0, <2>2, <2>3, OneRowCloses
<1>3. CASE FinalizeToPending(s)
  <2>1. Closes(turns[msg[s]], ToPending(turns[msg[s]], acc[s])) BY <1>0, WriteCloses
  <2> QED BY <1>0, <1>3, <2>1, OneRowCloses DEF FinalizeToPending
<1>4. CASE CommitFinal(s)
  <2>1. Closes(turns[msg[s]], FinalizePending(turns[msg[s]]))
    BY <1>0, TransitionCloses DEF FinalizePending, PersistState
  <2> QED BY <1>0, <1>4, <2>1, OneRowCloses DEF CommitFinal
<1>5. CASE Prepare(s) \/ UpstreamFails(s) \/ FinalizeFails(s) \/ Epilogue(s)
  BY <1>5, SameRowsClose DEF Prepare, UpstreamFails, FinalizeFails, Epilogue, rowVars
<1> QED BY <1>1, <1>2, <1>3, <1>4, <1>5

LEMMA TeardownOpensNothing ==
  ASSUME TypeOK, NEW s \in Streams,
         \/ WatchDisconnect(s) \/ Cancelled(s) \/ AwaitCancelled(s)
         \/ \E u \in Update : UpdateLands(s, u) \/ UpdateFails(s, u)
  PROVE  OpensNothing
<1>1. ASSUME NEW u \in Update, UpdateLands(s, u) PROVE OpensNothing
  <2>1. msg[s] \in Ids /\ turns[msg[s]] \in Row BY <1>1 DEF UpdateLands, Row
  <2>2. \A row \in UpdatedRow(s, u, turns[msg[s]]) : Closes(turns[msg[s]], row)
    BY <2>1, UpdatedRowCloses
  <2> QED BY <1>1, <2>1, <2>2, OneRowCloses DEF UpdateLands
<1>2. CASE ~\E u \in Update : UpdateLands(s, u)
  BY <1>2, SameRowsClose DEF WatchDisconnect, Cancelled, AwaitCancelled, UpdateFails, rowVars
<1> QED BY <1>1, <1>2

LEMMA ReaperOpensNothing == ASSUME TypeOK, Reaper PROVE OpensNothing
<1>1. CASE RecoverPending
  <2>1. PICK r \in sweep.rows :
          \/ turns' = [turns EXCEPT ![r[1]] = FinalizePending(@)]
          \/ UNCHANGED turns
    BY <1>1 DEF RecoverPending
  <2>2. r[1] \in Ids /\ turns[r[1]] \in Row BY <2>1 DEF Row
  <2>3. Closes(turns[r[1]], FinalizePending(turns[r[1]]))
    BY <2>2, TransitionCloses DEF FinalizePending, PersistState
  <2> QED BY <2>1, <2>2, <2>3, OneRowCloses, SameRowsClose
<1>2. CASE FlipStuck
  <2>1. \A i \in Ids : Closes(turns[i], Transition(turns[i], "draft", "final"))
    BY TransitionCloses DEF PersistState, Row
  <2>2. CASE turns' = [i \in Ids |-> IF i \in SweptIds
                                     THEN Transition(turns[i], "draft", "final") ELSE turns[i]]
    BY <2>1, <2>2 DEF OpensNothing, Closes
  <2>3. CASE UNCHANGED turns BY <2>3, SameRowsClose
  <2> QED BY <1>2, <2>2, <2>3 DEF FlipStuck
<1>3. CASE DeleteOld
  <2>1. \A i \in Ids : turns'[i] = turns[i] \/ turns'[i] = NoTurn BY <1>3 DEF DeleteOld
  <2> QED BY <2>1, KeptOrGoneCloses
<1>4. CASE SelectPending \/ SelectStuck \/ SkipActive \/ SelectOld
  BY <1>4, SameRowsClose DEF SelectPending, SelectStuck, SkipActive, SelectOld
<1> QED BY <1>1, <1>2, <1>3, <1>4 DEF Reaper

LEMMA EnvironmentOpensNothing == ASSUME TypeOK, Environment PROVE OpensNothing
<1>1. ASSUME NEW i \in Ids, GoQuiet(i) \/ GoOld(i) PROVE OpensNothing
  <2>1. turns[i] \in Turn BY <1>1, PresentRow DEF GoQuiet, GoOld, Row
  <2>2. \/ turns' = [turns EXCEPT ![i] = [turns[i] EXCEPT !.age = "quiet"]]
        \/ turns' = [turns EXCEPT ![i] = [turns[i] EXCEPT !.age = "old"]]
    BY <1>1 DEF GoQuiet, GoOld
  <2>3. /\ Closes(turns[i], [turns[i] EXCEPT !.age = "quiet"])
        /\ Closes(turns[i], [turns[i] EXCEPT !.age = "old"])
    BY <2>1 DEF Closes, Turn
  <2> QED BY <2>2, <2>3, OneRowCloses
<1>2. CASE UserDeletes
  <2>1. \A i \in Ids : turns'[i] = turns[i] \/ turns'[i] = NoTurn
    BY <1>2 DEF UserDeletes, DeleteMessage, DeleteOnward, ClearMessages, Remove
  <2> QED BY <2>1, KeptOrGoneCloses
<1>3. CASE Restart BY <1>3, SameRowsClose DEF Restart, rowVars
<1> QED BY <1>1, <1>2, <1>3 DEF Environment, UserDeletes

(* A step that opens no turn and lets nobody into the critical section.    *)
LEMMA QuietStep ==
  ASSUME SingleInv, TypeOK', OpensNothing, UNCHANGED chat,
         \A s \in Streams : pc'[s] \in InLock => pc'[s] = pc[s] /\ lock'[chat[s]] = lock[chat[s]]
  PROVE  SingleInv'
<1>1. \A c \in Chats : InProgressOf(c)' \subseteq InProgressOf(c)
  BY DEF OpensNothing, Closes, InProgressOf, InProgress
<1>2. LockHeld' BY DEF SingleInv, LockHeld
<1>3. CheckStillHolds'
  <2> SUFFICES ASSUME NEW s \in Streams, pc'[s] = "inserting" PROVE InProgressOf(chat[s])' = {}
    BY DEF CheckStillHolds
  <2>1. InProgressOf(chat[s]) = {} BY DEF SingleInv, CheckStillHolds, InLock
  <2> QED BY <1>1, <2>1 DEF SingleInv
<1>4. SingleInProgress' BY <1>1 DEF SingleInv, SingleInProgress
<1> QED BY <1>2, <1>3, <1>4 DEF SingleInv

LEMMA EnterSingle ==
  ASSUME SingleInv, TypeOK', NEW s \in Streams,
         \/ AcquireLock(s) \/ AssertNoInProgressStream(s) \/ CreateDraft(s)
         \/ CancelledEarly(s) \/ CreateDraftFails(s)
  PROVE  SingleInv'
<1> USE DEF SingleInv, rowVars
<1>1. CASE AcquireLock(s)
  <2>1. \A q \in Streams : q # s /\ pc'[q] \in InLock =>
          pc'[q] = pc[q] /\ chat[q] # chat[s]
    BY <1>1, NoStreamAssumption DEF AcquireLock, Goto, LockHeld
  <2>2. LockHeld' BY <1>1, <2>1 DEF AcquireLock, LockHeld
  <2>3. CheckStillHolds' /\ SingleInProgress'
    BY <1>1, <2>1 DEF AcquireLock, Goto, CheckStillHolds, SingleInProgress, InProgressOf,
                      InProgress, InLock
  <2> QED BY <2>2, <2>3
<1>2. CASE pc[s] \in InLock
  <2>1. \A q \in Streams : q # s /\ pc[q] \in InLock => chat[q] # chat[s]
    BY <1>2 DEF LockHeld
  <2>2. CASE AssertNoInProgressStream(s)
    <3>1. LockHeld' BY <2>1, <2>2 DEF AssertNoInProgressStream, Goto, Release, LockHeld, InLock
    <3>2. UNCHANGED chat /\ \A c \in Chats : InProgressOf(c)' = InProgressOf(c)
      BY <2>2 DEF AssertNoInProgressStream, InProgressOf, InProgress
    <3>3. \A q \in Streams : pc'[q] = "inserting" =>
            pc[q] = "inserting" \/ InProgressOf(chat[q]) = {}
      BY <2>2 DEF AssertNoInProgressStream, Goto
    <3>4. CheckStillHolds'
      <4> SUFFICES ASSUME NEW q \in Streams, pc'[q] = "inserting"
                   PROVE  InProgressOf(chat[q])' = {}
        BY <3>2 DEF CheckStillHolds
      <4>1. InProgressOf(chat[q]) = {} BY <3>3 DEF CheckStillHolds
      <4> QED BY <3>2, <4>1
    <3>5. SingleInProgress' BY <3>2 DEF SingleInProgress
    <3> QED BY <3>1, <3>4, <3>5
  <2>3. ASSUME Goto(s, "preparing") \/ Goto(s, "done"), Release(chat[s]), UNCHANGED chat,
               UNCHANGED rowVars \/ (pc[s] = "inserting" /\ InsertTurn(s))
        PROVE  SingleInv'
    <3>1. pc'[s] \notin InLock /\ \A q \in Streams : q # s => pc'[q] = pc[q]
      BY <2>3 DEF Goto, InLock
    <3>2. \A q \in Streams : pc'[q] \in InLock =>
            /\ q # s /\ pc'[q] = pc[q] /\ chat[q] # chat[s]
            /\ lock'[chat[q]] = lock[chat[q]]
      BY <2>1, <2>3, <3>1 DEF Release
    <3>3. CASE UNCHANGED rowVars
      <4>1. OpensNothing BY <3>3, SameRowsClose
      <4> QED BY <2>3, <3>2, <4>1, QuietStep
    <3>4. CASE pc[s] = "inserting" /\ InsertTurn(s)
      <4>1. NextId \in Ids /\ InProgressOf(chat[s]) = {}
        BY <3>4 DEF InsertTurn, CheckStillHolds
      <4>2. /\ turns'[NextId].chat = chat[s]
            /\ \A i \in Ids : i # NextId => turns'[i] = turns[i]
        BY <3>4, <4>1 DEF InsertTurn
      <4>3. /\ InProgressOf(chat[s])' \subseteq {NextId}
            /\ \A c \in Chats : c # chat[s] => InProgressOf(c)' \subseteq InProgressOf(c)
        BY <2>3, <4>1, <4>2 DEF InProgressOf, InProgress
      <4>4. LockHeld' BY <2>3, <3>2 DEF LockHeld
      <4>5. CheckStillHolds'
        <5> SUFFICES ASSUME NEW q \in Streams, pc'[q] = "inserting"
                     PROVE  InProgressOf(chat[q])' = {}
          BY <2>3 DEF CheckStillHolds
        <5>1. pc[q] = "inserting" /\ chat[q] # chat[s] BY <3>2 DEF InLock
        <5>2. InProgressOf(chat[q]) = {} BY <5>1 DEF CheckStillHolds
        <5>3. InProgressOf(chat[q])' \subseteq InProgressOf(chat[q])
          BY <2>3, <4>3, <5>1
        <5> QED BY <5>2, <5>3
      <4>6. SingleInProgress'
        <5> SUFFICES ASSUME NEW c \in Chats, NEW i \in InProgressOf(c)', NEW j \in InProgressOf(c)'
                     PROVE  i = j
          BY DEF SingleInProgress
        <5>1. CASE c = chat[s] BY <2>3, <4>3, <5>1
        <5>2. CASE c # chat[s] BY <4>3, <5>2 DEF SingleInProgress
        <5> QED BY <5>1, <5>2
      <4> QED BY <4>4, <4>5, <4>6
    <3> QED BY <2>3, <3>3, <3>4
  <2>4. CASE CreateDraft(s) BY <2>3, <2>4 DEF CreateDraft
  <2>5. CASE CancelledEarly(s)
    BY <1>2, <2>3, <2>5 DEF CancelledEarly, InLock
  <2>6. CASE CreateDraftFails(s) BY <2>3, <2>6 DEF CreateDraftFails
  <2> QED BY <1>2, <2>2, <2>4, <2>5, <2>6 DEF AcquireLock, InLock
<1>3. CASE CancelledEarly(s) /\ pc[s] = "waiting"
  <2>1. OpensNothing BY <1>3, SameRowsClose DEF CancelledEarly
  <2>2. \A q \in Streams : pc'[q] \in InLock => pc'[q] = pc[q] /\ lock'[chat[q]] = lock[chat[q]]
    BY <1>3 DEF CancelledEarly, Goto, InLock
  <2> QED BY <1>3, <2>1, <2>2, QuietStep DEF CancelledEarly
<1> QED BY <1>1, <1>2, <1>3
        DEF AssertNoInProgressStream, CreateDraft, CancelledEarly, CreateDraftFails, InLock

(* Streams past the lock, and everyone else, open nothing and stay out of  *)
(* the critical section.                                                   *)
LEMMA PastLock ==
  ASSUME TypeOK, NEW s \in Streams,
         \/ Prepare(s) \/ Delta(s) \/ ReasoningDelta(s) \/ TouchActivity(s) \/ ChatEnd(s) \/ UpstreamFails(s)
         \/ FinalizeToPending(s) \/ CommitFinal(s) \/ FinalizeFails(s) \/ Epilogue(s)
         \/ WatchDisconnect(s) \/ Cancelled(s) \/ AwaitCancelled(s)
         \/ \E u \in Update : UpdateLands(s, u) \/ UpdateFails(s, u)
  PROVE  /\ UNCHANGED <<chat, lock>>
         /\ \A q \in Streams : pc'[q] \in InLock => pc'[q] = pc[q]
<1>1. UNCHANGED <<chat, lock>>
  BY DEF Prepare, Delta, ReasoningDelta, TouchActivity, ChatEnd, UpstreamFails, FinalizeToPending, CommitFinal,
         FinalizeFails, Epilogue, WatchDisconnect, Cancelled, AwaitCancelled, UpdateLands,
         UpdateFails, streamVars
<1>2. \/ UNCHANGED pc
      \/ \E to \in {"generating", "finalizing", "committing", "epilogue", "releasing",
                     "salvaging", "done"} : Goto(s, to)
  <2>1. CASE \/ Prepare(s) \/ Delta(s) \/ ReasoningDelta(s) \/ TouchActivity(s) \/ ChatEnd(s) \/ UpstreamFails(s)
             \/ FinalizeToPending(s) \/ CommitFinal(s) \/ FinalizeFails(s) \/ Epilogue(s)
    BY <2>1 DEF Prepare, Delta, ReasoningDelta, TouchActivity, ChatEnd, UpstreamFails, FinalizeToPending,
                CommitFinal, FinalizeFails, Epilogue, BeginTeardown, streamVars
  <2>2. CASE WatchDisconnect(s) \/ Cancelled(s) \/ AwaitCancelled(s)
    BY <2>2 DEF WatchDisconnect, Cancelled, AwaitCancelled, BeginTeardown, Proceed
  <2>3. CASE \E u \in Update : UpdateLands(s, u) \/ UpdateFails(s, u)
    BY <2>3 DEF UpdateLands, UpdateFails, BeginTeardown, Proceed
  <2> QED BY <2>1, <2>2, <2>3
<1>3. \A q \in Streams : pc'[q] \in InLock => pc'[q] = pc[q]
  BY <1>2 DEF Goto, InLock
<1> QED BY <1>1, <1>3

LEMMA NextSingle == SingleInv /\ [Next]_vars => SingleInv'
<1> SUFFICES ASSUME SingleInv, [Next]_vars PROVE SingleInv' OBVIOUS
<1>0. TypeOK /\ TypeOK' BY NextType DEF SingleInv
<1>1. ASSUME NEW s \in Streams, StreamStep(s) \/ StreamEvent(s) PROVE SingleInv'
  <2>1. CASE \/ AcquireLock(s) \/ AssertNoInProgressStream(s) \/ CreateDraft(s)
             \/ CancelledEarly(s) \/ CreateDraftFails(s)
    BY <1>0, <2>1, EnterSingle
  <2>2. CASE ~(\/ AcquireLock(s) \/ AssertNoInProgressStream(s) \/ CreateDraft(s)
               \/ CancelledEarly(s) \/ CreateDraftFails(s))
    <3>1. OpensNothing
      BY <1>0, <1>1, <2>2, TurnOpensNothing, TeardownOpensNothing DEF StreamStep, StreamEvent
    <3>2. /\ UNCHANGED <<chat, lock>>
          /\ \A q \in Streams : pc'[q] \in InLock => pc'[q] = pc[q]
      BY <1>0, <1>1, <2>2, PastLock DEF StreamStep, StreamEvent
    <3> QED BY <1>0, <3>1, <3>2, QuietStep
  <2> QED BY <2>1, <2>2
<1>2. CASE Reaper
  <2>1. UNCHANGED <<chat, lock, pc>>
    BY <1>2 DEF Reaper, SelectPending, RecoverPending, SelectStuck, SkipActive, FlipStuck,
                SelectOld, DeleteOld, ReaperOnly, streamVars
  <2> QED BY <1>0, <1>2, <2>1, ReaperOpensNothing, QuietStep
<1>3. CASE Environment
  <2>1. UNCHANGED chat /\ (Restart \/ UNCHANGED <<lock, pc>>)
    BY <1>3 DEF Environment, GoQuiet, GoOld, DeleteMessage, DeleteOnward, ClearMessages, Deletion,
                Restart, streamVars
  <2>2. \A q \in Streams : pc'[q] \in InLock => pc'[q] = pc[q] /\ lock'[chat[q]] = lock[chat[q]]
    BY <1>0, <2>1 DEF Restart, InLock
  <2> QED BY <1>0, <1>3, <2>1, <2>2, EnvironmentOpensNothing, QuietStep
<1>4. CASE UNCHANGED vars
  <2>1. OpensNothing BY <1>4, SameRowsClose DEF vars
  <2> QED BY <1>0, <1>4, <2>1, QuietStep DEF vars
<1> QED BY <1>1, <1>2, <1>3, <1>4 DEF Next

LEMMA SingleInvHolds == Spec => []SingleInv
<1>1. Init => SingleInv
  BY InitType DEF Init, SingleInv, LockHeld, CheckStillHolds, SingleInProgress, InProgressOf,
                  InProgress, NoTurn, InLock
<1>2. SingleInv /\ [Next]_vars => SingleInv' BY NextSingle
<1> QED BY <1>1, <1>2, PTL DEF Spec

(* A chat never has two turns in progress: the lock and                    *)
(* _assert_no_in_progress_stream keep the promise of the 409 answer, for   *)
(* any number of concurrent requests, cancellations and restarts.          *)
THEOREM OneTurnAtATime == Spec => []SingleInProgress
<1>1. SingleInv => SingleInProgress BY DEF SingleInv
<1> QED BY <1>1, SingleInvHolds, PTL

=============================================================================
