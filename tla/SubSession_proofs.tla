-------------------------- MODULE SubSession_proofs --------------------------
(* What holds of SubSession for every number of sessions, streams, faults   *)
(* and restarts.                                                            *)
EXTENDS SubSession, TLAPS, FiniteSetTheorems

Row == Turn \cup {NoTurn}

-----------------------------------------------------------------------------
(* How a row may change once it is there: a draft goes anywhere, a pending *)
(* turn becomes final, no other state is ever left.                        *)

Follows(old, new) ==
  \/ new = old
  \/ /\ old \in Turn /\ new \in Turn
     /\ \/ new.state = old.state
        \/ old.state = "draft"
        \/ old.state = "pending_finalization" /\ new.state = "final"

LEMMA PresentRow ==
  ASSUME NEW row \in Row
  PROVE  /\ NoTurn \notin Turn
         /\ row # NoTurn <=> row \in Turn
         /\ row.state = "absent" <=> row = NoTurn
BY DEF Row, NoTurn, Turn, PersistState

LEMMA WritesFollow ==
  ASSUME NEW row \in Row, NEW n \in Nat
  PROVE  /\ Follows(row, FlushDraft(row, n))
         /\ Follows(row, ToPending(row, n))
         /\ \A new \in ReleaseDraft(row, n) : Follows(row, new)
         /\ Follows(row, SalvageAborted(row, n))
         /\ Follows(row, FinalizePending(row))
         /\ Follows(row, SafeAbortDraft(row))
         /\ Follows(row, Transition(row, "draft", "final"))
<1> USE DEF FlushDraft, ToPending, ReleaseDraft, SalvageAborted, FinalizePending,
            SafeAbortDraft, Follows
<1>1. CASE row \in Turn
  <2>0. row.text \in Nat /\ row.state \in PersistState BY <1>1 DEF Turn
  <2>1. ASSUME NEW to \in PersistState
        PROVE  Resolved(row, to, n) \in Turn /\ Resolved(row, to, n).state = to
    BY <1>1, <2>1 DEF Resolved, Turn, ContentForm
  <2>2. ASSUME NEW from \in PersistState, NEW to \in PersistState
        PROVE  /\ Transition(row, from, to) \in Turn
               /\ \/ row.state = from /\ Transition(row, from, to).state = to
                  \/ Transition(row, from, to) = row
    BY <1>1, <2>2 DEF Transition, Turn
  <2>3. row.text + n \in Nat BY <2>0
  <2>4. FlushDraft(row, n) \in Turn /\ FlushDraft(row, n).state = row.state
    BY <1>1, <2>3 DEF Turn
  <2>5. SalvageAborted(row, n) \in Turn /\ SalvageAborted(row, n).state = row.state
    BY <1>1 DEF Turn, ContentForm
  <2> HIDE DEF FlushDraft, SalvageAborted
  <2> QED BY <1>1, <2>1, <2>2, <2>4, <2>5 DEF PersistState
<1> USE DEF Resolved, Transition
<1>2. CASE row = NoTurn BY <1>2 DEF NoTurn
<1> QED BY <1>1, <1>2 DEF Row

(* Every row follows from the one before it.                               *)
RowsFollow ==
  /\ rows' \in [Streams -> Row]
  /\ \A s \in Streams : Follows(rows[s], rows'[s])

(* And only one of them changed.                                           *)
RowFollows(s) == RowsFollow /\ \A q \in Streams : q # s => rows'[q] = rows[q]

LEMMA SetRowFollows ==
  ASSUME TypeOK, NEW s \in Streams, NEW row, SetRow(s, row), Follows(rows[s], row)
  PROVE  RowFollows(s)
BY DEF TypeOK, SetRow, Follows, RowsFollow, RowFollows, Row

LEMMA SameRowsFollow == ASSUME TypeOK, UNCHANGED rows, NEW s PROVE RowFollows(s)
BY DEF TypeOK, RowFollows, RowsFollow, Follows, Row

-----------------------------------------------------------------------------
(* The steps of a stream, and what they write.                             *)

Entering(s) ==
  \/ AcquireLock(s) \/ AssertNoSubSessionStreamInProgress(s) \/ CreateOrAppend(s)
  \/ CancelledEarly(s) \/ CreateFails(s)
Working(s) ==
  \/ Delta(s) \/ FlushDelta(s) \/ MirrorDelta(s) \/ ReasoningDelta(s) \/ TouchActivity(s)
  \/ YieldComplete(s) \/ UpstreamFails(s) \/ OnSuccess(s) \/ FinalizeToPending(s) \/ CommitFinal(s)
  \/ FinalizeFails(s) \/ SettleStatus(s)
Ending(s) ==
  \/ WatchDisconnect(s) \/ Cancelled(s) \/ AwaitCancelled(s)
  \/ \E u \in Update : UpdateLands(s, u) \/ UpdateFails(s, u)

LEMMA StepKinds ==
  ASSUME NEW s \in Streams, StreamStep(s) \/ StreamEvent(s)
  PROVE  Entering(s) \/ Working(s) \/ Ending(s)
BY DEF StreamStep, StreamEvent, Entering, Working, Ending

USE DEF TypeOK

LEMMA WorkRows == ASSUME TypeOK, NEW s \in Streams, Working(s) PROVE RowFollows(s)
<1>0. rows[s] \in Row /\ acc[s] \in Nat /\ buf[s] \in Nat BY DEF Row
<1>1. ASSUME NEW n \in Nat, Flush(s, n) PROVE RowFollows(s)
  BY <1>0, <1>1, WritesFollow, SetRowFollows DEF Flush
<1>2. CASE TouchActivity(s)
  <2>1. rows[s] \in Turn BY <1>0, <1>2, PresentRow DEF TouchActivity
  <2>2. Follows(rows[s], [rows[s] EXCEPT !.age = "fresh"])
    BY <2>1 DEF Follows, Turn
  <2> QED BY <1>2, <2>2, SetRowFollows DEF TouchActivity
<1>3. CASE FlushDelta(s) \/ ReasoningDelta(s) \/ OnSuccess(s)
  <2>1. (\E n \in Nat : Flush(s, n)) \/ UNCHANGED rows
    <3>1. buf[s] + 1 \in Nat BY <1>0
    <3> QED BY <1>0, <1>3, <3>1 DEF FlushDelta, NoFlush, ReasoningDelta, OnSuccess
  <2> QED BY <1>1, <2>1, SameRowsFollow
<1>4. CASE FinalizeToPending(s)
  BY <1>0, <1>4, WritesFollow, SetRowFollows DEF FinalizeToPending
<1>5. CASE CommitFinal(s)
  BY <1>0, <1>5, WritesFollow, SetRowFollows DEF CommitFinal
<1>6. CASE UNCHANGED rows BY <1>6, SameRowsFollow
<1> QED
  BY <1>2, <1>3, <1>4, <1>5, <1>6
  DEF Working, Delta, NoFlush, MirrorDelta, YieldComplete, UpstreamFails, FinalizeFails,
      SettleStatus, tableVars

LEMMA EndRows == ASSUME TypeOK, NEW s \in Streams, Ending(s) PROVE RowFollows(s)
<1>1. ASSUME NEW u \in Update, UpdateLands(s, u) PROVE RowFollows(s)
  <2>1. rows[s] \in Row /\ acc[s] \in Nat BY DEF Row
  <2>2. PICK row \in UpdatedRow(s, u) : SetRow(s, row) BY <1>1 DEF UpdateLands
  <2>3. Follows(rows[s], row)
    BY <2>1, <2>2, WritesFollow DEF UpdatedRow, Update, Follows
  <2> QED BY <2>2, <2>3, SetRowFollows
<1>2. CASE UNCHANGED rows BY <1>2, SameRowsFollow
<1> QED
  BY <1>1, <1>2
  DEF Ending, WatchDisconnect, Cancelled, AwaitCancelled, UpdateFails, tableVars

(* The first insertion of a stream. Nothing else puts a row where none was.*)
Inserts(s) ==
  /\ pc[s] = "inserting"
  /\ rows' = [rows EXCEPT ![s] = [state |-> "draft", text |-> 0, form |-> "raw", age |-> "fresh"]]

LEMMA EnterRows ==
  ASSUME TypeOK, NEW s \in Streams, Entering(s)
  PROVE  UNCHANGED rows \/ Inserts(s)
BY DEF Entering, AcquireLock, AssertNoSubSessionStreamInProgress, CreateOrAppend,
       CancelledEarly, CreateFails, InsertTurn, SetRow, Inserts, tableVars

Flips ==
  rows' = [s \in Streams |-> IF s \in sweep.turns
                             THEN Transition(rows[s], "draft", "final") ELSE rows[s]]

LEMMA ReaperRows ==
  ASSUME TypeOK, Reaper
  PROVE  /\ \/ Flips
            \/ \E s \in Streams : RowFollows(s)
            \/ UNCHANGED rows
         /\ RowsFollow
<1>1. CASE RecoverPending
  <2>1. PICK s \in Streams : SetRow(s, FinalizePending(rows[s])) \/ UNCHANGED rows
    BY <1>1 DEF RecoverPending
  <2>2. rows[s] \in Row BY DEF Row
  <2>3. Follows(rows[s], FinalizePending(rows[s])) BY <2>2, BoundsAssumption, WritesFollow
  <2> QED BY <2>1, <2>3, SetRowFollows, SameRowsFollow DEF RowFollows
<1>2. CASE FlipStuck /\ Flips
  <2>1. ASSUME NEW s \in Streams
        PROVE  /\ Follows(rows[s], Transition(rows[s], "draft", "final"))
               /\ Transition(rows[s], "draft", "final") \in Row
    <3>1. rows[s] \in Row BY DEF Row
    <3>2. Follows(rows[s], Transition(rows[s], "draft", "final"))
      BY <3>1, BoundsAssumption, WritesFollow
    <3> QED BY <3>1, <3>2 DEF Follows, Row
  <2>2. rows' \in [Streams -> Row] BY <1>2, <2>1 DEF Flips, Row
  <2>3. \A s \in Streams : Follows(rows[s], rows'[s]) BY <1>2, <2>1 DEF Flips, Follows
  <2> QED BY <1>2, <2>2, <2>3 DEF RowsFollow
<1>3. CASE UNCHANGED rows BY <1>3 DEF RowsFollow, Follows, Row
<1> QED
  BY <1>1, <1>2, <1>3
  DEF Reaper, SelectPending, SelectStuck, SkipActive, FlipStuck, Flips, LabelAborted, EndTick

LEMMA QuietRows == ASSUME TypeOK, NEW s \in Streams, GoQuiet(s) PROVE RowFollows(s)
<1>1. rows[s] \in Turn
  <2>1. rows[s] \in Row BY DEF Row
  <2> QED BY <2>1, PresentRow DEF GoQuiet
<1>2. Follows(rows[s], [rows[s] EXCEPT !.age = "quiet"]) BY <1>1 DEF Follows, Turn
<1> QED BY <1>2, SetRowFollows DEF GoQuiet

-----------------------------------------------------------------------------
(* Where the streams are: a step concerns its stream alone, and a stream   *)
(* that becomes marked, or starts an update, has a turn to address.        *)

Kept(q) ==
  /\ pc'[q] = pc[q] /\ acc'[q] = acc[q] /\ inflight'[q] = inflight[q]
  /\ delivered'[q] = delivered[q] /\ graceful'[q] = graceful[q]

OthersKept(s) == UNCHANGED session /\ \A q \in Streams : q # s => Kept(q)

LEMMA ProceedKeeps ==
  ASSUME TypeOK, NEW s \in Streams, pc[s] \in Teardown, NEW left, Proceed(s, left)
  PROVE  \A q \in Streams : q # s => pc'[q] = pc[q] /\ inflight'[q] = inflight[q]
BY DEF Proceed, Goto, Teardown

LEMMA AwaitedInTeardown ==
  ASSUME NEW s \in Streams, NEW u \in Awaited(s)
  PROVE  pc[s] \in Teardown /\ u \in {"release", "salvage", "status"}
BY DEF Awaited, Teardown

LEMMA StepKeepsOthers ==
  ASSUME TypeOK, NEW s \in Streams, Entering(s) \/ Working(s) \/ Ending(s)
  PROVE  OthersKept(s)
<1> USE DEF OthersKept, Kept, Goto, streamVars
<1>1. CASE Entering(s)
  BY <1>1 DEF Entering, AcquireLock, AssertNoSubSessionStreamInProgress, CreateOrAppend,
              CancelledEarly, CreateFails
<1>2. CASE Working(s)
  BY <1>2 DEF Working, Delta, FlushDelta, MirrorDelta, ReasoningDelta, TouchActivity, YieldComplete,
              UpstreamFails, OnSuccess, FinalizeToPending, CommitFinal, FinalizeFails,
              SettleStatus, BeginTeardown
<1>3. CASE Ending(s)
  <2>1. CASE WatchDisconnect(s) \/ Cancelled(s) \/ AwaitCancelled(s)
    BY <2>1, ProceedKeeps DEF WatchDisconnect, Cancelled, AwaitCancelled, BeginTeardown
  <2>2. ASSUME NEW u \in Update, UpdateLands(s, u) PROVE OthersKept(s)
    BY <2>2, ProceedKeeps, AwaitedInTeardown DEF UpdateLands
  <2>3. ASSUME NEW u \in Update, UpdateFails(s, u) PROVE OthersKept(s)
    BY <2>3, ProceedKeeps, AwaitedInTeardown DEF UpdateFails, BeginTeardown
  <2> QED BY <1>3, <2>1, <2>2, <2>3 DEF Ending
<1> QED BY <1>1, <1>2, <1>3

(* The stream's own control state after the step.                          *)
ControlOf(s) ==
  /\ pc' \in [Streams -> Location] /\ pc'[s] # "mirroring"
  /\ inflight' \in [Streams -> SUBSET Update]
  /\ refs' \in Nat

LEMMA BeginTeardownControl ==
  ASSUME TypeOK, NEW s \in Streams, NEW left \in SUBSET Update, BeginTeardown(s, left),
         UNCHANGED refs
  PROVE  ControlOf(s)
<1>1. left \cup {"release"} \in SUBSET Update BY DEF Update
<1> QED BY <1>1 DEF BeginTeardown, ControlOf, Goto, Location, Marked, Teardown

LEMMA ProceedControl ==
  ASSUME TypeOK, NEW s \in Streams, NEW left \in SUBSET Update, pc[s] \in Teardown,
         Proceed(s, left)
  PROVE  ControlOf(s)
<1>1. left \cup {"salvage"} \in SUBSET Update /\ left \cup {"status"} \in SUBSET Update
  BY DEF Update
<1>2. (IF refs <= 1 THEN 0 ELSE refs - 1) \in Nat OBVIOUS
<1>3. CASE pc[s] = "releasing"
  BY <1>1, <1>3 DEF Proceed, ControlOf, Goto, Location, Marked, Teardown
<1>4. CASE pc[s] = "salvaging"
  BY <1>1, <1>4 DEF Proceed, ControlOf, Goto, Location, Marked, Teardown
<1>5. CASE pc[s] = "labelling"
  BY <1>2, <1>5 DEF Proceed, ControlOf, Goto, Location, MarkInactive
<1> QED BY <1>3, <1>4, <1>5 DEF Teardown

LEMMA TransitionStatusType ==
  ASSUME TypeOK, NEW x \in Sessions, NEW to \in Status, TransitionStatus(x, to)
  PROVE  status' \in [Sessions -> Status]
BY DEF TransitionStatus

LEMMA FaultType == ASSUME TypeOK, Fault PROVE faults' \in 0 .. MaxFaults /\ UNCHANGED crashes
BY BoundsAssumption DEF Fault

LEMMA InitType == Init => TypeOK
BY BoundsAssumption DEF Init, Status, Location, InLock, Marked, InGroup, Teardown

LEMMA EnterType == ASSUME TypeOK, NEW s \in Streams, Entering(s) PROVE TypeOK'
<1> USE DEF tableVars, budgetVars, Goto, Location, InLock
<1>1. CASE AcquireLock(s) BY <1>1 DEF AcquireLock, Marked, InGroup, Teardown
<1>2. CASE AssertNoSubSessionStreamInProgress(s)
  BY <1>2 DEF AssertNoSubSessionStreamInProgress, Marked, InGroup, Teardown
<1>3. ASSUME InsertTurn(s)
      PROVE  /\ rows' \in [Streams -> Turn \cup {NoTurn}]
             /\ status' \in [Sessions -> Status]
             /\ \A q \in Streams : rows[q] # NoTurn \/ q = s => rows'[q] # NoTurn
  <2>1. [state |-> "draft", text |-> 0, form |-> "raw", age |-> "fresh"] \in Turn
    BY DEF Turn, PersistState, ContentForm
  <2>2. [state |-> "draft", text |-> 0, form |-> "raw", age |-> "fresh"] # NoTurn BY <2>1, PresentRow DEF Row
  <2> QED BY <1>3, <2>1, <2>2 DEF InsertTurn, SetRow, Status
<1>4. CASE CreateOrAppend(s)
  <2>1. lock' \in Streams \cup {NoStream} /\ refs' \in Nat /\ pc' \in [Streams -> Location]
    BY <1>4 DEF CreateOrAppend, MarkActive, Marked, InGroup
  <2>2. \A q \in Streams : q # s => pc'[q] = pc[q] BY <1>4 DEF CreateOrAppend
  <2>3. pc'[s] = "generating" BY <1>4 DEF CreateOrAppend
  <2> QED BY <1>3, <1>4, <2>1, <2>2, <2>3 DEF CreateOrAppend
<1>5. CASE CancelledEarly(s)
  <2>1. lock' \in Streams \cup {NoStream} /\ pc' \in [Streams -> Location] /\ pc'[s] = "done"
        /\ \A q \in Streams : q # s => pc'[q] = pc[q]
    BY <1>5 DEF CancelledEarly
  <2>2. /\ rows' \in [Streams -> Turn \cup {NoTurn}]
        /\ status' \in [Sessions -> Status]
        /\ \A q \in Streams : rows[q] # NoTurn => rows'[q] # NoTurn
    BY <1>3, <1>5 DEF CancelledEarly
  <2>3. "done" \notin Marked BY DEF Marked, InGroup, Teardown
  <2> QED BY <1>5, <2>1, <2>2, <2>3 DEF CancelledEarly
<1>6. CASE CreateFails(s)
  BY <1>6, BoundsAssumption DEF CreateFails, Fault, Marked, InGroup, Teardown
<1> QED BY <1>1, <1>2, <1>4, <1>5, <1>6 DEF Entering

(* What a stream with a turn keeps: its row stays a row, so the others and *)
(* the stream itself go on having one.                                     *)
LEMMA TurnsStay ==
  ASSUME TypeOK, NEW s \in Streams, RowFollows(s), OthersKept(s), rows[s] # NoTurn,
         pc'[s] = "mirroring" => acc'[s] < MaxDeltas
  PROVE  /\ rows' \in [Streams -> Turn \cup {NoTurn}]
         /\ \A q \in Streams :
              /\ pc'[q] \in Marked \/ inflight'[q] # {} => rows'[q] # NoTurn
              /\ pc'[q] = "mirroring" => acc'[q] < MaxDeltas
<1>1. rows' \in [Streams -> Turn \cup {NoTurn}] BY DEF RowFollows, RowsFollow, Row
<1>2. rows'[s] # NoTurn
  BY PresentRow DEF RowFollows, RowsFollow, Follows, Row
<1>3. ASSUME NEW q \in Streams, q # s
      PROVE  rows'[q] = rows[q] /\ Kept(q)
  BY <1>3 DEF OthersKept, RowFollows
<1> QED BY <1>1, <1>2, <1>3 DEF Kept

LEMMA WorkType == ASSUME TypeOK, NEW s \in Streams, Working(s) PROVE TypeOK'
<1> USE DEF tableVars, budgetVars, streamVars
<1>0. /\ rows[s] # NoTurn /\ acc[s] \in 0 .. MaxDeltas
      /\ inflight[s] \in SUBSET Update /\ session[s] \in Sessions
  BY DEF Working, Delta, FlushDelta, MirrorDelta, ReasoningDelta, TouchActivity, YieldComplete, UpstreamFails,
         OnSuccess, FinalizeToPending, CommitFinal, FinalizeFails, SettleStatus, Marked,
         InGroup, NoTurn
<1>1. RowFollows(s) /\ OthersKept(s) BY WorkRows, StepKeepsOthers
<1>2. /\ pc' \in [Streams -> Location] /\ inflight' \in [Streams -> SUBSET Update]
      /\ refs' \in Nat
  <2>1. CASE BeginTeardown(s, inflight[s]) /\ UNCHANGED refs
    BY <1>0, <2>1, BeginTeardownControl DEF ControlOf
  <2>2. CASE ~(BeginTeardown(s, inflight[s]) /\ UNCHANGED refs)
    BY <2>2 DEF Working, Delta, FlushDelta, MirrorDelta, ReasoningDelta, TouchActivity, YieldComplete,
       UpstreamFails, OnSuccess, FinalizeToPending, CommitFinal, FinalizeFails, SettleStatus,
       Goto, Location, Marked, InGroup
  <2> QED BY <2>1, <2>2
<1>3. acc' \in [Streams -> 0 .. MaxDeltas] /\ (pc'[s] = "mirroring" => acc'[s] < MaxDeltas)
  <2>1. CASE Delta(s) \/ MirrorDelta(s)
    <3>1. acc[s] < MaxDeltas BY <2>1 DEF Delta, MirrorDelta
    <3>2. acc[s] + 1 \in 0 .. MaxDeltas BY <1>0, <3>1, BoundsAssumption
    <3>3. acc' = [acc EXCEPT ![s] = acc[s] + 1] /\ pc'[s] = "generating"
      BY <2>1 DEF Delta, MirrorDelta, Goto
    <3> QED BY <3>2, <3>3
  <2>2. CASE FlushDelta(s) BY <2>2 DEF FlushDelta
  <2>3. CASE ~(Delta(s) \/ MirrorDelta(s) \/ FlushDelta(s))
    BY <2>3 DEF Working, ReasoningDelta, TouchActivity, YieldComplete, UpstreamFails, OnSuccess,
       FinalizeToPending, CommitFinal, FinalizeFails, SettleStatus, BeginTeardown, Goto
  <2> QED BY <2>1, <2>2, <2>3
<1>4. delivered' \in [Streams -> BOOLEAN] /\ graceful' \in [Streams -> BOOLEAN]
  BY DEF Working, Delta, FlushDelta, MirrorDelta, ReasoningDelta, TouchActivity, YieldComplete, UpstreamFails,
     OnSuccess, FinalizeToPending, CommitFinal, FinalizeFails, SettleStatus
<1>8. buf' \in [Streams -> Nat]
  <2>1. buf[s] \in Nat /\ buf[s] + 1 \in Nat OBVIOUS
  <2> QED
    BY <2>1
    DEF Working, Delta, FlushDelta, Flush, NoFlush, DropBuffer, MirrorDelta, ReasoningDelta,
        TouchActivity, YieldComplete, UpstreamFails, OnSuccess, FinalizeToPending, CommitFinal,
        FinalizeFails, SettleStatus
<1>6. UNCHANGED <<lock, session, sweep, crashes>> /\ faults' \in 0 .. MaxFaults
  BY FaultType
  DEF Working, Delta, FlushDelta, MirrorDelta, ReasoningDelta, TouchActivity, YieldComplete, UpstreamFails,
      OnSuccess, FinalizeToPending, CommitFinal, FinalizeFails, SettleStatus
<1>7. status' \in [Sessions -> Status]
  BY <1>0, TransitionStatusType
  DEF Working, Delta, FlushDelta, MirrorDelta, ReasoningDelta, TouchActivity, YieldComplete, UpstreamFails,
      OnSuccess, FinalizeToPending, CommitFinal, FinalizeFails, SettleStatus, Status
<1>5. /\ rows' \in [Streams -> Turn \cup {NoTurn}]
      /\ \A q \in Streams :
           /\ pc'[q] \in Marked \/ inflight'[q] # {} => rows'[q] # NoTurn
           /\ pc'[q] = "mirroring" => acc'[q] < MaxDeltas
  BY <1>0, <1>1, <1>3, TurnsStay
<1> QED BY <1>2, <1>3, <1>4, <1>5, <1>6, <1>7, <1>8

LEMMA EndType == ASSUME TypeOK, NEW s \in Streams, Ending(s) PROVE TypeOK'
<1> USE DEF tableVars, budgetVars
<1>0. /\ rows[s] # NoTurn /\ inflight[s] \in SUBSET Update /\ session[s] \in Sessions
      /\ "watch" \in Update
  BY DEF Ending, WatchDisconnect, Cancelled, AwaitCancelled, UpdateLands, UpdateFails, Marked,
         Update
<1>1. RowFollows(s) /\ OthersKept(s) BY EndRows, StepKeepsOthers
<1> DEFINE Located ==
      /\ pc' \in [Streams -> Location] /\ inflight' \in [Streams -> SUBSET Update]
      /\ refs' \in Nat
      /\ pc'[s] = "mirroring" => pc[s] = "mirroring"
<1>3. Located
  <2>1. CASE WatchDisconnect(s)
    <3>1. inflight[s] \cup {"watch"} \in SUBSET Update BY <1>0
    <3> QED BY <2>1, <3>1 DEF WatchDisconnect
  <2>2. CASE Cancelled(s) BY <1>0, <2>2, BeginTeardownControl DEF Cancelled, ControlOf
  <2>3. CASE AwaitCancelled(s) BY <1>0, <2>3, ProceedControl DEF AwaitCancelled, ControlOf
  <2>4. ASSUME NEW u \in Update, UpdateLands(s, u) \/ UpdateFails(s, u)
        PROVE  Located
    <3>0. inflight[s] \ {u} \in SUBSET Update BY <1>0
    <3>1. CASE u \in Awaited(s)
      <4>1. Proceed(s, inflight[s] \ {u})
        BY <2>4, <3>1, AwaitedInTeardown DEF UpdateLands, UpdateFails
      <4> QED BY <3>0, <3>1, <4>1, AwaitedInTeardown, ProceedControl DEF ControlOf
    <3>2. CASE UpdateFails(s, u) /\ u = "watch" /\ pc[s] \in InGroup
      <4>1. u \notin Awaited(s) BY <3>2, AwaitedInTeardown
      <4>2. BeginTeardown(s, inflight[s] \ {u}) /\ UNCHANGED refs
        BY <3>2, <4>1 DEF UpdateFails
      <4> QED BY <3>0, <4>2, BeginTeardownControl DEF ControlOf
    <3>3. CASE u \notin Awaited(s) /\ ~(UpdateFails(s, u) /\ u = "watch" /\ pc[s] \in InGroup)
      <4>1. inflight' = [inflight EXCEPT ![s] = inflight[s] \ {u}] /\ UNCHANGED <<pc, refs>>
        BY <2>4, <3>3 DEF UpdateLands, UpdateFails
      <4> QED BY <3>0, <4>1
    <3> QED BY <3>1, <3>2, <3>3
  <2> QED BY <2>1, <2>2, <2>3, <2>4 DEF Ending
<1>4. /\ UNCHANGED <<lock, session, acc, delivered, graceful, sweep, crashes>>
      /\ faults' \in 0 .. MaxFaults
  BY FaultType
  DEF Ending, WatchDisconnect, Cancelled, AwaitCancelled, UpdateLands, UpdateFails
<1>5. status' \in [Sessions -> Status]
  BY <1>0, TransitionStatusType
  DEF Ending, WatchDisconnect, Cancelled, AwaitCancelled, UpdateLands, UpdateFails,
      FinalStatus, Status
<1>6. /\ rows' \in [Streams -> Turn \cup {NoTurn}]
      /\ \A q \in Streams :
           /\ pc'[q] \in Marked \/ inflight'[q] # {} => rows'[q] # NoTurn
           /\ pc'[q] = "mirroring" => acc'[q] < MaxDeltas
  <2>1. pc'[s] = "mirroring" => acc'[s] < MaxDeltas BY <1>3, <1>4
  <2> QED BY <1>0, <1>1, <2>1, TurnsStay
<1>7. buf' \in [Streams -> Nat]
  <2>1. ASSUME DropBuffer(s) PROVE buf' \in [Streams -> Nat] BY <2>1 DEF DropBuffer
  <2> QED
    BY <2>1 DEF Ending, WatchDisconnect, Cancelled, AwaitCancelled, UpdateLands, UpdateFails
<1> QED BY <1>3, <1>4, <1>5, <1>6, <1>7

LEMMA ReaperType == ASSUME TypeOK, Reaper PROVE TypeOK'
<1> USE DEF streamVars, budgetVars, ReaperOnly, SweepTo
<1>1. /\ rows' \in [Streams -> Turn \cup {NoTurn}]
      /\ \A q \in Streams : rows[q] # NoTurn => rows'[q] # NoTurn
  <2>1. RowsFollow BY ReaperRows
  <2> QED BY <2>1, PresentRow DEF RowsFollow, Follows, Row
<1>2. UNCHANGED <<lock, refs, pc, session, acc, buf, delivered, graceful, inflight, crashes>>
      /\ faults' \in 0 .. MaxFaults
  BY BoundsAssumption DEF Reaper, SelectPending, RecoverPending, SelectStuck, SkipActive,
     FlipStuck, LabelAborted, EndTick, Fault
<1>3. status' \in [Sessions -> Status]
  BY TransitionStatusType DEF Reaper, SelectPending, RecoverPending, SelectStuck, SkipActive,
     FlipStuck, LabelAborted, EndTick, Status
<1>4. sweep' \in [at : {"asleep", "recover", "stuck", "flip", "label"},
                 turns : SUBSET Streams, label : SUBSET Streams]
  BY DEF Reaper, SelectPending, RecoverPending, SelectStuck, SkipActive,
     FlipStuck, LabelAborted, EndTick, Drafts
<1> QED BY <1>1, <1>2, <1>3, <1>4

LEMMA NextType == TypeOK /\ [Next]_vars => TypeOK'
<1> SUFFICES ASSUME TypeOK, [Next]_vars PROVE TypeOK' OBVIOUS
<1>1. ASSUME NEW s \in Streams, StreamStep(s) \/ StreamEvent(s) PROVE TypeOK'
  BY <1>1, StepKinds, EnterType, WorkType, EndType
<1>2. ASSUME NEW s \in Streams, GoQuiet(s) PROVE TypeOK'
  <2>1. RowsFollow BY <1>2, QuietRows DEF RowFollows
  <2>2. /\ rows' \in [Streams -> Turn \cup {NoTurn}]
        /\ \A q \in Streams : rows[q] # NoTurn => rows'[q] # NoTurn
    BY <2>1, PresentRow DEF RowsFollow, Follows, Row
  <2> QED BY <1>2, <2>2 DEF GoQuiet, streamVars, budgetVars
<1>3. CASE Restart
  <2>1. crashes' \in 0 .. MaxCrashes BY <1>3, BoundsAssumption DEF Restart
  <2>2. pc' \in [Streams -> Location] /\ \A s \in Streams : pc'[s] \in {"waiting", "done"}
    BY <1>3 DEF Restart, Location
  <2>3. "waiting" \notin Marked /\ "done" \notin Marked BY DEF Marked, InGroup, Teardown
  <2> QED BY <1>3, <2>1, <2>2, <2>3 DEF Restart, tableVars
<1>4. CASE UNCHANGED vars BY <1>4 DEF vars
<1> QED BY <1>1, <1>2, <1>3, <1>4, ReaperType DEF Next

(* In every behaviour of _sub_session_sse, the reaper and their            *)
(* environment the variables keep their types, and a stream that has a     *)
(* marker or an update in flight has a turn to address.                    *)
THEOREM SubTypeCorrect == Spec => []TypeOK
<1>1. Init => TypeOK BY InitType
<1>2. TypeOK /\ [Next]_vars => TypeOK' BY NextType
<1> QED BY <1>1, <1>2, PTL DEF Spec

-----------------------------------------------------------------------------
(* One draft. Inductive: whoever is between the check and the insertion    *)
(* holds the lock, and finds no draft, because only an insertion makes one *)
(* and it needs the lock too.                                              *)

LockHeld == \A s \in Streams : pc[s] \in InLock => lock = s
CheckStillHolds == \A s \in Streams : pc[s] = "inserting" => Drafts = {}
DraftInv == LockHeld /\ CheckStillHolds /\ OneDraft

LEMMA NoNewDraft == ASSUME TypeOK, RowsFollow PROVE Drafts' \subseteq Drafts
BY DEF RowsFollow, Follows, Drafts

LEMMA DraftsOnly ==
  ASSUME DraftInv, UNCHANGED <<pc, lock>>, Drafts' \subseteq Drafts
  PROVE  DraftInv'
BY DEF DraftInv, LockHeld, CheckStillHolds, OneDraft

LEMMA EnterKeepsDrafts ==
  ASSUME TypeOK, DraftInv, NEW s \in Streams, Entering(s)
  PROVE  DraftInv'
<1> USE DEF DraftInv, Goto, InLock, tableVars
<1>0. \A q \in Streams : q # s => pc'[q] = pc[q] BY StepKeepsOthers DEF OthersKept, Kept
<1>1. CASE AcquireLock(s)
  BY <1>1, NoStreamAssumption DEF AcquireLock, LockHeld, CheckStillHolds, OneDraft, Drafts
<1>2. CASE AssertNoSubSessionStreamInProgress(s)
  <2>1. Drafts' = Drafts BY <1>2 DEF AssertNoSubSessionStreamInProgress, Drafts
  <2>2. \A q \in Streams : q # s => pc[q] \notin InLock
    BY <1>2 DEF AssertNoSubSessionStreamInProgress, LockHeld
  <2>3. pc'[s] = "inserting" => Drafts = {} /\ lock' = lock
    BY <1>2 DEF AssertNoSubSessionStreamInProgress
  <2>4. pc'[s] \in {"inserting", "done"} /\ lock = s
    BY <1>2 DEF AssertNoSubSessionStreamInProgress, LockHeld
  <2> QED BY <1>0, <2>1, <2>2, <2>3, <2>4 DEF LockHeld, CheckStillHolds, OneDraft
<1>3. CASE pc[s] \in InLock /\ pc'[s] \in {"generating", "done"}
  <2>1. \A q \in Streams : q # s => pc[q] \notin InLock BY <1>3 DEF LockHeld
  <2>2. \A q \in Streams : pc'[q] \notin InLock BY <1>0, <1>3, <2>1
  <2>3. OneDraft'
    <3>1. CASE UNCHANGED rows BY <3>1 DEF OneDraft, Drafts
    <3>2. CASE Inserts(s)
      <4>1. Drafts = {} BY <3>2 DEF Inserts, CheckStillHolds
      <4>2. \A q \in Streams : q # s => rows'[q] = rows[q] BY <3>2 DEF Inserts
      <4> QED BY <4>1, <4>2 DEF OneDraft, Drafts
    <3> QED BY <3>1, <3>2, EnterRows
  <2> QED BY <2>2, <2>3 DEF LockHeld, CheckStillHolds
<1>4. CASE CancelledEarly(s) /\ pc[s] = "waiting"
  BY <1>4 DEF CancelledEarly, LockHeld, CheckStillHolds, OneDraft, Drafts
<1> QED
  BY <1>1, <1>2, <1>3, <1>4 DEF Entering, CreateOrAppend, CancelledEarly, CreateFails

Before == {"waiting"} \cup InLock

LEMMA NeverBack ==
  ASSUME TypeOK, NEW s \in Streams, Working(s) \/ Ending(s)
  PROVE  pc'[s] = pc[s] \/ pc'[s] \notin Before
<1> USE DEF Goto, Before, InLock
<1>1. CASE Working(s)
  BY <1>1 DEF Working, Delta, FlushDelta, MirrorDelta, ReasoningDelta, TouchActivity, YieldComplete,
     UpstreamFails, OnSuccess, FinalizeToPending, CommitFinal, FinalizeFails, SettleStatus,
     BeginTeardown, streamVars
<1>2. ASSUME pc[s] \in Teardown, NEW left, Proceed(s, left) PROVE pc'[s] \notin Before
  BY <1>2 DEF Proceed, Teardown
<1>3. CASE WatchDisconnect(s) \/ Cancelled(s) \/ AwaitCancelled(s)
  BY <1>2, <1>3 DEF WatchDisconnect, Cancelled, AwaitCancelled, BeginTeardown
<1>4. ASSUME NEW u \in Update, UpdateLands(s, u) \/ UpdateFails(s, u)
      PROVE  pc'[s] = pc[s] \/ pc'[s] \notin Before
  BY <1>2, <1>4, AwaitedInTeardown DEF UpdateLands, UpdateFails, BeginTeardown
<1> QED BY <1>1, <1>3, <1>4 DEF Ending

LEMMA OthersKeepDrafts ==
  ASSUME TypeOK, DraftInv, NEW s \in Streams, Working(s) \/ Ending(s)
  PROVE  DraftInv'
<1>1. Drafts' \subseteq Drafts BY WorkRows, EndRows, NoNewDraft DEF RowFollows
<1>2. \A q \in Streams : q # s => pc'[q] = pc[q] BY StepKeepsOthers DEF OthersKept, Kept
<1>3. UNCHANGED lock
  BY DEF Working, Delta, FlushDelta, MirrorDelta, ReasoningDelta, TouchActivity, YieldComplete, UpstreamFails,
     OnSuccess, FinalizeToPending, CommitFinal, FinalizeFails, SettleStatus, Ending,
     WatchDisconnect, Cancelled, AwaitCancelled, UpdateLands, UpdateFails
<1>4. pc'[s] = pc[s] \/ pc'[s] \notin InLock BY NeverBack DEF Before
<1> QED
  BY <1>1, <1>2, <1>3, <1>4 DEF DraftInv, LockHeld, CheckStillHolds, OneDraft, InLock

LEMMA DraftInvHolds == Spec => []DraftInv
<1>1. Init => DraftInv BY DEF Init, DraftInv, LockHeld, CheckStillHolds, OneDraft, Drafts, NoTurn, InLock
<1>2. TypeOK /\ DraftInv /\ [Next]_vars => DraftInv'
  <2> SUFFICES ASSUME TypeOK, DraftInv, [Next]_vars PROVE DraftInv' OBVIOUS
  <2>1. ASSUME NEW s \in Streams, StreamStep(s) \/ StreamEvent(s) PROVE DraftInv'
    BY <2>1, StepKinds, EnterKeepsDrafts, OthersKeepDrafts
  <2>2. ASSUME NEW s \in Streams, GoQuiet(s) PROVE DraftInv'
    <3>1. RowsFollow BY <2>2, QuietRows DEF RowFollows
    <3> QED BY <2>2, <3>1, NoNewDraft, DraftsOnly DEF GoQuiet, streamVars
  <2>3. CASE Reaper
    <3>1. UNCHANGED <<pc, lock>>
      BY <2>3 DEF Reaper, SelectPending, RecoverPending, SelectStuck, SkipActive, FlipStuck,
         LabelAborted, EndTick, ReaperOnly, streamVars
    <3> QED BY <2>3, <3>1, ReaperRows, NoNewDraft, DraftsOnly
  <2>4. CASE Restart
    <3>1. \A s \in Streams : pc'[s] \notin InLock BY <2>4 DEF Restart, InLock
    <3>2. OneDraft' BY <2>4 DEF Restart, tableVars, DraftInv, OneDraft, Drafts
    <3> QED BY <3>1, <3>2 DEF DraftInv, LockHeld, CheckStillHolds, InLock
  <2>5. CASE UNCHANGED vars
    BY <2>5 DEF vars, DraftInv, LockHeld, CheckStillHolds, OneDraft, Drafts
  <2> QED BY <2>1, <2>2, <2>3, <2>4, <2>5 DEF Next
<1> QED BY <1>1, <1>2, SubTypeCorrect, PTL DEF Spec

(* However many requests for a chat's panels race, and whatever fails or   *)
(* restarts in between, never are two of its turns drafts (D4,             *)
(* _assert_no_sub_session_stream_in_progress under the chat's lock).       *)
THEOREM OneStreamPerPanel == Spec => []OneDraft
<1>1. DraftInv => OneDraft BY DEF DraftInv
<1> QED BY <1>1, DraftInvHolds, PTL

-----------------------------------------------------------------------------
(* A session is final only if it was earned. Inductive: a stream that has  *)
(* entered _on_success is graceful, one past the yield of sub.complete has *)
(* delivered it, and neither is ever taken back.                           *)

PastYield == {"delivering", "finalizing", "committing", "settling"}
Earned ==
  \A s \in Streams :
    /\ graceful[s] => delivered[s]
    /\ pc[s] \in PastYield => delivered[s]
    /\ pc[s] \in PastYield \ {"delivering"} => graceful[s]

LEMMA EarnedHolds == Spec => []Earned
<1>1. Init => Earned BY DEF Init, Earned, PastYield
<1>2. TypeOK /\ Earned /\ [Next]_vars => Earned'
  <2> SUFFICES ASSUME TypeOK, Earned, [Next]_vars PROVE Earned' OBVIOUS
  <2>1. ASSUME NEW s \in Streams, StreamStep(s) \/ StreamEvent(s) PROVE Earned'
    <3>0. Entering(s) \/ Working(s) \/ Ending(s) BY <2>1, StepKinds
    <3>1. \A q \in Streams : q # s => Kept(q) BY <3>0, StepKeepsOthers DEF OthersKept
    <3>2. /\ graceful'[s] => delivered'[s]
          /\ pc'[s] \in PastYield => delivered'[s]
          /\ pc'[s] \in PastYield \ {"delivering"} => graceful'[s]
      <4> USE DEF Earned, PastYield, Goto
      <4>1. CASE Entering(s)
        BY <4>1 DEF Entering, AcquireLock, AssertNoSubSessionStreamInProgress,
           CreateOrAppend, CancelledEarly, CreateFails
      <4>2. CASE Working(s)
        BY <4>2 DEF Working, Delta, FlushDelta, MirrorDelta, ReasoningDelta, TouchActivity, YieldComplete,
           UpstreamFails, OnSuccess, FinalizeToPending, CommitFinal, FinalizeFails,
           SettleStatus, BeginTeardown, streamVars
      <4>3. ASSUME pc[s] \in Teardown, NEW left, Proceed(s, left)
            PROVE  pc'[s] \notin PastYield
        BY <4>3 DEF Proceed, Teardown
      <4>4. CASE WatchDisconnect(s) \/ Cancelled(s) \/ AwaitCancelled(s)
        BY <4>3, <4>4 DEF WatchDisconnect, Cancelled, AwaitCancelled, BeginTeardown
      <4>5. ASSUME NEW u \in Update, UpdateLands(s, u) \/ UpdateFails(s, u) PROVE <3>2
        BY <4>3, <4>5, AwaitedInTeardown DEF UpdateLands, UpdateFails, BeginTeardown
      <4> QED BY <3>0, <4>1, <4>2, <4>4, <4>5 DEF Ending
    <3> QED BY <3>1, <3>2 DEF Earned, Kept
  <2>2. CASE Restart BY <2>2 DEF Restart, Earned, PastYield
  <2>3. CASE UNCHANGED <<pc, delivered, graceful>> BY <2>3 DEF Earned
  <2> QED
    BY <2>1, <2>2, <2>3
    DEF Next, GoQuiet, Reaper, SelectPending, RecoverPending, SelectStuck, SkipActive,
        FlipStuck, LabelAborted, EndTick, ReaperOnly, streamVars, vars
<1> QED BY <1>1, <1>2, SubTypeCorrect, PTL DEF Spec

(* Who calls a session final.                                              *)
Graceful(x) == \E s \in Streams : session[s] = x /\ graceful[s]
FinalInv == \A x \in Sessions : status[x] = "final" => Graceful(x)

GracefulStays ==
  UNCHANGED session /\ \A s \in Streams : graceful[s] => graceful'[s]
FinalByGraceful ==
  \A x \in Sessions : status'[x] = "final" => status[x] = "final" \/ Graceful(x)

LEMMA TransitionStatusFinal ==
  ASSUME TypeOK, NEW s \in Streams, NEW to, TransitionStatus(session[s], to),
         to = "final" => graceful[s]
  PROVE  FinalByGraceful
BY DEF TransitionStatus, FinalByGraceful, Graceful

LEMMA StepsStayGraceful ==
  ASSUME TypeOK, Earned, [Next]_vars
  PROVE  GracefulStays /\ FinalByGraceful
<1> USE DEF tableVars, streamVars
<1>0. ASSUME UNCHANGED status PROVE FinalByGraceful BY <1>0 DEF FinalByGraceful
<1>1. ASSUME NEW s \in Streams, StreamStep(s) \/ StreamEvent(s)
      PROVE  GracefulStays /\ FinalByGraceful
  <2>0. Entering(s) \/ Working(s) \/ Ending(s) BY <1>1, StepKinds
  <2>1. GracefulStays
    <3>1. graceful[s] => graceful'[s]
      BY <2>0
      DEF Entering, AcquireLock, AssertNoSubSessionStreamInProgress, CreateOrAppend,
          CancelledEarly, CreateFails, Working, Delta, FlushDelta, MirrorDelta, ReasoningDelta, TouchActivity,
          YieldComplete, UpstreamFails, OnSuccess, FinalizeToPending, CommitFinal,
          FinalizeFails, SettleStatus, Ending, WatchDisconnect, Cancelled, AwaitCancelled,
          UpdateLands, UpdateFails
    <3> QED BY <2>0, <3>1, StepKeepsOthers DEF OthersKept, Kept, GracefulStays
  <2>2. FinalByGraceful
    <3>1. CASE Entering(s) /\ InsertTurn(s) BY <3>1 DEF InsertTurn, FinalByGraceful
    <3>2. CASE SettleStatus(s)
      <4>1. graceful[s] BY <3>2 DEF SettleStatus, Earned, PastYield
      <4> QED BY <1>0, <3>2, <4>1, TransitionStatusFinal DEF SettleStatus
    <3>3. ASSUME NEW u \in Update, UpdateLands(s, u) PROVE FinalByGraceful
      BY <1>0, <3>3, TransitionStatusFinal DEF UpdateLands, FinalStatus
    <3>4. CASE Entering(s) /\ ~InsertTurn(s)
      BY <1>0, <3>4 DEF Entering, AcquireLock, AssertNoSubSessionStreamInProgress,
         CreateOrAppend, CancelledEarly, CreateFails
    <3>5. CASE Working(s) /\ ~SettleStatus(s)
      BY <1>0, <3>5 DEF Working, Delta, FlushDelta, MirrorDelta, ReasoningDelta, TouchActivity,
         YieldComplete, UpstreamFails, OnSuccess, FinalizeToPending, CommitFinal, FinalizeFails
    <3>6. CASE Ending(s) /\ ~\E u \in Update : UpdateLands(s, u)
      BY <1>0, <3>6 DEF Ending, WatchDisconnect, Cancelled, AwaitCancelled, UpdateFails
    <3> QED BY <2>0, <3>1, <3>2, <3>3, <3>4, <3>5, <3>6
  <2> QED BY <2>1, <2>2
<1>2. CASE LabelAborted
  <2>1. GracefulStays BY <1>2 DEF LabelAborted, ReaperOnly, GracefulStays
  <2>2. PICK s \in Streams : TransitionStatus(session[s], "aborted") \/ UNCHANGED status
    BY <1>2 DEF LabelAborted
  <2> QED BY <1>0, <2>1, <2>2, TransitionStatusFinal
<1>3. CASE UNCHANGED <<session, graceful, status>> BY <1>0, <1>3 DEF GracefulStays
<1> QED
  BY <1>1, <1>2, <1>3
  DEF Next, GoQuiet, Reaper, SelectPending, RecoverPending, SelectStuck, SkipActive, FlipStuck,
      EndTick, Restart, ReaperOnly, vars

(* However often a session is reopened, by however many overlapping        *)
(* requests, and whoever settles it, the streams, their teardowns or the   *)
(* reaper: it is shown as complete only if the client of one of its turns  *)
(* took a complete answer (D9).                                            *)
THEOREM CompleteMeansDelivered == Spec => []FinalIsEarned
<1>1. Init => FinalInv BY DEF Init, FinalInv
<1>2. TypeOK /\ Earned /\ FinalInv /\ [Next]_vars => FinalInv'
  <2> SUFFICES ASSUME TypeOK, Earned, FinalInv, [Next]_vars PROVE FinalInv' OBVIOUS
  <2>1. GracefulStays /\ FinalByGraceful BY StepsStayGraceful
  <2>2. \A x \in Sessions : Graceful(x) => Graceful(x)' BY <2>1 DEF GracefulStays, Graceful
  <2> QED BY <2>1, <2>2 DEF FinalByGraceful, FinalInv
<1>3. Earned /\ FinalInv => FinalIsEarned BY DEF Earned, FinalInv, Graceful, FinalIsEarned
<1> QED BY <1>1, <1>2, <1>3, EarnedHolds, SubTypeCorrect, PTL DEF Spec

-----------------------------------------------------------------------------
(* The count of the registry. A step adds a stream to the marked ones,     *)
(* takes it away, or does neither, and the count follows.                  *)

MarkedStreams == {s \in Streams : pc[s] \in Marked}
Count == Cardinality(MarkedStreams)

Joins(s) ==
  /\ s \notin MarkedStreams /\ MarkedStreams' = MarkedStreams \cup {s} /\ refs' = refs + 1
Leaves(s) ==
  /\ s \in MarkedStreams /\ MarkedStreams' = MarkedStreams \ {s}
  /\ refs' = IF refs <= 1 THEN 0 ELSE refs - 1
Stays == MarkedStreams' = MarkedStreams /\ refs' = refs

LEMMA MarkedFrame ==
  ASSUME NEW s \in Streams, OthersKept(s)
  PROVE  /\ (pc'[s] \in Marked <=> pc[s] \in Marked) => MarkedStreams' = MarkedStreams
         /\ pc'[s] \in Marked => MarkedStreams' = MarkedStreams \cup {s}
         /\ pc'[s] \notin Marked => MarkedStreams' = MarkedStreams \ {s}
BY DEF OthersKept, Kept, MarkedStreams

LEMMA ProceedMarks ==
  ASSUME TypeOK, NEW s \in Streams, OthersKept(s), pc[s] \in Teardown, NEW left, Proceed(s, left)
  PROVE  Leaves(s) \/ Stays
<1>1. pc[s] \in Marked BY DEF Marked
<1>2. CASE pc[s] \in {"releasing", "salvaging"}
  <2>1. pc'[s] \in Marked /\ UNCHANGED refs BY <1>2 DEF Proceed, Goto, Marked, Teardown
  <2> QED BY <1>1, <2>1, MarkedFrame DEF Stays
<1>3. CASE pc[s] = "labelling"
  <2>1. pc'[s] \notin Marked /\ MarkInactive
    BY <1>3 DEF Proceed, Goto, Marked, Teardown, InGroup
  <2> QED BY <1>1, <2>1, MarkedFrame DEF Leaves, MarkInactive, MarkedStreams
<1> QED BY <1>2, <1>3 DEF Teardown

LEMMA StreamMarks ==
  ASSUME TypeOK, NEW s \in Streams, Entering(s) \/ Working(s) \/ Ending(s)
  PROVE  Joins(s) \/ Leaves(s) \/ Stays
<1>0. OthersKept(s) BY StepKeepsOthers
<1>1. CASE CreateOrAppend(s)
  <2>1. pc[s] \notin Marked /\ pc'[s] \in Marked /\ MarkActive
    BY <1>1 DEF CreateOrAppend, Goto, Marked, InGroup, Teardown
  <2> QED BY <1>0, <2>1, MarkedFrame DEF Joins, MarkActive, MarkedStreams
<1>2. CASE Entering(s) /\ ~CreateOrAppend(s)
  <2>1. pc[s] \notin Marked /\ pc'[s] \notin Marked /\ UNCHANGED refs
    BY <1>2 DEF Entering, AcquireLock, AssertNoSubSessionStreamInProgress, CancelledEarly,
                CreateFails, Goto, InLock, Marked, InGroup, Teardown
  <2> QED BY <1>0, <2>1, MarkedFrame DEF Stays
<1>3. CASE Working(s) \/ WatchDisconnect(s) \/ Cancelled(s)
  <2>1. pc[s] \in Marked /\ pc'[s] \in Marked /\ UNCHANGED refs
    BY <1>3 DEF Working, Delta, FlushDelta, MirrorDelta, ReasoningDelta, TouchActivity, YieldComplete,
                UpstreamFails, OnSuccess, FinalizeToPending, CommitFinal, FinalizeFails,
                SettleStatus, WatchDisconnect, Cancelled, BeginTeardown, Goto, streamVars,
                Marked, InGroup, Teardown
  <2> QED BY <1>0, <2>1, MarkedFrame DEF Stays
<1>4. CASE AwaitCancelled(s) BY <1>0, <1>4, ProceedMarks DEF AwaitCancelled
<1>5. ASSUME NEW u \in Update, UpdateLands(s, u) \/ UpdateFails(s, u) PROVE Leaves(s) \/ Stays
  <2>1. CASE u \in Awaited(s)
    BY <1>0, <1>5, <2>1, AwaitedInTeardown, ProceedMarks DEF UpdateLands, UpdateFails
  <2>2. CASE u \notin Awaited(s)
    <3>1. /\ UNCHANGED refs
          /\ UNCHANGED pc \/ (pc[s] \in Marked /\ pc'[s] \in Marked)
      BY <1>5, <2>2 DEF UpdateLands, UpdateFails, BeginTeardown, Goto, Marked, Teardown
    <3> QED BY <1>0, <3>1, MarkedFrame DEF Stays
  <2> QED BY <2>1, <2>2
<1> QED BY <1>1, <1>2, <1>3, <1>4, <1>5 DEF Ending

LEMMA MarkedCount ==
  ASSUME NEW s \in Streams
  PROVE  /\ Count \in Nat
         /\ s \notin MarkedStreams => Cardinality(MarkedStreams \cup {s}) = Count + 1
         /\ s \in MarkedStreams => Cardinality(MarkedStreams \ {s}) = Count - 1 /\ Count > 0
<1>1. IsFiniteSet(MarkedStreams)
  BY StreamsAssumption, FS_Subset, MarkedStreams \in SUBSET Streams DEF MarkedStreams
<1>2. s \in MarkedStreams => Count # 0 BY <1>1, FS_EmptySet DEF Count
<1> QED BY <1>1, <1>2, FS_AddElement, FS_RemoveElement, FS_CardinalityType DEF Count

LEMMA CountFollows ==
  ASSUME TypeOK, refs = Count, NEW s \in Streams, Joins(s) \/ Leaves(s) \/ Stays
  PROVE  refs' = Count'
<1>1. CASE Joins(s) BY <1>1, MarkedCount DEF Joins, Count
<1>2. CASE Leaves(s) BY <1>2, MarkedCount DEF Leaves, Count
<1>3. CASE Stays BY <1>3 DEF Stays, Count
<1> QED BY <1>1, <1>2, <1>3

(* Whatever fails and whatever is cancelled on the way out, the number of  *)
(* markers is the number of running streams: the reaper neither flips the  *)
(* draft of a live panel nor spares a chat for ever                        *)
(* (_sub_session_sse, finally: mark_inactive).                             *)
THEOREM PanelMarkersMatch == Spec => []MarkerPaired
<1> DEFINE Inv == refs = Count
<1>1. Init => Inv
  <2> SUFFICES ASSUME Init PROVE Inv OBVIOUS
  <2>1. MarkedStreams = {} BY DEF Init, MarkedStreams, Marked, InGroup, Teardown
  <2> QED BY <2>1, FS_EmptySet DEF Init, Count
<1>2. TypeOK /\ Inv /\ [Next]_vars => Inv'
  <2> SUFFICES ASSUME TypeOK, Inv, [Next]_vars PROVE Inv' OBVIOUS
  <2>1. ASSUME NEW s \in Streams, StreamStep(s) \/ StreamEvent(s) PROVE Inv'
    <3>1. Joins(s) \/ Leaves(s) \/ Stays BY <2>1, StepKinds, StreamMarks
    <3> QED BY <3>1, CountFollows
  <2>2. CASE Restart
    <3>1. \A s \in Streams : pc'[s] \notin Marked BY <2>2 DEF Restart, Marked, InGroup, Teardown
    <3>2. MarkedStreams' = {} BY <3>1 DEF MarkedStreams
    <3> QED BY <2>2, <3>2, FS_EmptySet DEF Restart, Count
  <2>3. CASE UNCHANGED <<pc, refs>> BY <2>3 DEF Count, MarkedStreams
  <2> QED
    BY <2>1, <2>2, <2>3
    DEF Next, GoQuiet, Reaper, SelectPending, RecoverPending, SelectStuck, SkipActive,
        FlipStuck, LabelAborted, EndTick, ReaperOnly, streamVars, vars
<1>3. Inv => MarkerPaired BY DEF MarkerPaired, Count, MarkedStreams
<1> QED BY <1>1, <1>2, <1>3, SubTypeCorrect, PTL DEF Spec

-----------------------------------------------------------------------------
(* A stream that has not inserted its turn has none, and nothing in        *)
(* flight.                                                                 *)

NotYet == \A s \in Streams : pc[s] \in Before => rows[s] = NoTurn

LEMMA NoneStaysNone ==
  ASSUME TypeOK, RowsFollow, NEW s \in Streams, rows[s] = NoTurn
  PROVE  rows'[s] = NoTurn
<1>1. rows[s] \in Row BY DEF Row
<1> QED BY <1>1, PresentRow DEF RowsFollow, Follows

LEMMA NotYetHolds == Spec => []NotYet
<1>1. Init => NotYet BY DEF Init, NotYet
<1>2. TypeOK /\ NotYet /\ [Next]_vars => NotYet'
  <2> SUFFICES ASSUME TypeOK, NotYet, [Next]_vars PROVE NotYet' OBVIOUS
  <2>0. ASSUME RowsFollow, \A q \in Streams : pc'[q] \in Before => pc[q] \in Before PROVE NotYet'
    BY <2>0, NoneStaysNone DEF NotYet
  <2>1. ASSUME NEW s \in Streams, StreamStep(s) \/ StreamEvent(s) PROVE NotYet'
    <3>0. Entering(s) \/ Working(s) \/ Ending(s) BY <2>1, StepKinds
    <3>1. \A q \in Streams : q # s => pc'[q] = pc[q]
      BY <3>0, StepKeepsOthers DEF OthersKept, Kept
    <3>2. CASE Working(s) \/ Ending(s)
      BY <2>0, <3>1, <3>2, NeverBack, WorkRows, EndRows DEF RowFollows
    <3>3. CASE Entering(s) /\ UNCHANGED rows
      <4>1. pc[s] \in Before
        BY <3>3 DEF Entering, AcquireLock, AssertNoSubSessionStreamInProgress, CreateOrAppend,
           CancelledEarly, CreateFails, Before, InLock
      <4> QED BY <3>1, <3>3, <4>1 DEF NotYet
    <3>4. CASE Entering(s) /\ Inserts(s)
      <4>1. pc'[s] \notin Before \/ UNCHANGED rows
        BY <3>4 DEF Entering, Inserts, AcquireLock, AssertNoSubSessionStreamInProgress,
           CreateOrAppend, CancelledEarly, CreateFails, Goto, Before, InLock
      <4>2. \A q \in Streams : q # s => rows'[q] = rows[q] BY <3>4 DEF Inserts
      <4> QED BY <3>1, <3>3, <3>4, <4>1, <4>2 DEF NotYet
    <3> QED BY <3>0, <3>2, <3>3, <3>4, EnterRows
  <2>2. ASSUME NEW s \in Streams, GoQuiet(s) PROVE NotYet'
    BY <2>0, <2>2, QuietRows DEF GoQuiet, streamVars, RowFollows
  <2>3. CASE Reaper
    <3>1. UNCHANGED pc
      BY <2>3 DEF Reaper, SelectPending, RecoverPending, SelectStuck, SkipActive, FlipStuck,
         LabelAborted, EndTick, ReaperOnly, streamVars
    <3> QED BY <2>0, <2>3, <3>1, ReaperRows
  <2>4. CASE Restart
    <3>1. UNCHANGED rows /\ \A s \in Streams : pc'[s] \in Before => pc[s] \in Before
      BY <2>4 DEF Restart, tableVars, Before, InLock
    <3> QED BY <3>1 DEF NotYet
  <2>5. CASE UNCHANGED vars BY <2>5 DEF vars, NotYet
  <2> QED BY <2>1, <2>2, <2>3, <2>4, <2>5 DEF Next
<1> QED BY <1>1, <1>2, SubTypeCorrect, PTL DEF Spec

-----------------------------------------------------------------------------
(* The lock is always somebody's: its holder is in the critical section,   *)
(* and every way out of there releases it.                                 *)

LockOwned == lock # NoStream => pc[lock] \in InLock

(* The sub-session lock of a chat is never left behind: whenever it is     *)
(* held, its holder is a request still between the check and the insert of *)
(* stream_sub_chat, whatever is cancelled, fails or restarts.              *)
THEOREM PanelLockIsReturned == Spec => []LockOwned
<1>1. Init => LockOwned BY DEF Init, LockOwned
<1>2. TypeOK /\ DraftInv /\ NotYet /\ LockOwned /\ [Next]_vars => LockOwned'
  <2> SUFFICES ASSUME TypeOK, DraftInv, NotYet, LockOwned, [Next]_vars, lock' # NoStream
               PROVE  pc'[lock'] \in InLock
    BY DEF LockOwned
  <2>0. lock \in Streams \cup {NoStream} OBVIOUS
  <2>1. ASSUME NEW s \in Streams, Entering(s) PROVE pc'[lock'] \in InLock
    <3>1. \A q \in Streams : q # s => pc'[q] = pc[q]
      BY <2>1, StepKeepsOthers DEF OthersKept, Kept
    <3>2. lock' \in {s, lock} /\ (lock' = s => pc'[s] \in InLock)
      BY <2>0, <2>1 DEF LockOwned, DraftInv, LockHeld, Entering, AcquireLock,
         AssertNoSubSessionStreamInProgress, CreateOrAppend, CancelledEarly, CreateFails,
         Goto, InLock
    <3> QED BY <2>0, <3>1, <3>2 DEF LockOwned
  <2>2. ASSUME NEW s \in Streams, Working(s) \/ Ending(s) PROVE pc'[lock'] \in InLock
    <3>1. \A q \in Streams : q # s => pc'[q] = pc[q]
      BY <2>2, StepKeepsOthers DEF OthersKept, Kept
    <3>2. UNCHANGED lock
      BY <2>2 DEF Working, Delta, FlushDelta, MirrorDelta, ReasoningDelta, TouchActivity, YieldComplete,
         UpstreamFails, OnSuccess, FinalizeToPending, CommitFinal, FinalizeFails, SettleStatus,
         Ending, WatchDisconnect, Cancelled, AwaitCancelled, UpdateLands, UpdateFails
    <3>3. pc[s] \notin InLock
      <4>1. CASE Working(s) \/ WatchDisconnect(s) \/ Cancelled(s) \/ AwaitCancelled(s)
        BY <4>1 DEF NotYet, Working, Delta, FlushDelta, MirrorDelta, ReasoningDelta, TouchActivity,
           YieldComplete, UpstreamFails, OnSuccess, FinalizeToPending, CommitFinal,
           FinalizeFails, SettleStatus, WatchDisconnect, Cancelled, AwaitCancelled, InLock,
           InGroup, Teardown
      <4>2. ASSUME NEW u \in Update, UpdateLands(s, u) \/ UpdateFails(s, u)
            PROVE  pc[s] \notin InLock
        <5>1. rows[s] # NoTurn BY <4>2 DEF UpdateLands, UpdateFails
        <5> QED BY <5>1 DEF NotYet, Before
      <4> QED BY <2>2, <4>1, <4>2 DEF Ending
    <3> QED BY <2>0, <3>1, <3>2, <3>3 DEF LockOwned
  <2>3. CASE Restart BY <2>3 DEF Restart
  <2>4. CASE Reaper \/ (\E s \in Streams : GoQuiet(s)) \/ UNCHANGED vars
    <3>1. UNCHANGED <<pc, lock>>
      BY <2>4 DEF Reaper, SelectPending, RecoverPending, SelectStuck, SkipActive, FlipStuck,
         LabelAborted, EndTick, ReaperOnly, GoQuiet, streamVars, vars
    <3> QED BY <3>1 DEF LockOwned
  <2> QED BY <2>1, <2>2, <2>3, <2>4, StepKinds DEF Next
<1> QED BY <1>1, <1>2, SubTypeCorrect, DraftInvHolds, NotYetHolds, PTL DEF Spec

-----------------------------------------------------------------------------
(* The transcript is a turn log. A stream that has not inserted its turn   *)
(* has none; every other step leaves the phase of a row or ends an open    *)
(* turn.                                                                   *)

Logged(p) == [chat |-> "this", phase |-> p, text |-> 0, form |-> "raw"]
Log == [s \in Streams |-> Phase(rows[s])]
LogStep == Transcript!Next \/ UNCHANGED Log

LEMMA PhaseOfRow ==
  ASSUME NEW row \in Row
  PROVE  /\ row = NoTurn => Phase(row) = Transcript!Vacant
         /\ row \in Turn =>
              Phase(row) = Logged(IF row.state = "draft" THEN "open"
                                  ELSE IF row.state = "aborted_by_client" THEN "interrupted"
                                  ELSE "answered")
BY DEF Row, NoTurn, Turn, PersistState, Phase, PhaseName, Logged, Transcript!Vacant

LEMMA LogOf == Log' = [s \in Streams |-> Phase(rows'[s])]
BY DEF Log

LEMMA Rephased ==
  ASSUME NEW p, NEW q
  PROVE  /\ [Logged(p) EXCEPT !.phase = q] = Logged(q)
         /\ Logged(p).phase = p /\ Logged(p).form = "raw" /\ Logged(p).chat = "this"
BY DEF Logged

(* One open turn is closed, or no phase changes.                           *)
LEMMA RowLogs == ASSUME TypeOK, NEW s \in Streams, RowFollows(s) PROVE LogStep
<1> DEFINE old == rows[s]
           new == rows'[s]
<1>0. old \in Row /\ new \in Row /\ Follows(old, new) BY DEF RowFollows, RowsFollow, Row
<1>1. Log' = [Log EXCEPT ![s] = Phase(new)] BY LogOf DEF Log, RowFollows
<1>2. CASE Phase(new) = Phase(old)
  <2>1. Log' = Log BY <1>1, <1>2 DEF Log
  <2> QED BY <2>1 DEF LogStep
<1>3. CASE Phase(new) # Phase(old)
  <2>1. old \in Turn /\ new \in Turn /\ old.state = "draft" /\ new.state # "draft"
    BY <1>0, <1>3, PhaseOfRow DEF Follows
  <2>2. PICK p \in {"answered", "interrupted"} : Phase(new) = Logged(p)
    BY <1>0, <2>1, PhaseOfRow
  <2>3. Log[s] = Logged("open") BY <1>0, <2>1, PhaseOfRow DEF Log
  <2>4. Log[s].phase = "open" /\ Log[s].form = "raw" BY ONLY <2>3, Rephased
  <2>5. Log' = [Log EXCEPT ![s].phase = p]
    <3>1. [Log[s] EXCEPT !.phase = p] = Logged(p) BY <2>3, Rephased
    <3> QED BY <1>1, <2>2, <3>1 DEF Log
  <2>6. Transcript!Answer(s) \/ Transcript!Interrupt(s)
    BY <2>2, <2>4, <2>5 DEF Transcript!Answer, Transcript!Interrupt, Log
  <2> QED BY <2>6 DEF LogStep, Transcript!Next
<1> QED BY <1>2, <1>3

LEMMA InsertLogs ==
  ASSUME TypeOK, DraftInv, NotYet, NEW s \in Streams, Inserts(s)
  PROVE  LogStep
<1> DEFINE row == [state |-> "draft", text |-> 0, form |-> "raw", age |-> "fresh"]
<1>1. row \in Turn BY DEF Turn, PersistState, ContentForm
<1>2. Phase(row) = Logged("open") BY <1>1, PhaseOfRow DEF Row
<1>3. Log' = [Log EXCEPT ![s] = Logged("open")] BY <1>2, LogOf DEF Log, Inserts
<1>4. Log[s] = Transcript!Vacant
  BY PhaseOfRow DEF Log, Inserts, NotYet, Before, InLock, Row
<1>5. \A q \in Streams : Log[q].phase # "open"
  <2> SUFFICES ASSUME NEW q \in Streams PROVE Log[q].phase # "open" OBVIOUS
  <2>1. rows[q] \in Row /\ rows[q].state # "draft"
    BY DEF Inserts, DraftInv, CheckStillHolds, Drafts, Row
  <2>2. CASE rows[q] \in Turn BY <2>1, <2>2, PhaseOfRow, Rephased DEF Log
  <2>3. CASE rows[q] = NoTurn
    BY <2>1, <2>3, PhaseOfRow DEF Log, Transcript!Vacant
  <2> QED BY <2>1, <2>2, <2>3 DEF Row
<1>6. Transcript!Begin(s, "this")
  BY <1>3, <1>4, <1>5 DEF Transcript!Begin, Transcript!Open, Log, Logged
<1> QED BY <1>6 DEF LogStep, Transcript!Next

LEMMA FlipLogs == ASSUME TypeOK, Flips PROVE LogStep
<1> DEFINE S == {s \in sweep.turns : rows[s].state = "draft"}
<1>1. ASSUME NEW s \in S PROVE s \in Streams /\ Log[s] = Logged("open")
  <2>1. s \in Streams /\ rows[s] \in Row /\ rows[s].state = "draft" BY DEF Row
  <2> QED BY <2>1, PresentRow, PhaseOfRow DEF Log, NoTurn
<1>2. ASSUME NEW s \in Streams
      PROVE  Phase(rows'[s]) = IF s \in S THEN [Log[s] EXCEPT !.phase = "answered"] ELSE Log[s]
  <2>0. rows[s] \in Row BY DEF Row
  <2>1. CASE s \in S
    <3>1. rows[s] \in Turn BY <2>0, <2>1, PresentRow DEF NoTurn
    <3>2. rows'[s] \in Turn /\ rows'[s].state = "final"
      BY <2>1, <3>1 DEF Flips, Transition, Turn, PersistState
    <3>3. Phase(rows'[s]) = Logged("answered") BY <3>2, PhaseOfRow DEF Row
    <3> QED BY <1>1, <2>1, <3>3, Rephased
  <2>2. CASE s \notin S BY <2>0, <2>2 DEF Flips, Transition, Log
  <2> QED BY <2>1, <2>2
<1>3. Log' = [s \in Streams |-> IF s \in S THEN [Log[s] EXCEPT !.phase = "answered"] ELSE Log[s]]
  BY <1>2, LogOf
<1>4. \A s \in S : Log[s].phase = "open" BY <1>1, Rephased
<1>5. S \in SUBSET Streams BY <1>1
<1>6. Transcript!Sweep(S) BY <1>3, <1>4 DEF Transcript!Sweep, Log
<1> QED BY <1>5, <1>6 DEF LogStep, Transcript!Next

(* The turns that the panels' streams, their teardowns and the reaper      *)
(* write are a turn log: one open turn at a time, begun only where there   *)
(* was none, closed once, never reopened and never lost (the transcript of *)
(* sub_session_messages).                                                  *)
THEOREM PanelsAreATranscript == Spec => ImplementsTurnLog
<1>1. Init => Transcript!Init
  BY PhaseOfRow DEF Init, Transcript!Init, Row
<1>2. TypeOK /\ DraftInv /\ NotYet /\ [Next]_vars => LogStep
  <2> SUFFICES ASSUME TypeOK, DraftInv, NotYet, [Next]_vars PROVE LogStep OBVIOUS
  <2>0. ASSUME UNCHANGED rows PROVE LogStep BY <2>0, LogOf DEF LogStep, Log
  <2>1. ASSUME NEW s \in Streams, StreamStep(s) \/ StreamEvent(s) PROVE LogStep
    BY <2>0, <2>1, StepKinds, EnterRows, WorkRows, EndRows, InsertLogs, RowLogs
  <2>2. ASSUME NEW s \in Streams, GoQuiet(s) PROVE LogStep BY <2>2, QuietRows, RowLogs
  <2>3. CASE Reaper BY <2>0, <2>3, ReaperRows, FlipLogs, RowLogs
  <2>4. CASE UNCHANGED rows BY <2>0, <2>4
  <2> QED BY <2>1, <2>2, <2>3, <2>4 DEF Next, Restart, tableVars, vars
<1>3. LogStep => [Transcript!Next]_[s \in Streams |-> Phase(rows[s])] BY DEF LogStep, Log
<1> QED
  BY <1>1, <1>2, <1>3, SubTypeCorrect, DraftInvHolds, NotYetHolds, PTL
  DEF Spec, ImplementsTurnLog, Transcript!Spec

=============================================================================
