----------------------------- MODULE SubSession -----------------------------
(***************************************************************************)
(* Durable sub-sessions of one chat (/research, /web, /code panels).       *)
(*                                                                         *)
(* A sub-session has a status of its own and a transcript of turns. Each   *)
(* request creates a sub-session or reopens one, streams one assistant     *)
(* turn into it through the row states of RowState, and settles the status *)
(* of the whole session, once from the graceful path and once more from    *)
(* its teardown. A second request can reopen the session before the first  *)
(* has finished tearing down; the reaper settles what was left behind.     *)
(*                                                                         *)
(* A turn is named by the stream that inserted it.                         *)
(***************************************************************************)
EXTENDS RowState, FiniteSets

CONSTANTS
  Sessions,    \* sub_sessions.id
  Streams,     \* calls of _sub_session_sse; each serves one request
  NoStream,    \* the owner of a free lock, the turn of an empty session
  MaxDeltas,   \* bound: content deltas of a turn
  MaxFaults,   \* bound: database writes that fail for good
  MaxCrashes   \* bound: process restarts

ASSUME NoStreamAssumption == NoStream \notin Streams
ASSUME StreamsAssumption == IsFiniteSet(Streams)
ASSUME BoundsAssumption == MaxDeltas \in Nat /\ MaxFaults \in Nat /\ MaxCrashes \in Nat

VARIABLES
  rows,        \* sub_session_messages, by stream
  status,      \* sub_sessions.status, "none" before the row exists
  lock,        \* the holder of the chat's sub-session lock
  refs,        \* the chat's count in _ACTIVE_STREAM_REFCOUNTS
  pc,          \* where each stream is in _sub_session_sse
  session,     \* the sub-session each stream creates or continues
  acc,         \* _pstate["acc_content"]: deltas mirrored for the teardown
  buf,         \* _CoalesceTimer._buf: deltas not yet on the row; empty once the
               \* generation is over, when nobody flushes it any more
  delivered,   \* the sub.complete frame was yielded
  graceful,    \* _graceful["value"]
  inflight,    \* shielded UPDATEs that have started and not yet committed
  sweep,       \* the reaper: its place in the tick, the turns it holds, and
               \* those of them whose session it still has to label
  faults, crashes   \* how much of each bound is used

tableVars == <<rows, status>>
streamVars == <<pc, session, acc, buf, delivered, graceful, inflight>>
budgetVars == <<faults, crashes>>
vars == <<rows, status, lock, refs, pc, session, acc, buf, delivered, graceful,
          inflight, sweep, faults, crashes>>

Turn == [state : PersistState, text : Nat, form : ContentForm, age : {"fresh", "quiet"}]
NoTurn == [state |-> "absent"]
Status == {"none", "active", "final", "aborted"}

(* The watcher's abort and the three updates of the teardown.              *)
Update == {"watch", "release", "salvage", "status"}

(* The TaskGroup is open. A stream that is mirroring is back from the      *)
(* flush of a delta it has not yet put in acc; one that is delivering has  *)
(* yielded sub.complete and not yet entered _on_success; one that is       *)
(* settling is about to update the status from there.                      *)
InGroup == {"generating", "mirroring", "delivering", "finalizing", "committing", "settling"}
Teardown == {"releasing", "salvaging", "labelling"}
Marked == InGroup \cup Teardown
InLock == {"checking", "inserting"}
Location == {"waiting", "done"} \cup InLock \cup Marked

Drafts == {s \in Streams : rows[s].state = "draft"}

Init ==
  /\ rows = [s \in Streams |-> NoTurn]
  /\ status = [x \in Sessions |-> "none"]
  /\ lock = NoStream
  /\ refs = 0
  /\ pc = [s \in Streams |-> "waiting"]
  /\ session \in [Streams -> Sessions]
  /\ acc = [s \in Streams |-> 0]
  /\ buf = [s \in Streams |-> 0]
  /\ delivered = [s \in Streams |-> FALSE]
  /\ graceful = [s \in Streams |-> FALSE]
  /\ inflight = [s \in Streams |-> {}]
  /\ sweep = [at |-> "asleep", turns |-> {}, label |-> {}]
  /\ faults = 0 /\ crashes = 0

Goto(s, to) == pc' = [pc EXCEPT ![s] = to]
SetRow(s, row) == rows' = [rows EXCEPT ![s] = row]
Fault == faults < MaxFaults /\ faults' = faults + 1 /\ UNCHANGED crashes

MarkActive == refs' = refs + 1
MarkInactive == refs' = IF refs <= 1 THEN 0 ELSE refs - 1

(* UPDATE sub_sessions SET status WHERE status = 'active'.                 *)
TransitionStatus(x, to) ==
  status' = [status EXCEPT ![x] = IF @ = "active" THEN to ELSE @]

-----------------------------------------------------------------------------
(* Entering.                                                               *)

(* Faulty: the check and the insertion are not made under the lock.        *)
EnterWithoutLock(s) ==
  /\ pc[s] = "waiting"
  /\ lock' = s
  /\ Goto(s, "checking")
  /\ UNCHANGED <<tableVars, refs, session, acc, buf, delivered, graceful, inflight,
                 sweep, budgetVars>>

AcquireLock(s) ==
  /\ pc[s] = "waiting"
  /\ lock = NoStream
  /\ lock' = s
  /\ Goto(s, "checking")
  /\ UNCHANGED <<tableVars, refs, session, acc, buf, delivered, graceful, inflight,
                 sweep, budgetVars>>

(* Only a draft is in progress here: a turn that waits for its second      *)
(* commit does not refuse the next request.                                *)
AssertNoSubSessionStreamInProgress(s) ==
  /\ pc[s] = "checking"
  /\ IF Drafts = {}
     THEN Goto(s, "inserting") /\ UNCHANGED lock
     ELSE Goto(s, "done") /\ lock' = NoStream
  /\ UNCHANGED <<tableVars, refs, session, acc, buf, delivered, graceful, inflight,
                 sweep, budgetVars>>

(* One transaction: the session is created or reopened, whatever its       *)
(* status, and the user turn and the draft are inserted.                   *)
InsertTurn(s) ==
  /\ SetRow(s, [state |-> "draft", text |-> 0, form |-> "raw", age |-> "fresh"])
  /\ status' = [status EXCEPT ![session[s]] = "active"]

(* From the commit to the opening of the TaskGroup nothing is awaited.     *)
CreateOrAppend(s) ==
  /\ pc[s] = "inserting"
  /\ InsertTurn(s)
  /\ Goto(s, "generating")
  /\ lock' = NoStream
  /\ MarkActive
  /\ UNCHANGED <<session, acc, buf, delivered, graceful, inflight, sweep, budgetVars>>

(* Cancelled before the teardown is armed: the draft and the active status *)
(* stay behind if the INSERT has committed.                                *)
CancelledEarly(s) ==
  /\ pc[s] \in {"waiting"} \cup InLock
  /\ \/ pc[s] = "inserting" /\ InsertTurn(s)
     \/ UNCHANGED tableVars
  /\ Goto(s, "done")
  /\ lock' = IF pc[s] = "waiting" THEN lock ELSE NoStream
  /\ UNCHANGED <<refs, session, acc, buf, delivered, graceful, inflight, sweep, budgetVars>>

CreateFails(s) ==
  /\ pc[s] = "inserting"
  /\ Fault
  /\ Goto(s, "done")
  /\ lock' = NoStream
  /\ UNCHANGED <<tableVars, refs, session, acc, buf, delivered, graceful, inflight, sweep>>

-----------------------------------------------------------------------------
(* The turn.                                                               *)

BeginTeardown(s, left) ==
  /\ inflight' = [inflight EXCEPT ![s] = left \cup {"release"}]
  /\ Goto(s, "releasing")

(* What _CoalesceTimer.flush leaves if it commits, and if it fails.        *)
Flush(s, n) == SetRow(s, FlushDraft(rows[s], n)) /\ buf' = [buf EXCEPT ![s] = 0]
NoFlush(s, n) == UNCHANGED rows /\ buf' = [buf EXCEPT ![s] = n]
DropBuffer(s) == buf' = [buf EXCEPT ![s] = 0]

(* A message.delta that is not due for a flush.                            *)
Delta(s) ==
  /\ pc[s] = "generating"
  /\ acc[s] < MaxDeltas
  /\ acc' = [acc EXCEPT ![s] = @ + 1]
  /\ NoFlush(s, buf[s] + 1)
  /\ UNCHANGED <<status, lock, refs, pc, session, delivered, graceful,
                 inflight, sweep, budgetVars>>

(* _persist_content_delta awaits the flush first, which may fail ...       *)
FlushDelta(s) ==
  /\ pc[s] = "generating"
  /\ acc[s] < MaxDeltas
  /\ Flush(s, buf[s] + 1) \/ NoFlush(s, buf[s] + 1)
  /\ Goto(s, "mirroring")
  /\ UNCHANGED <<status, lock, refs, session, acc, delivered, graceful, inflight, sweep, budgetVars>>

(* ... and mirrors the content for the teardown after it.                  *)
MirrorDelta(s) ==
  /\ pc[s] = "mirroring"
  /\ acc' = [acc EXCEPT ![s] = @ + 1]
  /\ Goto(s, "generating")
  /\ UNCHANGED <<rows, status, lock, refs, session, buf, delivered, graceful, inflight, sweep, budgetVars>>

(* _persist_reasoning_delta: no content, but a flush of the buffer.        *)
ReasoningDelta(s) ==
  /\ pc[s] = "generating"
  /\ Flush(s, buf[s])
  /\ UNCHANGED <<status, lock, refs, pc, session, acc, delivered, graceful,
                 inflight, sweep, budgetVars>>

TouchActivity(s) ==
  /\ pc[s] = "generating"
  /\ rows[s].state = "draft" /\ rows[s].age # "fresh"
  /\ SetRow(s, [rows[s] EXCEPT !.age = "fresh"])
  /\ UNCHANGED <<status, lock, refs, streamVars, sweep, budgetVars>>

(* The core yields the sub.complete frame and is suspended at that yield.  *)
YieldComplete(s) ==
  /\ pc[s] = "generating"
  /\ delivered' = [delivered EXCEPT ![s] = TRUE]
  /\ Goto(s, "delivering")
  /\ UNCHANGED <<tableVars, lock, refs, session, acc, buf, graceful, inflight,
                 sweep, budgetVars>>

(* A sub.error frame, or the idle timeout of the watcher.                  *)
UpstreamFails(s) ==
  /\ pc[s] = "generating"
  /\ BeginTeardown(s, inflight[s])
  /\ DropBuffer(s)
  /\ UNCHANGED <<tableVars, lock, refs, session, acc, delivered, graceful, sweep, budgetVars>>

(* The frame was taken: _on_success records the graceful end and flushes.  *)
OnSuccess(s) ==
  /\ pc[s] = "delivering"
  /\ graceful' = [graceful EXCEPT ![s] = TRUE]
  /\ Flush(s, buf[s]) \/ (UNCHANGED rows /\ DropBuffer(s))
  /\ Goto(s, "finalizing")
  /\ UNCHANGED <<status, lock, refs, session, acc, delivered, inflight,
                 sweep, budgetVars>>

(* _finalize_message_impl. Its result is only logged: the status is        *)
(* settled whether or not the row was finalized.                           *)
FinalizeToPending(s) ==
  /\ pc[s] = "finalizing"
  /\ SetRow(s, ToPending(rows[s], acc[s]))
  /\ Goto(s, IF rows[s].state = "draft" THEN "committing" ELSE "settling")
  /\ UNCHANGED <<status, lock, refs, session, acc, buf, delivered, graceful, inflight, sweep, budgetVars>>

CommitFinal(s) ==
  /\ pc[s] = "committing"
  /\ SetRow(s, FinalizePending(rows[s]))
  /\ Goto(s, "settling")
  /\ UNCHANGED <<status, lock, refs, session, acc, buf, delivered, graceful, inflight, sweep, budgetVars>>

FinalizeFails(s) ==
  /\ pc[s] \in {"finalizing", "committing"}
  /\ Fault
  /\ Goto(s, "settling")
  /\ UNCHANGED <<tableVars, lock, refs, session, acc, buf, delivered, graceful, inflight, sweep>>

(* The last update of _on_success; its failure is logged.                  *)
SettleStatus(s) ==
  /\ pc[s] = "settling"
  /\ \/ TransitionStatus(session[s], "final") /\ UNCHANGED budgetVars
     \/ UNCHANGED status /\ Fault
  /\ BeginTeardown(s, inflight[s])
  /\ UNCHANGED <<rows, lock, refs, session, acc, buf, delivered, graceful, sweep>>

-----------------------------------------------------------------------------
(* Disconnect and teardown.                                                *)

(* The watcher starts a shielded abort and returns; unlike in stream_chat, *)
(* nothing records that the client is gone. An abort of a row that has     *)
(* left draft changes nothing (and its failure is like Cancelled).         *)
WatchDisconnect(s) ==
  /\ pc[s] \in InGroup
  /\ rows[s].state = "draft" /\ "watch" \notin inflight[s]
  /\ inflight' = [inflight EXCEPT ![s] = @ \cup {"watch"}]
  /\ UNCHANGED <<tableVars, lock, refs, pc, session, acc, buf, delivered, graceful,
                 sweep, budgetVars>>

(* GeneratorExit, a cancellation, or the idle timeout of the watcher.      *)
Cancelled(s) ==
  /\ pc[s] \in InGroup
  /\ BeginTeardown(s, inflight[s])
  /\ DropBuffer(s)
  /\ UNCHANGED <<tableVars, lock, refs, session, acc, delivered, graceful, sweep, budgetVars>>

(* The update each step of the teardown waits for.                         *)
Awaited(s) ==
  CASE pc[s] = "releasing" -> {"release"}
    [] pc[s] = "salvaging" -> {"salvage"}
    [] pc[s] = "labelling" -> {"status"}
    [] OTHER -> {}

(* The teardown goes on: release, backfill, status, mark_inactive.         *)
Proceed(s, left) ==
  CASE pc[s] = "releasing" ->
         /\ inflight' = [inflight EXCEPT ![s] = left \cup {"salvage"}]
         /\ Goto(s, "salvaging") /\ UNCHANGED refs
    [] pc[s] = "salvaging" ->
         /\ inflight' = [inflight EXCEPT ![s] = left \cup {"status"}]
         /\ Goto(s, "labelling") /\ UNCHANGED refs
    [] pc[s] = "labelling" ->
         /\ inflight' = [inflight EXCEPT ![s] = left]
         /\ Goto(s, "done") /\ MarkInactive

UpdatedRow(s, u) ==
  CASE u = "watch" -> {SafeAbortDraft(rows[s])}
    [] u = "release" -> ReleaseDraft(rows[s], acc[s])
    [] u = "salvage" -> {SalvageAborted(rows[s], acc[s])}
    [] u = "status" -> {rows[s]}

(* Faulty: the interrupted turn is labelled like a complete one.           *)
AlwaysFinal(s) == "final"

FinalStatus(s) == IF graceful[s] THEN "final" ELSE "aborted"

(* An update commits, whether or not its stream still waits for it.        *)
UpdateLands(s, u) ==
  /\ u \in inflight[s]
  /\ \E row \in UpdatedRow(s, u) : SetRow(s, row)
  /\ IF u = "status" THEN TransitionStatus(session[s], FinalStatus(s)) ELSE UNCHANGED status
  /\ IF u \in Awaited(s)
     THEN Proceed(s, inflight[s] \ {u})
     ELSE inflight' = [inflight EXCEPT ![s] = @ \ {u}] /\ UNCHANGED <<pc, refs>>
  /\ UNCHANGED <<lock, session, acc, buf, delivered, graceful, sweep, budgetVars>>

(* The outer await of a shielded update is cancelled.                      *)
AwaitCancelled(s) ==
  /\ pc[s] \in Teardown
  /\ Proceed(s, inflight[s])
  /\ UNCHANGED <<tableVars, lock, session, acc, buf, delivered, graceful,
                 sweep, budgetVars>>

(* Faulty: an error of an awaited update leaves the finally clause.        *)
UpdateFailsRaising(s, u) ==
  /\ u \in inflight[s]
  /\ Fault
  /\ inflight' = [inflight EXCEPT ![s] = @ \ {u}]
  /\ IF u \in Awaited(s) THEN Goto(s, "done") ELSE UNCHANGED pc
  /\ UNCHANGED <<tableVars, lock, refs, session, acc, buf, delivered, graceful, sweep>>

(* An update fails for good. The three of the teardown swallow the error;  *)
(* the abort of the watcher raises and closes the TaskGroup.               *)
UpdateFails(s, u) ==
  /\ u \in inflight[s]
  /\ Fault
  /\ CASE u \in Awaited(s) -> Proceed(s, inflight[s] \ {u}) /\ UNCHANGED buf
       [] u = "watch" /\ pc[s] \in InGroup ->
            BeginTeardown(s, inflight[s] \ {u}) /\ DropBuffer(s) /\ UNCHANGED refs
       [] OTHER -> /\ inflight' = [inflight EXCEPT ![s] = @ \ {u}]
                   /\ UNCHANGED <<pc, refs, buf>>
  /\ UNCHANGED <<tableVars, lock, session, acc, delivered, graceful, sweep>>

-----------------------------------------------------------------------------
(* The reaper: turns whose second commit is missing, then silent drafts.   *)

SweepTo(at, turns, label) == sweep' = [at |-> at, turns |-> turns, label |-> label]
ReaperOnly == UNCHANGED <<lock, refs, streamVars>>

(* Pending rows whose creation is long enough ago: any of them may be.     *)
SelectPending ==
  /\ sweep.at = "asleep"
  /\ \E P \in SUBSET {s \in Streams : rows[s].state = "pending_finalization"} :
       SweepTo("recover", P, {})
  /\ UNCHANGED <<rows, status, budgetVars>> /\ ReaperOnly

(* Only a row the reaper itself moved makes it label the session.          *)
RecoverPending ==
  /\ sweep.at = "recover" /\ sweep.label = {}
  /\ \E s \in sweep.turns :
       \/ /\ SetRow(s, FinalizePending(rows[s]))
          /\ SweepTo("recover", sweep.turns \ {s}, IF rows'[s] # rows[s] THEN {s} ELSE {})
          /\ UNCHANGED budgetVars
       \/ UNCHANGED rows /\ SweepTo("recover", sweep.turns \ {s}, {}) /\ Fault
  /\ UNCHANGED status /\ ReaperOnly

SelectStuck ==
  /\ sweep.at = "recover" /\ sweep.label = {} /\ sweep.turns = {}
  /\ SweepTo("stuck", {s \in Drafts : rows[s].age # "fresh"}, {})
  /\ UNCHANGED <<rows, status, budgetVars>> /\ ReaperOnly

(* All turns are of one chat: either it is active or it is not.            *)
SkipActive ==
  /\ sweep.at = "stuck"
  /\ SweepTo("flip", IF refs > 0 THEN {} ELSE sweep.turns, {})
  /\ UNCHANGED <<rows, status, budgetVars>> /\ ReaperOnly

(* Every session it selected is labelled, whether or not its draft was     *)
(* still one. A failed batch ends the tick.                                *)
FlipStuck ==
  /\ sweep.at = "flip"
  /\ \/ /\ rows' = [s \in Streams |-> IF s \in sweep.turns
                                      THEN Transition(rows[s], "draft", "final") ELSE rows[s]]
        /\ SweepTo("label", {}, sweep.turns)
        /\ UNCHANGED budgetVars
     \/ sweep.turns # {} /\ UNCHANGED rows /\ SweepTo("asleep", {}, {}) /\ Fault
  /\ UNCHANGED status /\ ReaperOnly

(* Faulty: only the row is settled.                                        *)
LabelNothing ==
  /\ sweep.label # {}
  /\ SweepTo(sweep.at, sweep.turns, {})
  /\ UNCHANGED <<rows, status, budgetVars>> /\ ReaperOnly

(* A transaction of its own for each session; its failure is logged.       *)
LabelAborted ==
  /\ \E s \in sweep.label :
       /\ SweepTo(sweep.at, sweep.turns, sweep.label \ {s})
       /\ \/ TransitionStatus(session[s], "aborted") /\ UNCHANGED budgetVars
          \/ UNCHANGED status /\ Fault
  /\ UNCHANGED rows /\ ReaperOnly

EndTick ==
  /\ sweep.at = "label" /\ sweep.label = {}
  /\ SweepTo("asleep", {}, {})
  /\ UNCHANGED <<rows, status, budgetVars>> /\ ReaperOnly

-----------------------------------------------------------------------------
(* The environment: time and restarts.                                     *)

(* Five minutes without a flush.                                           *)
GoQuiet(s) ==
  /\ rows[s].state = "draft" /\ rows[s].age = "fresh"
  /\ SetRow(s, [rows[s] EXCEPT !.age = "quiet"])
  /\ UNCHANGED <<status, lock, refs, streamVars, sweep, budgetVars>>

(* Everything but the two tables is process memory.                        *)
Restart ==
  /\ crashes < MaxCrashes
  /\ crashes' = crashes + 1
  /\ lock' = NoStream
  /\ refs' = 0
  /\ pc' = [s \in Streams |-> IF pc[s] = "waiting" THEN "waiting" ELSE "done"]
  /\ buf' = [s \in Streams |-> 0]
  /\ inflight' = [s \in Streams |-> {}]
  /\ sweep' = [at |-> "asleep", turns |-> {}, label |-> {}]
  /\ UNCHANGED <<tableVars, session, acc, delivered, graceful, faults>>

-----------------------------------------------------------------------------
(* Steps a stream takes by itself, with no client and no new content.      *)
StreamStep(s) ==
  \/ AcquireLock(s) \/ AssertNoSubSessionStreamInProgress(s) \/ CreateOrAppend(s)
  \/ MirrorDelta(s) \/ YieldComplete(s) \/ UpstreamFails(s)
  \/ OnSuccess(s) \/ FinalizeToPending(s) \/ CommitFinal(s) \/ SettleStatus(s)
  \/ \E u \in Update : UpdateLands(s, u)

StreamEvent(s) ==
  \/ CancelledEarly(s) \/ CreateFails(s)
  \/ Delta(s) \/ FlushDelta(s) \/ ReasoningDelta(s) \/ TouchActivity(s) \/ FinalizeFails(s)
  \/ WatchDisconnect(s) \/ Cancelled(s) \/ AwaitCancelled(s)
  \/ \E u \in Update : UpdateFails(s, u)

Reaper ==
  \/ SelectPending \/ RecoverPending
  \/ SelectStuck \/ SkipActive \/ FlipStuck
  \/ LabelAborted \/ EndTick

Next ==
  \/ \E s \in Streams : StreamStep(s) \/ StreamEvent(s) \/ GoQuiet(s)
  \/ Reaper
  \/ Restart

Spec == Init /\ [][Next]_vars

(* Every coroutine that can run is run; the idle timeout and the end of    *)
(* the upstream reply end each generation; the reaper ticks; time passes.  *)
Fairness ==
  /\ \A s \in Streams : WF_vars(StreamStep(s)) /\ WF_vars(GoQuiet(s))
  /\ WF_vars(Reaper)

FairSpec == Spec /\ Fairness

-----------------------------------------------------------------------------
(* Properties.                                                             *)

(* Every variable has its type, and a stream that is marked has a turn.    *)
TypeOK ==
  /\ rows \in [Streams -> Turn \cup {NoTurn}]
  /\ status \in [Sessions -> Status]
  /\ lock \in Streams \cup {NoStream}
  /\ refs \in Nat
  /\ pc \in [Streams -> Location]
  /\ session \in [Streams -> Sessions]
  /\ acc \in [Streams -> 0 .. MaxDeltas]
  /\ buf \in [Streams -> Nat]
  /\ delivered \in [Streams -> BOOLEAN]
  /\ graceful \in [Streams -> BOOLEAN]
  /\ inflight \in [Streams -> SUBSET Update]
  /\ sweep \in [at : {"asleep", "recover", "stuck", "flip", "label"},
                 turns : SUBSET Streams, label : SUBSET Streams]
  /\ faults \in 0 .. MaxFaults /\ crashes \in 0 .. MaxCrashes
  /\ \A s \in Streams :
       /\ pc[s] \in Marked \/ inflight[s] # {} => rows[s] # NoTurn
       /\ pc[s] = "mirroring" => acc[s] < MaxDeltas

(* D4: a chat has one active sub-session stream. Never are two of its      *)
(* turns drafts, although the lock covers the check and the insertion only *)
(* and a pending turn lets the next one in.                                *)
OneDraft == \A s, t \in Drafts : s = t

(* mark_inactive is reached on every exit, after any error of the three    *)
(* updates before it: the count is the number of running streams.          *)
MarkerPaired == refs = Cardinality({s \in Streams : pc[s] \in Marked})

(* A session is shown as complete only if the client of one of its turns   *)
(* took a complete answer: no teardown and no sweep makes it up (D9,       *)
(* "status = 'final' iff a graceful terminal was reached").                *)
FinalIsEarned ==
  \A x \in Sessions : status[x] = "final" =>
    \E s \in Streams : session[s] = x /\ delivered[s] /\ graceful[s]

(* The transcript of a chat's sub-sessions is a turn log in which an       *)
(* answer is complete from its first commit on. It is the log of the       *)
(* phases alone: a cancelled flush may leave a shorter text.               *)
PhaseName(state) ==
  CASE state = "draft" -> "open"
    [] state \in {"pending_finalization", "final"} -> "answered"
    [] OTHER -> "interrupted"
Phase(row) ==
  IF row.state = "absent" THEN [phase |-> "vacant"]
  ELSE [chat |-> "this", phase |-> PhaseName(row.state), text |-> 0, form |-> "raw"]

Transcript == INSTANCE TurnLog WITH
  Chats <- {"this"}, Slots <- Streams, MaxText <- 0,
  log <- [s \in Streams |-> Phase(rows[s])]
ImplementsTurnLog == Transcript!Spec

(* No session stays active for ever once nobody streams into it.           *)
SessionsSettle == \A x \in Sessions : status[x] = "active" ~> status[x] # "active"

=============================================================================
