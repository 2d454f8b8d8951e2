----------------------------- MODULE ChatStream -----------------------------
(***************************************************************************)
(* The life of a chat turn in lm-chat.                                     *)
(*                                                                         *)
(* A request handler (StreamingService.stream_chat, here a "stream")       *)
(* inserts a draft assistant row under the per-chat lock, fills it while   *)
(* the model generates, finalizes it in two transactions and tears down.   *)
(* It races with its own disconnect watcher, with database updates it left *)
(* in flight under asyncio.shield, with the background draft reaper, with  *)
(* handlers that delete history, with database errors and with a restart.  *)
(*                                                                         *)
(* A turn stands for the pair of rows stream_chat inserts in one           *)
(* transaction; only the assistant row has a life after that.              *)
(***************************************************************************)
EXTENDS RowState, FiniteSets

CONSTANTS
  Chats,       \* chats.id
  Streams,     \* calls of stream_chat; each serves one request
  NoStream,    \* the owner of a free chat lock
  ReuseIds,    \* TRUE on SQLite: a rowid is free again once the highest row is gone
  MaxTurns,    \* bound: highest message id
  MaxDeltas,   \* bound: content deltas of a turn
  MaxFaults,   \* bound: database writes that fail for good
  MaxCrashes,  \* bound: process restarts
  MaxDeletes   \* bound: history deletions by the user

ASSUME NoStreamAssumption == NoStream \notin Streams
ASSUME StreamsAssumption == IsFiniteSet(Streams)
ASSUME BoundsAssumption ==
  /\ ReuseIds \in BOOLEAN
  /\ MaxTurns \in Nat /\ MaxDeltas \in Nat
  /\ MaxFaults \in Nat /\ MaxCrashes \in Nat /\ MaxDeletes \in Nat

VARIABLES
  turns,       \* the messages table, by id
  lastId,      \* highest id ever handed out (a Postgres sequence)
  lock,        \* StreamingService._chat_locks: the holder of each chat's lock
  refs,        \* _ACTIVE_STREAM_REFCOUNTS
  pc,          \* where each stream is in stream_chat
  chat,        \* the chat_id of each stream
  msg,         \* the msg_id of each stream, 0 before the draft exists
  acc,         \* _state["acc_content"]: deltas received so far
  buf,         \* _CoalesceTimer._buf: those of them not yet on the row; empty once
               \* the generation is over, when nobody flushes it any more
  gone,        \* _state["disconnected"]
  completed,   \* _finalize_message returned True: post-finalize work is launched
  inflight,    \* shielded UPDATEs that have started and not yet committed
  sweep,       \* the reaper: its place in the tick and the rows it selected
  faults, crashes, deletes   \* how much of each bound is used

rowVars == <<turns, lastId>>
streamVars == <<pc, chat, msg, acc, buf, gone, completed, inflight>>
budgetVars == <<faults, crashes, deletes>>
vars == <<turns, lastId, lock, refs, pc, chat, msg, acc, buf, gone, completed,
          inflight, sweep, faults, crashes, deletes>>

Ids == 1 .. MaxTurns

(* A row: whose turn it is, its state, its content, and the age of its     *)
(* last activity: "quiet" is beyond the reaper's 5 minutes, "old" also     *)
(* created more than 24 hours ago.                                         *)
Turn == [chat : Chats, by : Streams, state : PersistState, text : Nat,
         form : ContentForm, age : {"fresh", "quiet", "old"}]
NoTurn == [state |-> "absent"]

(* The watcher's abort, the abort or release of the final teardown, and    *)
(* the backfill of an aborted row.                                         *)
Update == {"watch", "abort", "release", "salvage"}

(* The TaskGroup of stream_chat is open: watcher and persist body both run.*)
InGroup == {"generating", "finalizing", "committing", "epilogue"}
(* Its finally clause, up to mark_inactive.                                *)
Teardown == {"releasing", "salvaging"}
(* Between mark_active and mark_inactive.                                  *)
Marked == {"preparing"} \cup InGroup \cup Teardown
InLock == {"checking", "inserting"}
Location == {"waiting", "done"} \cup InLock \cup Marked

Exists(i) == turns[i].state # "absent"
InProgress(i) == turns[i].state \in {"draft", "pending_finalization"}
InProgressOf(c) == {i \in Ids : InProgress(i) /\ turns[i].chat = c}

-----------------------------------------------------------------------------
(* What each of the updates in flight may make of the row it addresses.    *)
UpdatedRow(s, u, row) ==
  CASE u \in {"watch", "abort"} -> {SafeAbortDraft(row)}
    [] u = "release" -> ReleaseDraft(row, acc[s])
    [] u = "salvage" -> {SalvageAborted(row, acc[s])}

-----------------------------------------------------------------------------
Init ==
  /\ turns = [i \in Ids |-> NoTurn]
  /\ lastId = 0
  /\ lock = [c \in Chats |-> NoStream]
  /\ refs = [c \in Chats |-> 0]
  /\ pc = [s \in Streams |-> "waiting"]
  /\ chat \in [Streams -> Chats]
  /\ msg = [s \in Streams |-> 0]
  /\ acc = [s \in Streams |-> 0]
  /\ buf = [s \in Streams |-> 0]
  /\ gone = [s \in Streams |-> FALSE]
  /\ completed = [s \in Streams |-> FALSE]
  /\ inflight = [s \in Streams |-> {}]
  /\ sweep = [at |-> "asleep", rows |-> {}]
  /\ faults = 0 /\ crashes = 0 /\ deletes = 0

Goto(s, to) == pc' = [pc EXCEPT ![s] = to]
Release(c) == lock' = [lock EXCEPT ![c] = NoStream]
Fault == faults < MaxFaults /\ faults' = faults + 1 /\ UNCHANGED <<crashes, deletes>>

(* Faulty: a set of active chats instead of a count.                       *)
MarkActiveOnce(c) == refs' = [refs EXCEPT ![c] = 1]

(* mark_active, mark_inactive and is_active.                               *)
MarkActive(c) == refs' = [refs EXCEPT ![c] = @ + 1]
MarkInactive(c) == refs' = [refs EXCEPT ![c] = IF @ <= 1 THEN 0 ELSE @ - 1]
IsActive(c) == refs[c] > 0

(* Faulty: the teardown does not ask why the turn ended.                   *)
AlwaysRelease(s) == "release"

(* The finally clause is entered: the cause of the teardown picks the      *)
(* update it starts under a shield.                                        *)
TeardownUpdate(s) == IF gone[s] THEN "abort" ELSE "release"
BeginTeardown(s, left) ==
  /\ inflight' = [inflight EXCEPT ![s] = left \cup {TeardownUpdate(s)}]
  /\ Goto(s, "releasing")

-----------------------------------------------------------------------------
(* Entering: the lock, the in-progress check, the draft.                   *)

AcquireLock(s) ==
  /\ pc[s] = "waiting"
  /\ lock[chat[s]] = NoStream
  /\ lock' = [lock EXCEPT ![chat[s]] = s]
  /\ Goto(s, "checking")
  /\ UNCHANGED <<rowVars, refs, chat, msg, acc, buf, gone, completed, inflight,
                 sweep, budgetVars>>

(* Faulty: the check overlooks a turn that waits for its second commit.    *)
AssertNoDraft(s) ==
  /\ pc[s] = "checking"
  /\ IF \A i \in InProgressOf(chat[s]) : turns[i].state # "draft"
     THEN Goto(s, "inserting") /\ UNCHANGED lock
     ELSE Goto(s, "done") /\ Release(chat[s])
  /\ UNCHANGED <<rowVars, refs, chat, msg, acc, buf, gone, completed, inflight,
                 sweep, budgetVars>>

(* StreamInProgressError: the route answers 409.                           *)
AssertNoInProgressStream(s) ==
  /\ pc[s] = "checking"
  /\ IF InProgressOf(chat[s]) = {}
     THEN Goto(s, "inserting") /\ UNCHANGED lock
     ELSE Goto(s, "done") /\ Release(chat[s])
  /\ UNCHANGED <<rowVars, refs, chat, msg, acc, buf, gone, completed, inflight,
                 sweep, budgetVars>>

(* Faulty: the first free id.                                              *)
FirstFreeId ==
  CHOOSE i \in 1 .. (MaxTurns + 1) :
    (i \in Ids => ~Exists(i)) /\ \A j \in 1 .. (i - 1) : Exists(j)

(* INTEGER PRIMARY KEY without AUTOINCREMENT takes the highest id in use   *)
(* plus one; a Postgres sequence never hands out an id twice.              *)
NextId ==
  IF ReuseIds
  THEN CHOOSE i \in 1 .. (MaxTurns + 1) :
         /\ \A j \in Ids : Exists(j) => j < i
         /\ i = 1 \/ Exists(i - 1)
  ELSE lastId + 1

InsertTurn(s) ==
  /\ NextId \in Ids
  /\ turns' = [turns EXCEPT ![NextId] = [chat |-> chat[s], by |-> s,
                 state |-> "draft", text |-> 0, form |-> "raw", age |-> "fresh"]]
  /\ lastId' = IF NextId > lastId THEN NextId ELSE lastId

(* _create_draft commits, the lock is released and the chat is marked      *)
(* active: nothing is awaited in between.                                  *)
CreateDraft(s) ==
  /\ pc[s] = "inserting"
  /\ InsertTurn(s)
  /\ msg' = [msg EXCEPT ![s] = NextId]
  /\ Goto(s, "preparing")
  /\ Release(chat[s])
  /\ MarkActive(chat[s])
  /\ UNCHANGED <<chat, acc, buf, gone, completed, inflight, sweep, budgetVars>>

(* Faulty: a cancelled request keeps the chat lock.                        *)
CancelledKeepingLock(s) ==
  /\ pc[s] \in {"waiting"} \cup InLock
  /\ Goto(s, "done")
  /\ UNCHANGED <<rowVars, lock, refs, chat, msg, acc, buf, gone, completed, inflight,
                 sweep, budgetVars>>

(* Faulty: the teardown covers a request that has no draft yet.            *)
CancelledIntoTeardown(s) ==
  /\ pc[s] \in {"waiting"} \cup InLock
  /\ BeginTeardown(s, {})
  /\ IF pc[s] = "waiting" THEN UNCHANGED lock ELSE Release(chat[s])
  /\ UNCHANGED <<rowVars, refs, chat, msg, acc, buf, gone, completed, sweep, budgetVars>>

(* The handler is cancelled before the teardown is armed: a draft whose    *)
(* INSERT has committed is left behind unmarked.                           *)
CancelledEarly(s) ==
  /\ pc[s] \in {"waiting"} \cup InLock
  /\ \/ pc[s] = "inserting" /\ InsertTurn(s)
     \/ UNCHANGED rowVars
  /\ Goto(s, "done")
  /\ IF pc[s] = "waiting" THEN UNCHANGED lock ELSE Release(chat[s])
  /\ UNCHANGED <<refs, chat, msg, acc, buf, gone, completed, inflight, sweep, budgetVars>>

CreateDraftFails(s) ==
  /\ pc[s] = "inserting"
  /\ Fault
  /\ Goto(s, "done")
  /\ Release(chat[s])
  /\ UNCHANGED <<rowVars, refs, chat, msg, acc, buf, gone, completed, inflight, sweep>>

-----------------------------------------------------------------------------
(* The turn itself.                                                        *)

(* Prompt assembly, provider and model resolution end in an upstream       *)
(* iterator, or in one of the early error frames.                          *)
Prepare(s) ==
  /\ pc[s] = "preparing"
  /\ \/ Goto(s, "generating") /\ UNCHANGED inflight
     \/ BeginTeardown(s, inflight[s])
  /\ UNCHANGED <<rowVars, lock, refs, chat, msg, acc, buf, gone, completed, sweep, budgetVars>>

(* Faulty: the buffer outlives the flush that wrote it.                    *)
FlushKeepingBuffer(s, n) ==
  /\ turns' = [turns EXCEPT ![msg[s]] = FlushDraft(@, n)]
  /\ buf' = [buf EXCEPT ![s] = n]

(* A flush that commits empties the buffer, whether or not the row was     *)
(* still a draft ...                                                       *)
Flush(s, n) ==
  /\ turns' = [turns EXCEPT ![msg[s]] = FlushDraft(@, n)]
  /\ buf' = [buf EXCEPT ![s] = 0]

(* ... and one that is not due, or that fails, keeps it for the next one.  *)
NoFlush(s, n) == UNCHANGED turns /\ buf' = [buf EXCEPT ![s] = n]

Delta(s) ==
  /\ pc[s] = "generating"
  /\ acc[s] < MaxDeltas
  /\ acc' = [acc EXCEPT ![s] = @ + 1]
  /\ Flush(s, buf[s] + 1) \/ NoFlush(s, buf[s] + 1)
  /\ UNCHANGED <<lastId, lock, refs, pc, chat, msg, gone, completed, inflight,
                 sweep, budgetVars>>

(* A reasoning.delta adds nothing to the content, but may flush the buffer.*)
ReasoningDelta(s) ==
  /\ pc[s] = "generating"
  /\ Flush(s, buf[s])
  /\ UNCHANGED <<lastId, lock, refs, pc, chat, msg, acc, gone, completed, inflight,
                 sweep, budgetVars>>

(* touch_activity on tool_call events.                                     *)
TouchActivity(s) ==
  /\ pc[s] = "generating"
  /\ turns[msg[s]].state = "draft" /\ turns[msg[s]].age # "fresh"
  /\ turns' = [turns EXCEPT ![msg[s]].age = "fresh"]
  /\ UNCHANGED <<lastId, lock, refs, streamVars, sweep, budgetVars>>

DropBuffer(s) == buf' = [buf EXCEPT ![s] = 0]

(* chat.end, or a cut tool loop: the watcher is silenced and the buffer    *)
(* flushed before finalization starts. The row is then given the terminal  *)
(* content made from all that was received.                                *)
ChatEnd(s) ==
  /\ pc[s] = "generating"
  /\ Flush(s, buf[s]) \/ (UNCHANGED turns /\ DropBuffer(s))
  /\ Goto(s, "finalizing")
  /\ UNCHANGED <<lastId, lock, refs, chat, msg, acc, gone, completed, inflight,
                 sweep, budgetVars>>

(* Any other end of the generation: an error event, an exhausted upstream, *)
(* an idle stall (in the body or by the dead-man hedge).                   *)
UpstreamFails(s) ==
  /\ pc[s] = "generating"
  /\ BeginTeardown(s, inflight[s])
  /\ DropBuffer(s)
  /\ UNCHANGED <<rowVars, lock, refs, chat, msg, acc, gone, completed, sweep, budgetVars>>

FinalizeToPending(s) ==
  /\ pc[s] = "finalizing"
  /\ turns' = [turns EXCEPT ![msg[s]] = ToPending(@, acc[s])]
  /\ IF turns[msg[s]].state = "draft"
     THEN Goto(s, "committing") /\ UNCHANGED inflight
     ELSE BeginTeardown(s, inflight[s])
  /\ UNCHANGED <<lastId, lock, refs, chat, msg, acc, buf, gone, completed, sweep, budgetVars>>

(* The second transaction; winning it launches memory indexing, token      *)
(* accounting and distillation.                                            *)
CommitFinal(s) ==
  /\ pc[s] = "committing"
  /\ turns' = [turns EXCEPT ![msg[s]] = FinalizePending(@)]
  /\ LET won == turns[msg[s]].state = "pending_finalization" IN
     /\ completed' = [completed EXCEPT ![s] = won]
     /\ IF won THEN Goto(s, "epilogue") /\ UNCHANGED inflight
               ELSE BeginTeardown(s, inflight[s])
  /\ UNCHANGED <<lastId, lock, refs, chat, msg, acc, buf, gone, sweep, budgetVars>>

FinalizeFails(s) ==
  /\ pc[s] \in {"finalizing", "committing"}
  /\ Fault
  /\ BeginTeardown(s, inflight[s])
  /\ UNCHANGED <<rowVars, lock, refs, chat, msg, acc, buf, gone, completed, sweep>>

(* Audit, follow-ups, the bounded wait for distillation.                   *)
Epilogue(s) ==
  /\ pc[s] = "epilogue"
  /\ BeginTeardown(s, inflight[s])
  /\ UNCHANGED <<rowVars, lock, refs, chat, msg, acc, buf, gone, completed, sweep, budgetVars>>

-----------------------------------------------------------------------------
(* Disconnect and teardown.                                                *)

(* The watcher records the cause, then starts a shielded abort.            *)
WatchDisconnect(s) ==
  /\ pc[s] \in InGroup
  /\ ~gone[s]
  /\ gone' = [gone EXCEPT ![s] = TRUE]
  /\ inflight' = [inflight EXCEPT ![s] = @ \cup {"watch"}]
  /\ UNCHANGED <<rowVars, lock, refs, pc, chat, msg, acc, buf, completed, sweep, budgetVars>>

(* GeneratorExit or a cancellation of the handler.                         *)
Cancelled(s) ==
  /\ pc[s] \in {"preparing"} \cup InGroup
  /\ BeginTeardown(s, inflight[s])
  /\ DropBuffer(s)
  /\ UNCHANGED <<rowVars, lock, refs, chat, msg, acc, gone, completed, sweep, budgetVars>>

Awaited(s) ==
  CASE pc[s] = "releasing" -> {"abort", "release"}
    [] pc[s] = "salvaging" -> {"salvage"}
    [] OTHER -> {}

(* What the handler does once an awaited update is over: it starts the     *)
(* backfill, and after that calls mark_inactive and returns.               *)
Proceed(s, left) ==
  IF pc[s] = "releasing"
  THEN /\ inflight' = [inflight EXCEPT ![s] = left \cup {"salvage"}]
       /\ Goto(s, "salvaging")
       /\ UNCHANGED refs
  ELSE /\ inflight' = [inflight EXCEPT ![s] = left]
       /\ Goto(s, "done")
       /\ MarkInactive(chat[s])

(* An update commits, whether or not its stream still waits for it.        *)
UpdateLands(s, u) ==
  /\ u \in inflight[s]
  /\ \E row \in UpdatedRow(s, u, turns[msg[s]]) : turns' = [turns EXCEPT ![msg[s]] = row]
  /\ IF u \in Awaited(s)
     THEN Proceed(s, inflight[s] \ {u})
     ELSE inflight' = [inflight EXCEPT ![s] = @ \ {u}] /\ UNCHANGED <<pc, refs>>
  /\ UNCHANGED <<lastId, lock, chat, msg, acc, buf, gone, completed, sweep, budgetVars>>

(* Faulty: the cancellation of the outer await is not swallowed.           *)
AwaitCancelledRaises(s) ==
  /\ pc[s] \in {"releasing", "salvaging"}
  /\ Goto(s, "done")
  /\ UNCHANGED <<rowVars, lock, refs, chat, msg, acc, buf, gone, completed, inflight,
                 sweep, budgetVars>>

(* The outer await of a shielded update is cancelled: the handler goes on, *)
(* the update stays in flight.                                             *)
AwaitCancelled(s) ==
  /\ pc[s] \in {"releasing", "salvaging"}
  /\ Proceed(s, inflight[s])
  /\ UNCHANGED <<rowVars, lock, chat, msg, acc, buf, gone, completed, sweep, budgetVars>>

(* An update fails for good. Release and salvage swallow the error; the    *)
(* abort raises: out of the watcher it closes the TaskGroup, out of the    *)
(* finally clause it skips the backfill and mark_inactive.                 *)
UpdateFails(s, u) ==
  /\ u \in inflight[s]
  /\ Fault
  /\ IF u \in Awaited(s) /\ u # "abort"
     THEN Proceed(s, inflight[s] \ {u}) /\ UNCHANGED buf
     ELSE /\ IF u = "watch" /\ pc[s] \in InGroup
             THEN BeginTeardown(s, inflight[s] \ {u}) /\ DropBuffer(s)
             ELSE /\ inflight' = [inflight EXCEPT ![s] = @ \ {u}]
                  /\ UNCHANGED buf
                  /\ IF u \in Awaited(s) THEN Goto(s, "done") ELSE UNCHANGED pc
          /\ UNCHANGED refs
  /\ UNCHANGED <<rowVars, lock, chat, msg, acc, gone, completed, sweep>>

-----------------------------------------------------------------------------
(* The reaper: one tick selects and handles stuck pending rows, stuck      *)
(* drafts and old drafts, in this order. A row is selected with its chat.  *)

WithChat(I) == {<<i, turns[i].chat>> : i \in I}
SweepTo(at, rows) == sweep' = [at |-> at, rows |-> rows]
ReaperOnly == UNCHANGED <<lastId, lock, refs, streamVars>>

(* Faulty: a row that waits for its second commit is nobody's business.    *)
SelectNoPending ==
  /\ sweep.at = "asleep"
  /\ SweepTo("recover", {})
  /\ UNCHANGED <<turns, budgetVars>> /\ ReaperOnly

SelectPending ==
  /\ sweep.at = "asleep"
  /\ SweepTo("recover", WithChat({i \in Ids : turns[i].state = "pending_finalization"}))
  /\ UNCHANGED <<turns, budgetVars>> /\ ReaperOnly

(* One finalize_pending per row; an error is logged and the loop goes on.  *)
RecoverPending ==
  /\ sweep.at = "recover"
  /\ \E r \in sweep.rows :
       /\ SweepTo("recover", sweep.rows \ {r})
       /\ \/ turns' = [turns EXCEPT ![r[1]] = FinalizePending(@)] /\ UNCHANGED budgetVars
          \/ UNCHANGED turns /\ Fault
  /\ ReaperOnly

SelectStuck ==
  /\ sweep.at = "recover" /\ sweep.rows = {}
  /\ SweepTo("stuck", WithChat({i \in Ids : turns[i].state = "draft" /\ turns[i].age # "fresh"}))
  /\ UNCHANGED <<turns, budgetVars>> /\ ReaperOnly

(* Rows of a chat with a running stream are skipped.                       *)
SkipActive ==
  /\ sweep.at = "stuck"
  /\ SweepTo("flip", {r \in sweep.rows : ~IsActive(r[2])})
  /\ UNCHANGED <<turns, budgetVars>> /\ ReaperOnly

SweptIds == {r[1] : r \in sweep.rows}

FlipStuck ==
  /\ sweep.at = "flip"
  /\ \/ /\ turns' = [i \in Ids |-> IF i \in SweptIds
                                   THEN Transition(turns[i], "draft", "final") ELSE turns[i]]
        /\ SweepTo("swept", {})
        /\ UNCHANGED budgetVars
     \/ sweep.rows # {} /\ UNCHANGED turns /\ SweepTo("asleep", {}) /\ Fault
  /\ ReaperOnly

SelectOld ==
  /\ sweep.at = "swept"
  /\ SweepTo("reap", WithChat({i \in Ids : turns[i].state = "draft" /\ turns[i].age = "old"}))
  /\ UNCHANGED <<turns, budgetVars>> /\ ReaperOnly

(* The DELETE names the ids it selected and no state.                      *)
DeleteOld ==
  /\ sweep.at = "reap"
  /\ SweepTo("asleep", {})
  /\ \/ /\ turns' = [i \in Ids |-> IF i \in SweptIds THEN NoTurn ELSE turns[i]]
        /\ UNCHANGED budgetVars
     \/ sweep.rows # {} /\ UNCHANGED turns /\ Fault
  /\ ReaperOnly

-----------------------------------------------------------------------------
(* The environment: time, the user's deletions, restarts.                  *)

(* Five minutes without a flush. A stream may well be that silent.         *)
GoQuiet(i) ==
  /\ turns[i].state = "draft" /\ turns[i].age = "fresh"
  /\ turns' = [turns EXCEPT ![i].age = "quiet"]
  /\ UNCHANGED <<lastId, lock, refs, streamVars, sweep, budgetVars>>

(* A whole day: no generation and no update lasts that long.               *)
GoOld(i) ==
  /\ turns[i].state = "draft" /\ turns[i].age = "quiet"
  /\ \A s \in Streams : msg[s] = i => pc[s] = "done" /\ inflight[s] = {}
  /\ turns' = [turns EXCEPT ![i].age = "old"]
  /\ UNCHANGED <<lastId, lock, refs, streamVars, sweep, budgetVars>>

Remove(D) == turns' = [j \in Ids |-> IF j \in D THEN NoTurn ELSE turns[j]]
Deletion ==
  /\ deletes < MaxDeletes
  /\ deletes' = deletes + 1
  /\ UNCHANGED <<lastId, lock, refs, streamVars, sweep, faults, crashes>>

(* DELETE of one message takes the chat lock, and looks at no state.       *)
DeleteMessage(i) ==
  /\ Exists(i) /\ lock[turns[i].chat] = NoStream
  /\ Remove({i}) /\ Deletion

(* Regenerate and resend delete a turn and everything after it. They take  *)
(* no lock.                                                                *)
DeleteOnward(i) ==
  /\ Exists(i)
  /\ Remove({j \in Ids : Exists(j) /\ turns[j].chat = turns[i].chat /\ j >= i})
  /\ Deletion

(* /clear takes the lock.                                                  *)
ClearMessages(c) ==
  /\ lock[c] = NoStream
  /\ Remove({j \in Ids : Exists(j) /\ turns[j].chat = c})
  /\ Deletion

(* Everything but the table is process memory.                             *)
Restart ==
  /\ crashes < MaxCrashes
  /\ crashes' = crashes + 1
  /\ lock' = [c \in Chats |-> NoStream]
  /\ refs' = [c \in Chats |-> 0]
  /\ pc' = [s \in Streams |-> IF pc[s] = "waiting" THEN "waiting" ELSE "done"]
  /\ buf' = [s \in Streams |-> 0]
  /\ inflight' = [s \in Streams |-> {}]
  /\ sweep' = [at |-> "asleep", rows |-> {}]
  /\ UNCHANGED <<rowVars, chat, msg, acc, gone, completed, faults, deletes>>

-----------------------------------------------------------------------------
(* Steps a stream takes by itself, with no client and no new content.      *)
StreamStep(s) ==
  \/ AcquireLock(s) \/ AssertNoInProgressStream(s) \/ CreateDraft(s)
  \/ Prepare(s) \/ ChatEnd(s) \/ UpstreamFails(s)
  \/ FinalizeToPending(s) \/ CommitFinal(s) \/ Epilogue(s)
  \/ \E u \in Update : UpdateLands(s, u)

StreamEvent(s) ==
  \/ CancelledEarly(s) \/ CreateDraftFails(s)
  \/ Delta(s) \/ ReasoningDelta(s) \/ TouchActivity(s) \/ FinalizeFails(s)
  \/ WatchDisconnect(s) \/ Cancelled(s) \/ AwaitCancelled(s)
  \/ \E u \in Update : UpdateFails(s, u)

Reaper ==
  \/ SelectPending \/ RecoverPending
  \/ SelectStuck \/ SkipActive \/ FlipStuck
  \/ SelectOld \/ DeleteOld

Environment ==
  \/ \E i \in Ids : GoQuiet(i) \/ GoOld(i) \/ DeleteMessage(i) \/ DeleteOnward(i)
  \/ \E c \in Chats : ClearMessages(c)
  \/ Restart

Next ==
  \/ \E s \in Streams : StreamStep(s) \/ StreamEvent(s)
  \/ Reaper
  \/ Environment

Spec == Init /\ [][Next]_vars

(* Every coroutine that can run is run; the idle timeout and the end of    *)
(* the upstream reply end each generation; the reaper ticks; time passes.  *)
Fairness ==
  /\ \A s \in Streams : WF_vars(StreamStep(s))
  /\ WF_vars(Reaper)
  /\ \A i \in Ids : WF_vars(GoQuiet(i)) /\ WF_vars(GoOld(i))

FairSpec == Spec /\ Fairness

-----------------------------------------------------------------------------
(* Properties.                                                             *)

(* Every variable has its type, and a stream that has a marker has a turn. *)
TypeOK ==
  /\ turns \in [Ids -> Turn \cup {NoTurn}]
  /\ lastId \in 0 .. MaxTurns
  /\ lock \in [Chats -> Streams \cup {NoStream}]
  /\ refs \in [Chats -> Nat]
  /\ pc \in [Streams -> Location]
  /\ chat \in [Streams -> Chats]
  /\ msg \in [Streams -> 0 .. MaxTurns]
  /\ acc \in [Streams -> 0 .. MaxDeltas]
  /\ buf \in [Streams -> Nat]
  /\ gone \in [Streams -> BOOLEAN]
  /\ completed \in [Streams -> BOOLEAN]
  /\ inflight \in [Streams -> SUBSET Update]
  /\ sweep \in [at : {"asleep", "recover", "stuck", "flip", "swept", "reap"},
                 rows : SUBSET (Ids \X Chats)]
  /\ faults \in 0 .. MaxFaults /\ crashes \in 0 .. MaxCrashes
  /\ deletes \in 0 .. MaxDeletes
  /\ \A s \in Streams : pc[s] \in Marked \/ inflight[s] # {} => msg[s] \in Ids

(* One turn at a time: a chat never has two rows in progress, whichever    *)
(* way handlers, cancellations, the reaper and restarts interleave. The    *)
(* lock and _assert_no_in_progress_stream are there for this alone.        *)
SingleInProgress ==
  \A c \in Chats : \A i, j \in InProgressOf(c) : i = j

(* The reaper never finalizes the draft of a stream that is still          *)
(* generating into it, however silent the stream has been: what the        *)
(* active-stream registry promises the 5-minute sweep.                     *)
Generating(s) == pc[s] \in {"preparing", "generating"}
LiveDraftNotReaped ==
  [][\A s \in Streams :
       Generating(s) /\ turns[msg[s]].state = "draft" => turns'[msg[s]].state # "final"]_vars

(* Once a stream knows that its client is gone, its draft is not passed    *)
(* off as a finished answer while the stream is still tearing down: the    *)
(* cause of the teardown decides, not which of two UPDATEs comes first.    *)
DisconnectNeverFinal ==
  [][\A s \in Streams :
       /\ gone[s] /\ pc[s] # "done"
       /\ turns[msg[s]].state = "draft"
       => turns'[msg[s]].state # "final"]_vars

(* What is committed as finished is made from the whole answer: the        *)
(* content of a pending row, which the reaper may finalize after a crash,  *)
(* and of the row of a turn whose post-finalize work runs, is the terminal *)
(* one, made from every delta the stream received, whichever of them had   *)
(* reached the row by a flush.                                             *)
MadeFrom(row, n) == row.form = "terminal" /\ row.text = n
FinishedTurnComplete ==
  /\ \A i \in Ids : turns[i].state = "pending_finalization" =>
       MadeFrom(turns[i], acc[turns[i].by])
  /\ \A s \in Streams : completed[s] /\ Exists(msg[s]) =>
       turns[msg[s]].state = "final" /\ MadeFrom(turns[msg[s]], acc[s])

(* A stream that can still write, and an update it left in flight, address *)
(* the row of their own turn: message_service relies on it, "messages.id   *)
(* is a global autoincrement PK".                                          *)
OwnTurn ==
  \A s \in Streams :
    /\ pc[s] \in Marked \/ inflight[s] # {}
    /\ Exists(msg[s])
    => turns[msg[s]].by = s

(* The marker is set up once and torn down exactly once for every exit of  *)
(* stream_chat: the count of a chat is the number of streams between       *)
(* mark_active and mark_inactive.                                          *)
MarkerPaired ==
  \A c \in Chats :
    refs[c] = Cardinality({s \in Streams : chat[s] = c /\ pc[s] \in Marked})

(* The detailed life of a row implements the abstract history: a pending   *)
(* row is still open, and nothing but the user removes a turn that is over *)
(* ("assistant history is immutable", message_service.edit).               *)
PhaseName(state) ==
  CASE state \in {"draft", "pending_finalization"} -> "open"
    [] state = "final" -> "answered"
    [] OTHER -> "interrupted"
Phase(row) ==
  IF row.state = "absent" THEN [phase |-> "vacant"]
  ELSE [chat |-> row.chat, phase |-> PhaseName(row.state), text |-> row.text, form |-> row.form]

History == INSTANCE TurnLog WITH
  Slots <- Ids, MaxText <- MaxDeltas, log <- [i \in Ids |-> Phase(turns[i])]
ImplementsTurnLog == History!Spec

(* No row stays in progress for ever: a chat is never locked out of new    *)
(* turns, whatever failed, crashed or was cancelled on the way.            *)
TurnsSettle == \A i \in Ids : InProgress(i) ~> ~InProgress(i)

(* Every request gets through the lock and ends.                           *)
RequestsEnd == \A s \in Streams : pc[s] = "waiting" ~> pc[s] = "done"

=============================================================================
