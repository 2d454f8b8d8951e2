# Verification of lm-chat

TLA+ models of lm-chat (the server `src/src/lmchat` and the chat page of
`src/web`), checked with TLC and proved with TLAPS. The models are
read off the source; `PROJECT.json` maps every definition that models code to the
lines it stands for.

## 1. The system

lm-chat is a single-process FastAPI server over SQLite (or Postgres) with a
single-page client. One asyncio event loop runs every request, so two pieces of
code interleave only at an `await`. What makes the system hard is that nearly
every `await` is a database transaction or a network read, that a request may be
cancelled at any of them, and that database updates started under
`asyncio.shield` go on after the code that waited for them is gone. The client is
single-threaded too: it interleaves at events, and React runs the effects of one
render one after the other, each with what was rendered.

| Part | State it keeps | Operations | Talks to |
|---|---|---|---|
| Chat turn (`services/streaming_service.py`, `_stream_state.py`, `_active_streams.py`) | rows of `messages` with a state (draft, pending_finalization, final, aborted_by_client), a lock per chat, a count of streams per chat, the buffers of a stream | `stream_chat`: admit, insert the draft, generate with coalesced flushes, finalize in two commits, watch the client, tear down | upstream client, reaper (rows and registry), memory, quota |
| Events of a turn (`lmstudio_streaming_client.py`, `_run_persist_and_yield`, `_sub_session_core`, `substance_fold.py`) | recent calls and failure streaks of a stream, the text, reasoning, tool cards and counts of a turn | read events, detect loops, retry without tools, cut, ask why a stream ended, choose what is kept | upstream client, chat turn, sub-session |
| Reaper (`_stream_reaper.py`, started by `app.py`) | nothing of its own | a tick every 60 s: settle stuck pending rows, finalize drafts silent for 5 minutes unless their chat is active, delete drafts of 24 hours, then the same for sub-sessions | rows, registry |
| Sub-sessions (`routes/chats.py`, `_sub_session_sse`) | `sub_sessions.status`, rows of `sub_session_messages`, a lock per chat | create or reopen, stream, settle row and status, tear down | upstream, reaper, the same registry |
| Message history and compaction (`message_service.py`, `chat_service.py`) | `messages` with the span that archives each, `compactions` | append, edit, delete, regenerate, resend, compact under the chat lock, clear, fork | chat turn, upstream (the summaries), memory |
| Chat administration (`chat_service.py`) | `chats`, folders, the chat locks | delete, incognito, archive | chat turn (lock), memory |
| Agentic tool loop (`mcp/agentic.py`, `lmstudio/compat.py`) | the transcript of a turn, the decoder's open call, the cards of the client | rounds: decode a reply, run the calls, append, ask again | upstream, MCP host |
| MCP host (`mcp/host.py`, `routes/mcp_store.py`) | configurations, one session task per connected server, futures of calls, locks | connect, call, disconnect, reap, shut down; install, enable, disable, delete | server processes, tool loop |
| LM Studio adapter (`services/lmstudio_adapter.py`, `params_service.py`) | the parameters a model refused | POST, learn a refusal and retry, drop a plugin and retry, degrade | upstream |
| Models, settings, client (`routes/lm_studio_settings.py`, `lm_studio_overrides_service.py`, `models_service.py`, `provider_registry.py`) | the stored URL and key, the HTTP client, the catalog cache, a flag for a refused key, locks | save with probe and rewire, fetch the catalog, probe again | every service that calls upstream |
| Authentication (`auth_service.py`, `session/`, `routes/auth.py`) | `users.password_hash`, `sessions`, a lock per account, invites | log in, rotate, change the password, log out, register | every route |
| Rate limit, quota (`middleware/`, `quota_service.py`) | buckets in memory, `quotas`, `quota_usage` | consume, evict, refill, count, charge | every route, chat turn |
| Memory (`memory_service.py`) | `memory_insights` and their history, `message_embeddings` | pin, distil, edit, refine, restore; index, reindex, delete | chat turn, embedding server |
| Documents (`documents_service.py`) | `documents`, `document_chunks`, the pin of a project on an embedding model | upload, move, re-embed, delete | embedding server, models |
| Chat page (`web/src`: `stores/streamStore.ts`, `components/Composer.tsx`, `pages/Chat.tsx`, `hooks/useStoppedStreamReconciliation.ts`) | a stream slot and a connection per chat, the queue of messages, the optimistic bubble, cached lists, a poll | send, queue, drain, Stop, switch chats, reconcile with the rows | chat turn (SSE), message lists |
| Background work, retrieval, wire formats, A/B compare, projects, prompts, sharing, analytics, web search, schema | their rows, or none | single-transaction reads and writes, calls to other services | - |

What makes each of the parts correct:

- *Chat turn*: one turn in progress per chat; what is committed as finished is made
  from everything that was received, and stays as it is; a turn whose client left is
  not labelled as finished by its own teardown; a row is written by its own stream
  only; every turn settles whatever fails; the registry counts exactly the running
  streams.
- *Events of a turn*: a tool loop is cut when it is one and only then; the client is
  told once, and truthfully, how the turn ended; neither markup nor reasoning about
  tools is passed off as the answer.
- *Reaper*: settles everything that is abandoned and nothing that is alive.
- *Sub-sessions*: one draft per chat; a session is final only when a client took
  a complete answer; it does not stay active.
- *History*: a message leaves what the model is told only for a summary that tells
  of it; no message is summarised twice; summaries stand where the messages were.
- *Tool loop*: each call has its own arguments and its own result; every card the
  user sees is closed; a turn ends with one terminal frame.
- *MCP host*: a session has an owner or a reaper; a call is answered or its
  session is being stopped; no client waits for ever.
- *Adapter*: what a model refused is not sent to it again within the turn.
- *Models and client*: after a save, catalog, key flag and providers all follow
  the new client, and no service is left with a closed one.
- *Authentication*: at most one session per account in single-session mode; a
  login that was verified gets a session; of two password changes from the same
  hash one wins; every administrator is the first account or has spent an invite.
- *Rate limit, quota*: forgetting buckets is never visible; no day's counters pass
  the limit.
- *Memory, documents*: the cap on distilled facts holds; a message keeps a vector
  through a reindex; vectors are of the model the project is pinned to; an upload
  that could not be embedded is undone, so that it does not answer later uploads.
- *Chat page*: one chat's events do not cut another's reply; a stopped reply keeps
  what was on screen; nothing on the page waits for ever.

The hard behaviours of this code, each at its line, are the list `hazards` of
`PROJECT.json`.

## 2. Modules

| Module | What it is |
|---|---|
| `RowState` | the row states and the guarded UPDATEs both tables share: `transition`, `safe_abort_draft`, `finalize_pending`, the first finalization commit, release, backfill, flush |
| `TurnLog` | abstract specification: what a chat history promises to its readers |
| `ChatStream` | `stream_chat`, its watcher, its teardown, the reaper's sweeps of `messages`, deletions of history, restarts; implements `TurnLog` |
| `SubSession` | `_sub_session_sse` with `_on_success`, watcher, teardown, the reaper's sweeps of the sub-session tables; its rows implement `TurnLog` |
| `TurnPump` | the events of one turn: the streaming client's detectors and the loops of a chat and of a sub-session that read it |
| `History` | turns as the model is told of them, compaction, deletion, regenerate, clear, fork |
| `ToolLoop` | the rounds of the tool loop over the decoder of chat-completion deltas |
| `Adapter` | `stream_chat` of the LM Studio adapter with its retries |
| `McpHost` | connections, calls, administration and death of MCP servers |
| `ModelCatalog` | saving the server's settings, rewiring the client, the catalog cache and its probes, the provider registry |
| `TokenBuckets` | abstract specification: buckets that are never forgotten |
| `LoginLimit` | the login limiter over the in-memory store that evicts; implements `TokenBuckets` |
| `AuthSession` | logins, password changes, logouts and expiry of one account |
| `Registration` | the first account, invites |
| `Quota` | the daily budget of one user, across midnight |
| `Insights` | pinned and distilled facts, their cap, refinement and restoration |
| `Embeddings` | the vectors of messages and reindexing |
| `Documents` | uploads, dedup, the pin on an embedding model, moves, re-embedding |
| `ChatPage` | the chat page of the web client against the server's rows |
| `ChatStream_proofs` | theorems: types and single progress of a chat |
| `ChatStreamHistory_proofs` | theorems: locks, markers, ownership, the reaper, whole and frozen replies, `ChatStream` implements `TurnLog` |
| `SubSession_proofs` | theorems: `SubSession`, up to its rows implementing `TurnLog` |
| `AuthSession_proofs`, `LoginLimit_proofs` | theorems: sessions and password changes; the limiter implements `TokenBuckets` |
| `Client_proofs` | theorems: `Registration`, `Quota`, `ChatPage` |
| `Knowledge_proofs` | theorems: `History`, `Insights`, `Embeddings`, `Documents`, and their composition |
| `Upstream_proofs` | theorems: `TurnPump`, `ToolLoop`, `Adapter`, `McpHost`, `ModelCatalog`, and their composition |
| `MCChatStream`, `MCSubSession` | symmetry sets and constraints |
| `MCTurnsLive` | `ChatStream` and `SubSession` for liveness |
| `MCClient` | `LoginLimit`, `AuthSession`, `Registration`, `Quota`, `ChatPage` |
| `MCUpstream` | `TurnPump`, `ToolLoop`, `Adapter`, `McpHost`, `ModelCatalog` |
| `MCKnowledge` | `History`, `Insights`, `Embeddings`, `Documents` |

The modules an `MC` module brings together share no state in the code (other than
through what each of them leaves open, such as when a turn begins). A behaviour
of such an instance therefore explores *one* part, chosen at the start by the
variable `part`, while the others stay where they start: the interleavings of
independent parts would only multiply states. Where parts do interact the
interaction is inside one module: reaper, teardown and deletions in `ChatStream`;
compaction, fork and turns in `History`; administration and callers in `McpHost`;
rewire, probes and registry in `ModelCatalog`; page and server rows in `ChatPage`.

### How the state corresponds to the code

**`ChatStream`**: `turns` is the `messages` table restricted to assistant rows (the
user row is inserted in the same transaction and has no life of its own); `lock`
is `_chat_locks`; `refs` is `_ACTIVE_STREAM_REFCOUNTS`; `pc[s]` is the place of a
call of `stream_chat`, between two awaits; `acc` and `gone` are
`_state["acc_content"]` and `_state["disconnected"]`; `inflight[s]` holds the
shielded updates of a stream that have started and not committed; `sweep` is the
reaper between two of its transactions; `buf[s]` is the buffer of the flush timer.
The content of a row has a form and a text. A *raw* content is the deltas themselves,
and its text is their number: flushes append to it and the backfill replaces it by
`acc_content`. A *terminal* content is what the finalization or the release writes:
`recover_xml_tool_calls` and `resolve_terminal_content` may strip leaked tool calls
from the reply, add a note, or store a notice or the reasoning instead
(`streaming_service.py:5335`, 858, 3788). Its text is the number of deltas it was made
*from*; which of these contents it is, and so whether it still begins with what was
saved before, is not modelled here (`TurnPump` has the choice). The age of a
row stands for the reaper's two thresholds: *fresh*, *quiet* (more than five
minutes since the last flush) and *old* (a day). It is only asked of drafts.

Each action is the code from one await to the next. `CreateDraft` for example is
the commit of `_create_draft`, the release of the lock and `mark_active`, between
which nothing is awaited. A cancellation can hit every await: before the teardown
is armed (`CancelledEarly`, where the INSERT may have committed or not), in the
TaskGroup (`Cancelled`), and in the teardown (`AwaitCancelled`, which leaves the
shielded update in flight). An update that fails for good (`UpdateFails`,
`FinalizeFails`, `CreateDraftFails`) is one whose retry budget in `db/retry.py` is
exhausted, or that failed with another error. A flush appends the buffer and empties
it when it commits, even if the row was no draft any more (`Flush`); one that is not due
and one that fails are the same step, which keeps the buffer (`NoFlush`). What is still
in it when the generation ends is dropped, since the terminal write does not need it.
The deletion of one message takes the chat lock for its own transaction
(`routes/messages.py:183`), `DeleteMessage`; regenerating and resending, which delete a
message and all that follow it, take none (`DeleteOnward`). Neither looks at the state.

Simplifications: prompt assembly, provider and model resolution and quality modes
are the one step `Prepare`; error events, exhausted upstream and idle timeout are
the one step `UpstreamFails`; a cut tool loop ends like
`chat.end` (`TurnPump` looks inside of these); a reaper whose
stuck selection is empty goes through its remaining steps with an empty set. The
reaper asks pending rows for their *creation* time; since the duration of a turn
is not modelled, any pending row may be selected.

**`SubSession`** follows the same scheme. Three differences of the code matter and
are kept: only a draft (not a pending row) refuses the next request, nothing
records that the client is gone, and all three updates of the teardown swallow
their errors. The terminal frame is yielded before success is recorded
(`YieldComplete`, `OnSuccess`), and a delta that is flushed is mirrored for the
teardown only after the flush (`FlushDelta`, `MirrorDelta`). A session's status is
a row of its own, so every label is a transaction of its own, also in the reaper
(`LabelAborted`). All turns belong to one chat: lock and registry are those of
that chat, and the main chat's streams, which share the registry, are not in this
module. `delivered` and `graceful` are history: that the client took the terminal
frame, and that it was that of a complete answer.

**`TurnPump`**: `detector` is `recent_calls` and `failure_streaks` of
`LmstudioStreamingClient.stream`, `pump` the accumulators of the loop that reads
it, `open` the call that has begun, `sent` the warnings and terminal frames,
`ending` the decision of `resolve_terminal_content` with what led to it, `kept`
what the finalization stored. `asked` says whether the turn is a chat's or a
sub-session's, whether LM Studio's native surface answers, and whether tools are
offered. A text is the set of the kinds of text in it (noise without a letter,
leaked markup of tool calls, an answer); reasoning is there once it is long enough
to stand for an answer. The start, name and arguments of a call are one step:
nothing is decided between them. A detector's warning comes before the end it is
about, and a chat that cuts at it never reads that end (`CutEarly`). The counter of
rounds across turns, memory, titles and follow-ups are left out; what an error or
a stall does to the row is in `ChatStream` and `SubSession`.

**`History`**: `row`, `span` and `summary` are the rows of `messages`, the
`compaction_id` of each and the rows of `compactions`, whose text is the set of
messages it tells of; `lock` is the chat lock as compactions use it; `work[c]` is a
compaction between two awaits with the rows it read and the runs it chose;
`resend` is a regenerate between its two transactions; `fork` is the copy. A turn
is two ids, the user's and the answer's. Which rows fall out of the token budget
is left open (any runs of consecutive remembered rows may be chosen). Ids of
messages and spans are not used again here: what id reuse does is the subject of
`ChatStream` (`ReuseIds`) and `Embeddings`.

**`ToolLoop`**: `decoder` is `_CompatDecoderState`, `building` the call the loop
collects (`_pending_id`, `_pending_name`, `_pending_args`), `gathered` and
`captured` the calls of the round, `working` what was appended to the history,
`cards` and `frames` what the client was sent. Payloads may be cut in two
(`MaxCut`), calls come with or without id and name (`Anonymous`), and a reply has
several calls, whose deltas interleave in any way. The decoder keeps a buffer per
index, but the loop builds one call at a time, so that arguments which arrive while
another call is being built are given to that one (section 6). `crossed` is a history
variable that records that this has happened. Approval and the text of results are
left out.

**`Adapter`**: a `turn` is one `stream_chat` with what its next request sends;
`rejected` is the cache of the model's refused parameters, which other turns share
and which may be forgotten (`MaxForgets`: its expiry). Parameters and plugins are
small sets; which are refused, denied or dead is a constant of the instance.

**`McpHost`**: `pool`, `configs`, `connLock`, `failure` are the host's dictionaries;
`session[i]` a session task with its queue, its ready future and what it serves;
`client[c]` a turn that connects and calls, `answer[c]` its future; `admin[a]` a
request to the store. A session may be killed in its handshake, a server process
may die, a client may be cancelled, the process may restart. `refresh_tools`,
which nothing in `src/` calls, is left out.

**`ModelCatalog`**: a client is named by the save that made it, so `cache`, `flag`,
`registry` and `closing` tell which client each service follows; `rewirers` is the
rewire lock with its waiters, `cacheLock` the lock of the cache, `probe` and
`inFlight` the probers and the single forced re-probe.

**`LoginLimit`**: time is in ticks, credit is counted in ticks too (a token costs
`Price` ticks), so no fractions are needed. `level` and `seen` are a bucket's
tokens and `last_seen`. No await of the limiter really suspends, so an attempt is
one step.

**`AuthSession`**: `stored` is the password row (of which password, at an outdated
cost or not, with its salt, which makes two hashes of one password differ);
`sessions` the state of each token; `login`, `change` each request between two
awaits with the row it read. A login whose hash is outdated is rehashed before its
TOTP code is asked for, as in `login`, so that a refused code leaves the new hash.
**`Registration`**: `users` with the admin flag, `spent` invites, `request` between
two awaits. The COUNT and the INSERT of `register` are two steps of one transaction.
`OneWriter` says whether that transaction takes the write lock first: it does on
SQLite only (`auth_service.py:304`). **`Quota`**: `usage` per day,
`limit`, and `ceiling` and `admitted` as history.

**`Insights`**: a text is an element of a set of normalised texts, present once; a
saver reads, inserts, then fades what it found over the cap. Near duplicates
(numeric similarity) are the nondeterministic choice to skip. **`Embeddings`**: a
vector is the pair of the model and the text it was made of; ids follow SQLite.
Incognito chats are left out. **`Documents`**: an upload is its own document id; one
vector stands for all chunks of a document; `label` is
`document_chunks.embedding_model_id`. A file in `Blank` is white space only: it has no
chunks and its upload succeeds. The soft delete that undoes a failed upload may fail
itself (`UndoFails`), which leaves the row (`left`). Re-embedding reads the chunks of a
document, waits for the embedding and updates them by their ids (`ReadChunks`,
`WriteVectors`). Ids of chunks are never used again, which is what Postgres does; on
SQLite the ids of chunks deleted in between could have been given to other chunks,
which would then get these vectors. That is not modelled.

**`ChatPage`**: `turns` is the server's side of each message; `page` is one record
because an event handler and the effects it causes are one step: `Event` renders
and, through `Effects`, runs the effects in the order of their declaration until nothing
changes. `slot` and `conn` are the stream store's, `queue` the Composer's, `stopped`
its Stop mark, `pending` the optimistic bubble with its baseline, `list` and `get`
the query cache and the request in flight, `poll` the reconciliation after Stop.
Both chats have been opened before, so that their lists are cached. Left out:
frames after `chat.end` (follow-ups, memory), failed list requests, retry,
regenerate and edit, other tabs, several frames in one chunk, renders for other
reasons than those modelled, and the instant between the two commits of a
finalization.

## 3. Runs

States are distinct states; every run ends within a minute and a half with two workers.

| Run | Instance | What it shows |
|---|---|---|
| `chat_faults` | 1 chat, 2 requests, 1 delta, 1 failing write, 1 restart, 3 updates in flight, ids used again as on SQLite, nothing deleted (1.5 million states) | `TypeOK`, `SingleInProgress`, `LiveDraftNotReaped`, `DisconnectNeverFinal`, `ImplementsTurnLog` |
| `chat_restart` | 2 requests, 1 delta, 1 restart, 1 deletion, ids never used again as on Postgres (2.8 million) | `MarkerPaired`, `FinishedTurnComplete`, `OwnTurn` |
| `sub_faults` | 1 session, 2 turns, a failing write or a restart, 3 updates in flight (1.4 million) | `OneDraft`, `MarkerPaired`, `FinalIsEarned`, `ImplementsTurnLog` |
| `turns_live` | 2 requests for one chat without failures, or 1 with two failing writes and a restart, or 1 turn of a sub-session (0.1 million) | liveness: `TurnsSettle`, `ExploredRequestsEnd`, `SessionsSettle` |
| `client` | one of: 1 address with 1 account at the limiter; 2 logins and 2 password changes, 3 of the 4 in a behaviour; 3 registrations with 1 invite on SQLite; 3 requests and 2 turns over 2 days; 2 chats and 2 messages on the page (0.2 million) | `SingleSession`, `ChangesSerialised`, `AdminsAccountedFor`, `DailyBudgetKept`, `EvictionInvisible` (a refinement), `OthersGoOn`, `StoppedTextKept`; liveness `VerifiedLoginsGetSession`, `PageMovesOn` |
| `upstream` | one of: a turn with 1 tool and 2 kinds of arguments that is cut at more than 3 calls, 3 failures in a row, 2 repetitions within 2 calls or 2 further identical ones; 2 rounds of 2 calls that interleave; 2 turns with 2 parameters and 2 plugins; 2 callers and 1 admin of a server with 2 sessions, a death, a cancellation and a restart; 2 saves, a reader and a forced probe of the catalog (3.0 million) | `OnlyLoopsAreCut`, `EndIsTruthful`, `TranscriptFaithful`, `ShownIsSettled`, `RefusedStaysOut`, `NobodyForgotten`, `ServicesFollowClient`, `UpstreamTypesOK` |
| `upstream_live` | the MCP host without a restart, or two saves (0.1 million) | liveness: `RequestsEnd` |
| `knowledge` | one of: 3 turns, 2 compactions, 1 deletion, a fork; 3 rows of insights with 2 savers; 2 messages with 2 reindexings and 2 writers; 2 uploads of a file to 2 projects with a swap of the model, a stop, a failed undo or a blank file (1.5 million) | `SummariesInPlace`, `NothingForgotten`, `AutoCapKept`, `VectorKept`, `UploadedUnderPin`, `NoDeadDocument`, `KnowledgeTypesOK` |
| `chat_reuse`, `login_answered`, `docs_labels`, `page_shown` | the smallest instances that show it | a statement of the repository that the code does not keep, section 6 |

Why these bounds are enough for what they are used for. Chats share nothing but
the reaper, so a second chat adds only interleavings to `ChatStream`. Two requests
are the smallest number that competes for a lock, overlaps a teardown with a new
turn or reuses an id; two sessions, saves, compactions and uploads likewise. Three
registrations are needed for the one that loses the race for the invite and is
not the first user. One delta separates "flushed" from "received". One failing
write at any place is what each error path is written for; liveness of a turn is
checked with two, so that the reaper's own write fails as well. One restart
separates the memory of the process from the tables. In `sub_faults` turns overlap
without text and a turn with text runs alone (`DeltasAlone`), and a failing write
and a restart do not meet (`OneMishap`): the properties speak of states, markers
and labels, and one mishap takes a turn through each of its exits. Three updates
in flight, over all streams, are one of each of two streams and one more that meets
them (`FewInFlight`). In `knowledge` a swap of the model, a stop, a failed undo and a blank
file do not meet either (`OneMishap` of `MCKnowledge`), and all messages have one text, since an embedding follows its id; what
distinguishes texts is in `Insights`, with two. The limits
of `TurnPump` are 256 rounds, 5 identical calls, a lookback of 5 and a streak of 3 in
the code; the instance makes them so small that each can be the first to be
reached, and keeps the calls that ended, so that `OnlyLoopsAreCut` says what a loop
is without the counters. The limiter is checked with bursts of two and one token and a maximum age in which a bucket
fills, up to `Horizon`; the theorem of section 4 is for all of them.

Streams and sub-sessions are interchangeable, and so are uploads, hence the
symmetry of `chat_*`, `sub_faults` and `knowledge`. A run with a liveness property
declares no symmetry. Where it has actors that are alike, one of them is the first
to begin, by a guard on what users begin: `InTurn` in `client`, the request
`Turning` of the contended chat in `turns_live`. In `upstream_live` the first caller
is also the first to hold the lock of a connection (`InOrder`), as an
`asyncio.Lock` is handed over in the order of arrival. Every behaviour without
the guards on beginnings is one with them after the actors are renamed, fairness
included, since nobody owes a beginning. `FirstSwaps` and `FirstConnects` say the same of
`upstream` as constraints. Deadlock is checked in `chat_*`, `sub_faults`,
`turns_live`, where the reaper always ticks, and in `page_shown`; the instances of
the others really stop once their bounded requests have all ended.

Every property is checked to be falsifiable by a mutant of the code (listed in
`PROJECT.json`; the faulty operators are marked *Faulty* in the modules): a
registry that is a set instead of a count, an in-progress check that overlooks
pending rows, an abort that does not look at the state, a connect that does not
ask again under the lock, a compaction without its lock, a drain that ignores
which chat is open, a retry that sends again what was refused, and so on.

### Fairness

- `ChatStream`, `SubSession`: each stream that can take a step by itself takes one,
  the reaper goes on, and time passes. The first is the event loop together with
  three things the code has: database calls return (a busy timeout and a bounded
  number of retries), a generation ends (end of the reply, error event or idle
  timeout of the watcher), and a released `asyncio.Lock` wakes its next waiter. The
  second is `run_reaper`, whose tick survives every exception.
- `AuthFairness`: a login that was verified waits for the database and for the lock
  of its account only.
- `McpFairness`: clients and admins go on; every wait for a server is bounded by a
  timeout of its own (handshake, call, stop).
- `CatalogFairness`: as above, and strong fairness where a save or a prober takes
  a lock, because an `asyncio.Lock` is handed over in the order of arrival.
- `PageFairness`: requests are answered, a stream ends or breaks, and the poll has
  its timer and its last attempt.

No fairness is put on users, clients that leave, cancellations, faults, restarts,
or the arrival of deltas.

## 4. Proofs

For every value of the constants; the bounds on turns, deltas, faults, restarts and
deletions are arbitrary natural numbers.

**`ChatStream_proofs`**

- `TypeCorrect`: `Spec => []TypeOK`. The invariant includes that a stream which is
  marked, or has an update in flight, has a turn to address. One lemma per group
  of actions (entering, the turn, the teardown, the reaper, the environment).
- `OneTurnAtATime`: `Spec => []SingleInProgress`. Single progress alone is not
  inductive: the step that inserts a draft must know that the check it made under
  the lock still holds. The inductive invariant `SingleInv` adds `LockHeld` (a
  stream inside the locked region owns the lock of its chat) and
  `CheckStillHolds` (while a stream is about to insert, its chat has no turn in
  progress). Most actions keep it for one reason, the lemma `QuietStep`: they
  move rows only towards less progress (`OpensNothing`) and do not bring anyone
  into the locked region; `EnterSingle` treats the entering actions one by one.

**`AuthSession_proofs`**

- `AuthTypeCorrect`: every variable keeps its type.
- `OneSessionPerAccount`: `AuthSpec => []SingleSession`, for any number of logins,
  changes and tokens. The strengthening is `Exclusive` (a login in the critical
  section holds the account's lock): only its owner can mint, it leaves nothing
  but what it minted, and everybody else can at most revoke (lemma `NoMint`).
- `LoginLockIsReturned`: `[]LockOwned`, the other direction of `Exclusive`: whoever
  holds the lock is in the critical section, so no login leaves it behind.
- `ChangesSucceedOneByOne`: `AuthSpec => []ChangesSerialised`. The strengthening
  `RowsAreOlder` says that the row a change has read is not younger than the
  stored one, and older once the change has succeeded: whoever verified that row
  as well finds it replaced.

**`LoginLimit_proofs`**

- `LimitTypeCorrect`: a bucket's level lies between nothing and its burst.
- `EvictionIsInvisible`: `LimitSpec => EvictionInvisible`. The store that evicts
  implements `TokenBuckets`, which never forgets: an evicted bucket comes back
  full, and so is the ideal one, because it was idle for `MaxAge`, in which by
  assumption every bucket fills.

**`ChatStreamHistory_proofs`** (extends `ChatStream_proofs`)

- `ChatLocksAreReturned`: `[]LockOwned`, a lock that is held is held by a request that
  is inside the critical section of that chat. With `LockHeld`, the other direction, it
  is the safety half of "every request gets through the lock": no exit (409, a
  cancellation, a failed insert) leaves the lock behind.
- `MarkersNeverFallShort`: `[]RefsCover`, whatever fails: the registry counts at least
  the streams of the chat that are running or being torn down.
- `MarkersMatchStreams`: `[]MarkerPaired`, it counts exactly those, when
  `MaxFaults = 0`. Both are inductive with the types; the work is in cardinalities: a
  step changes the set of marked streams of one chat by at most the stream that takes
  it.
- Five theorems rest on one joint invariant, `RowsInv`, because under SQLite's rule
  for ids its parts need each other. A stream *claims* the id of its row (`Claims`)
  until its handler and all its updates are over, and for good once it has completed
  the turn.
  - `Ownership`: no two streams claim one id, and the row under a claimed id, if it is
    there, was made for the claiming stream and its chat. On Postgres `IdsCounted`
    (every id in use or held is at most `lastId`) makes the next id a new one; on
    SQLite `RowsHeld` does (a row that is claimed, or that a sweep has selected, is
    still there).
  - `OldIsOver`: a row that has grown old is a draft whose stream is over, so the
    reaper deletes nothing that is claimed; `SweepSpares`: no row that a sweep is about to
    settle belongs to a running stream. A stream that begins after the sweep has
    looked gets an id that is not among them.
  - `TextSaved`: a draft and the buffer of its stream are made from no more than was
    received and are raw, and a pending or completed row is the terminal content made
    from all of it.

  They are `StreamsOwnTheirTurns` (`[]OwnTurn`), `ReaperSparesLiveDrafts`
  (`LiveDraftNotReaped`), `GoneTurnsStayUnfinished` (`DisconnectNeverFinal`),
  `FinishedTurnsAreWhole` (`[]FinishedTurnComplete`) and `RowsAreAHistory`
  (`Spec => ImplementsTurnLog`). `GoneTurnsStayUnfinished` is about the labels a stream
  and its updates give while it tears down: no step takes its draft straight to final
  there. A row that is pending already is committed, and a draft that is left behind is
  finalized by the reaper later, whatever became of its client; neither is excluded.
  `FinishedTurnsAreWhole` speaks of what a terminal content is made from, not of what it
  says. For the last one, lemma `RowStep` says which step of
  `TurnLog`, or stutter, each write is; one write at a time changes rows, except a
  sweep or a deletion, which `TurnLog` allows as one step as well.
- `AnswersStayFrozen`: `AnswersFrozen`, an answer that is final changes no more, it
  only disappears. It needs no hypothesis: even a stream whose id was given to another
  turn leaves an answer alone, because every update it sends is for rows that are
  still in progress or interrupted.

**`SubSession_proofs`**

- `SubTypeCorrect`, then `OneStreamPerPanel` (`[]OneDraft`, from the lock as in
  `ChatStream`), `CompleteMeansDelivered` (`[]FinalIsEarned`, from: a stream past
  the yield of `sub.complete` has delivered it, and is graceful), `PanelMarkersMatch`
  (`[]MarkerPaired`, *with* failing writes) and `PanelsAreATranscript`
  (`ImplementsTurnLog`: lemma `Follows`, a row never goes back, makes each write one
  step of the abstract log).
- `PanelLockIsReturned`: `[]LockOwned`, as for the chats. That a stream past the lock
  does not come back is clear; that one inside has nothing in flight which could move
  it needs `NotYet`: it has no turn before it inserts one.

**`Client_proofs`**

- `AdministratorsAreEarned`: `[]AdminsAccountedFor`, where `OneWriter` holds (SQLite).
  Inductive is that at most one request is between its count and its insert, that
  what it counted is still so, and that each grant of an invite is done and has its
  invite among the spent: the administrators are at most the first and one per spent
  invite. On Postgres it does not hold (section 6).
- `BudgetsAreKept`: `[]DailyBudgetKept`. Per day the counters are bounded by the
  ceiling and count exactly the admitted requests; a request that was refused, or
  whose write failed, has counted nothing.
- `OtherChatsGoOn`, `StoppedRepliesStay`: the action properties `OthersGoOn` and
  `StoppedTextKept`. `PageInv` says that what is queued or connected for a chat was
  sent from it, that a stopped slot has no connection, and that the poll of a
  stopped slot *on screen* is about the very reply that was cut there. The effects
  restore the last part after each rendering (lemma `EffectsCalm`), in whatever
  state the previous rendering left it: that the renderings settle need not be known.

**`Knowledge_proofs`**

- `CompactionForgetsNothing`, `SummariesStayInPlace`: `[]NothingForgotten` and
  `[]SummariesInPlace` from one invariant: what a summary tells of is its own for
  ever, its rows point back to it or are gone, and the rows a compaction under way
  has chosen, which holds the lock, are told of nowhere yet. Runs of consecutive
  rows are ordered by least and greatest elements, from well-foundedness.
- `NoUploadDies`: `[]NoDeadDocument`, a live document without chunks is one of white
  space, one whose upload is under way, or one left by a stop of the process or by an
  undo that failed; no other failure leaves one. `UploadsMatchTheirPin`: what its gate
  pinned stays pinned until the project is embedded again. Both from: where an upload
  is says what its row is.
- `DistilledFactsStayCapped`: `[]AutoCapKept`, for any number of savers: a user's
  distilled facts are at most the cap and one for each saver that has inserted and not
  faded yet, or whose fading failed. It is not inductive, because fading what was listed takes a saver out of the count in the
  same step; `CapHolds(S)` therefore bounds what would be left if any set `S` of the
  savers had faded already.
- `VectorsStay`: `VectorKept`, with the model of a reindex fixed when it starts.
- `KnowledgeTypesHold`: `KnowledgeSpec => []KnowledgeTypesOK`. By the lemma
  `FourTogether` each component runs in the composition as it does alone, so a
  theorem about it holds there too. The part that is more than types is `TextInv`: a
  text is in a user's insights at most once, because the insert of a pin or of a
  distilled fact looks again and a refine leaves out what other rows have
  (`ReplacedTexts`).

**`Upstream_proofs`**

- `RefusedParametersStayOut`: what a turn was refused is still in the cache it shares
  with the others, whatever they learn.
- `ServicesStayTogether`: at most the head of the queue of rewirers has swapped the
  client in and not dropped the catalog yet; while nobody has, whoever asks the
  server asks it through the client of the moment.
- `SessionsAreAccountedFor`: `[]NobodyForgotten`. The holder of a server's connect lock
  alone may pool a session of it, nothing is pooled while it does, and a session
  that is pooled, or about to be, listed its tools and was not told to stop.
- `TranscriptsStandUp`, `CardsAreClosed`: `[]TranscriptFaithful` and
  `[]ShownIsSettled`, for calls that interleave in any way. The calls of a round have
  different slots, each is in the transcript once and is answered at once. As long as no
  arguments have crossed, the calls have different ids, each has its own arguments, and a
  card that was opened is closed, or its call is gathered, built or captured.
- `TurnsEndTruthfully`: `[]EndIsTruthful`, from: no terminal frame is sent while a
  stream is read, only the end that was decided is kept, and a chat that has shown
  nothing has run no tool.
- `LoopsAreCutAtOnce`: `[]OnlyLoopsAreCut`. The property speaks of all calls that
  ended, the code only keeps counters and a window of the last ones. `CutInv` says that
  while a stream is read each counter is the cardinality of what it stands for
  (`Repetitions`, `FailingRun`, `SameRun`), that the window is the end of what the
  detector saw, and that no limit is reached yet; one lemma per kind of run says how
  it grows or breaks with one more call.
- `UpstreamTypesHold`: `UpstreamSpec => []UpstreamTypesOK`, with `FiveTogether` as
  above. Beyond the invariants of the five it needs where MCP callers, the store and
  the flags of a save are between two awaits.

### What the theorems assume

The assumptions on constants, which TLC evaluates in the runs: values that stand
for "none" are not among the real ones; bounds are natural numbers; streams, savers
and the slots of a reply are finitely many; there is a chat, a name, a file and a
project; a bucket fills within `MaxAge` (`LimitAssumption`); limits that switch a
detector off at zero are positive (`PumpAssumption`).

Three theorems or groups of theorems have a hypothesis of their own.

- `NoReuse`, which is `~ReuseIds \/ MaxDeletes = 0`: the five theorems from `RowsInv`.
  It is what Postgres does, whose sequence hands out no id twice, and SQLite as long
  as the user deletes nothing: the ids of the rows the reaper deletes may then be used
  again, but no stream holds one of them. The run `chat_faults` checks that case; the
  run `chat_reuse` shows that `OwnTurn` fails on SQLite with deletions.
- `MaxFaults = 0`: `MarkersMatchStreams`. The last abort of a chat's teardown is the
  one update whose errors are not caught, so one that fails for good skips
  `mark_inactive` (`streaming_service.py:5733`, section 6). A sub-session catches
  it, hence `PanelMarkersMatch` has no such hypothesis.
- `OneWriter`: `AdministratorsAreEarned`. It is what SQLite does, where `register` begins
  with a write; Postgres is not told to keep two registrations apart (section 6).

### What is only model-checked

Every invariant and every action property of the passing runs is proved. Left to TLC:

- All liveness (`TurnsSettle`, `ExploredRequestsEnd`, `SessionsSettle`,
  `VerifiedLoginsGetSession`, `PageMovesOn`, `RequestsEnd`): liveness under fairness
  is out of the prover's reach.

## 5. Abstract specifications

`TurnLog` is what a reader of a history relies on: a chat has at most one open
turn; what is saved of an open turn grows, until it is given its terminal content,
which is made from no less than was saved before (and may be stripped of tool markup
or be a notice: it need not contain it); a terminal content is never touched again and
its turn cannot be interrupted any more; an answer is frozen; an interrupted turn may
still gain what had not been saved; a turn that is over disappears only by the user's
hand. `ChatStream` implements it with draft and pending rows as open turns.
`SubSession` implements it with a pending row already answered, because that is when
the next request is let in, and for the phases of the turns only: that what is saved
grows is not true of its text (section 6).

`TokenBuckets` is what a rate limit promises: a bucket per key that refills with
time, loses a token per granted attempt, and is never forgotten. `LoginLimit`
implements it although its store is trimmed.

## 6. What the code does not keep

Four statements of the repository are checked and violated; the `findings` of
`PROJECT.json` quote them.

1. `chat_reuse`: on SQLite the id of a deleted turn is used again under a running
   stream, which then writes into the other turn (`db/schema.py:48`). Regenerate and
   resend delete without a lock; the deletion of one message takes the lock, which a
   running stream has given back long before.
2. `login_answered`: the clean-up of a bucket store can evict the bucket of the very
   attempt that triggered it, which then fails with a `KeyError`
   (`_bucket_store.py:139`).
3. `docs_labels`: re-embedding a project leaves the label of the old model on the new
   vectors (`documents_service.py:1240`).
4. `page_shown`: returning to a chat whose reply was stopped can reset the slot of
   the stream that the queue has just started
   (`useStoppedStreamReconciliation.ts:158`).

The models show more of the kind, which no run states because no document
promises the contrary, or because a stated property is weaker for it.

*Chat turns and sub-sessions.*
- What a finished turn stores may be shorter than the partial answer that was saved
  before, or say something else: leaked tool calls are stripped, and a reply without
  an answer is replaced by a notice (`streaming_service.py:5335`, 858, 3788).
- The abort of the final teardown is the only one of its updates whose errors are
  not caught; if it fails for good, `mark_inactive` is skipped and the marker stays
  (`streaming_service.py:5733`). `MarkerPaired` of `ChatStream` is checked without
  failing writes for this reason. The leaked marker also shields the sub-session
  drafts of the chat from the reaper.
- A cancelled await lets the backfill overtake the abort it depends on
  (`streaming_service.py:5786`); in a sub-session a flushed delta is mirrored after
  the flush, so that a cancelled teardown writes a shorter text
  (`routes/chats.py:2895`).
- When the reaper wins the second commit of a finalization, the row is final but
  neither indexed nor distilled (`streaming_service.py:829`).
- A disconnect at the terminal frame labels a delivered sub-session aborted
  (`routes/chats.py:3311`), and so does the reaper when it wins the second commit
  (`_stream_reaper.py:182`); the late label of one turn hits the session that the
  next turn has reopened (`streaming_service.py:1231`).
- A restart, or a failing write, between the settling of a sub-session's row and
  that of its status leaves the session active for good (`_stream_reaper.py:349`):
  `SessionsSettle` is checked without either.
- A sub-session whose upstream ends without `chat.end` is completed even when all
  there is to show is the notice that no answer came, unlike after a `chat.end`.
- A sub-session that is retried without tools forgets that a call was announced
  (`routes/chats.py:3480`), and a call that LM Studio ends without having announced
  it never counts as one: reasoning about tools may then be shown as the answer.
  `EndIsTruthful` says that of chats only.
- A chat that cuts at a detector's warning stores the last call as pending, because
  its end is not read (`streaming_service.py:3642`).
- `_MAX_IDENTICAL_TOOL_ROUNDS` "cuts after this many consecutive identical" calls but
  cuts at one more, since the first of them counts zero
  (`streaming_service.py:3638`).
- After a retry without tools a chat still asks for the reason with the tools
  (`streaming_service.py:5075`), so it may report the error of the first attempt.

*History.* A compaction's summary may lose the messages it tells of to a deletion and
stays; a fork takes the whole summary of a span of which it copies only a part,
copies drafts, and copies no tool calls. Deleting a chat drops its lock after
releasing it, while others may wait for the old one (`chat_service.py:1643`).

*Tools and adapter.* The decoder keeps the calls of a reply apart by their index, because
their deltas may interleave, but the loop that reads it builds one call at a time
(`agentic.py:216`): arguments that arrive while another call is being built are given to
that call, and its card is the one they close (line 246). A payload the transport cut in
two is dropped by the decoder (`lmstudio/compat.py:440`), which can cross arguments in the
same way. After that, and for calls without an id of their own, arguments, ids and
cards are not vouched for: the conjuncts of `TranscriptFaithful` and `ShownIsSettled`
about them are under `~crossed`, while the order of the transcript, the answer to each
call and the terminal frame hold in any case. A plugin that was dropped may be sent again by another
kind of retry, and a client that leaves at the warning leaves the response open.

*MCP host.* A call to a session that was killed waits for its own timeout; a server
that was just disabled may be connected once more by a caller that had read its
configuration ("stops receiving tool requests immediately",
`routes/mcp_store.py:356`); a client cancelled in its handshake leaves a session
behind, which only the next `connect` or the shutdown ends.

*Models.* Of two concurrent saves of the settings, each probes what it was given: the
stored pair of address and key may be one that nobody probed. The second of two
forced refreshes returns without waiting.

*Accounts.* The rehash of a login writes what it read, without a condition: it can put
an old password back over a concurrent change (`auth_service.py:456`). On
Postgres two first registrations may both count no user and both become administrators,
although the docstring promises that "exactly one wins the grant"
(`auth_service.py:280`): nothing but SQLite's write lock makes the count and the insert
one step. With `OneWriter = FALSE` TLC violates `AdminsAccountedFor` in the instance of
`client`. Who loses the race for an invite keeps a plain account. A request around midnight may be refused within the budget.

*Memory and documents.* A refinement replaces pins that were added while the model
was asked, without a snapshot (`memory_service.py:2285`); restoring a snapshot
deletes newer pins. An id used again can be given the vector of the text that was
deleted. A stop between a document's row and its chunks, and an undo of
a failed upload that fails itself (`documents_service.py:954`), leave a live document
without any, which answers later uploads of the same bytes. An upload of white space
succeeds with such a document too (`documents_service.py:1043`).

*Page.* After Stop the queued message is sent as soon as the reconciliation changes the
list, although it "stays queued" until the user asks (`Composer.tsx:831`); a Stop
mark set with an empty queue swallows a later completion; a message of another chat
at the head of the queue keeps those behind it; the list asked for at `chat.end`
may be read before the row is final, so that the reply disappears until the next
refetch, and a message drained at that moment is refused with 409 and lost; the
bubble of a drained message is cleared by the previous turn's refetch.

## 7. Plan and what is not modelled

Done, in this order: `RowState`, `TurnLog`, `ChatStream` with its first theorems;
`SubSession`; `McpHost`, `ToolLoop`, `Adapter`, `ModelCatalog`; the account modules and
the refinement of `TokenBuckets`; `History`, `Insights`, `Embeddings`, `Documents`;
`ChatPage`; the proofs about accounts and the limiter; `TurnPump`; the proofs of the
remaining safety properties of turns, sub-sessions, accounts, page, knowledge and
upstream (section 4).

Left, most useful first:

1. Deletion of a chat with its lock, and the order of chats and folders.
2. The finalization of a sub-session into its chat.
3. Other tabs of the same user, and regenerate and edit on the page.

Not to be modelled, and why: translation of single upstream events and HTTP details
(no state between events, except for the decoder in `ToolLoop`); ranking, chunking
and embedding arithmetic (numeric); rows written in one transaction by one request
(projects, prompts, sharing, folders' columns, per-user settings); start-up checks
and migrations (one actor, once); analytics and web search (reads, calls to other
services); the pages of the client other than the chat page (readers of rows). What
each modelled module leaves out is said in section 2 and in the components of
`PROJECT.json`.
