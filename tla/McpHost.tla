------------------------------- MODULE McpHost -------------------------------
(***************************************************************************)
(* Connections to MCP servers (lmchat/mcp/host.py) and who uses them.      *)
(*                                                                         *)
(* Each connection lives in a session task of its own, which serves a      *)
(* queue of requests until it takes a sentinel. Chat turns (clients)       *)
(* connect on demand and call a tool; admins install, disable and delete   *)
(* servers; a handshake, a call or a teardown may time out, a client may   *)
(* be cancelled at any await, a server process may die, the process may    *)
(* restart.                                                                *)
(***************************************************************************)
EXTENDS Naturals, FiniteSets, SequencesExt

CONSTANTS
  Servers,      \* server ids (slugs)
  Clients,      \* chat turns that use a tool
  Admins,       \* requests to the MCP store
  NoClient,     \* the owner of a free connect lock
  MaxSessions,  \* bound: session tasks ever started
  MaxCancels,   \* bound: clients cancelled while they connect
  MaxDeaths,    \* bound: server processes that die while serving
  MaxReboots    \* bound: process restarts

ASSUME McpAssumption ==
  /\ NoClient \notin Clients /\ "stop" \notin Clients
  /\ MaxSessions \in Nat /\ MaxCancels \in Nat /\ MaxDeaths \in Nat /\ MaxReboots \in Nat

VARIABLES
  row,        \* mcp_servers: is the server installed and enabled
  configs,    \* McpHost._configs
  pool,       \* McpHost._pool: the session of each connected server, 0 when none
  connLock,   \* McpHost._connect_locks
  failure,    \* the servers with an entry in McpHost._last_errors
  session,    \* the session tasks
  client,     \* each client: where it is, its server, its session
  answer,     \* the future of each client's request
  admin,      \* each admin request: where it is, what it does to which server
  cancels, deaths, reboots   \* how much of each bound is used

mcpVars == <<row, configs, pool, connLock, failure, session, client,
             answer, admin, cancels, deaths, reboots>>
mcpBudget == <<cancels, deaths, reboots>>

Sessions == 1 .. MaxSessions
Stop == "stop"   \* the sentinel
NoServer == "none"

(* A session task: its server, where it is, its ready future, its queue,   *)
(* the request it is serving, and whether it was cancelled from outside.   *)
Unborn == [srv |-> NoServer, at |-> "unborn", ready |-> "none", queue |-> <<>>,
           serving |-> NoClient, killed |-> FALSE]
Alive(i) == session[i].at \in {"opening", "serving", "closing"}

Idle == [at |-> "idle", srv |-> NoServer, sess |-> 0]
Quiet == [at |-> "idle", op |-> "none", srv |-> NoServer, sess |-> 0]

McpInit ==
  /\ row = [s \in Servers |-> "on"]
  /\ configs = Servers
  /\ pool = [s \in Servers |-> 0]
  /\ connLock = [s \in Servers |-> NoClient]
  /\ failure = {}
  /\ session = [i \in Sessions |-> Unborn]
  /\ client = [c \in Clients |-> Idle]
  /\ answer = [c \in Clients |-> "none"]
  /\ admin = [a \in Admins |-> Quiet]
  /\ cancels = 0 /\ deaths = 0 /\ reboots = 0

ClientAt(c, at) == client[c].at = at
Move(c, at) == client' = [client EXCEPT ![c].at = at]
FreeLock(s) == connLock' = [connLock EXCEPT ![s] = NoClient]

(* _drain_pending: whoever is still queued is told that the server is gone.*)
DrainPending(i) ==
  [c \in Clients |->
     IF answer[c] = "pending" /\ Contains(session[i].queue, c)
     THEN "failed" ELSE answer[c]]

(* The task ends by itself, or cancelled by the host or by its transport:  *)
(* the request it was serving is not in the queue any more.                *)
EndSession(i, killed) ==
  /\ session' = [session EXCEPT ![i].at = "ended", ![i].queue = <<>>, ![i].killed = killed]
  /\ answer' = DrainPending(i)
KillIfAlive(i) ==
  IF Alive(i) THEN EndSession(i, TRUE) ELSE UNCHANGED <<session, answer>>

-----------------------------------------------------------------------------
(* McpHost.connect, called by the agentic loop of a turn.                  *)

Connect(c, s) ==
  /\ ClientAt(c, "idle")
  /\ client' = [client EXCEPT ![c] =
       [at |-> IF pool[s] # 0 THEN "connected"
               ELSE IF s \in configs THEN "locking" ELSE "done",
        srv |-> s, sess |-> 0]]
  /\ UNCHANGED <<row, configs, pool, connLock, failure, session, answer,
                 admin, mcpBudget>>

(* The session task that the next connect starts.                         *)
NextSession == CHOOSE i \in Sessions : session[i] = Unborn /\
                 \A j \in Sessions : j < i => session[j] # Unborn

StartHandshake(c) ==
  LET s == client[c].srv IN
  /\ \E i \in Sessions : session[i] = Unborn
  /\ connLock' = [connLock EXCEPT ![s] = c]
  /\ session' = [session EXCEPT ![NextSession] =
       [Unborn EXCEPT !.srv = s, !.at = "opening", !.ready = "pending"]]
  /\ client' = [client EXCEPT ![c].at = "handshake", ![c].sess = NextSession]

(* Faulty: the pool is not asked again inside the lock.                    *)
LockAndConnect(c) ==
  /\ ClientAt(c, "locking")
  /\ connLock[client[c].srv] = NoClient
  /\ StartHandshake(c)
  /\ UNCHANGED <<row, configs, pool, failure, answer, admin, mcpBudget>>

(* The lock is taken, the pool asked again and the task started, or the    *)
(* lock left, without an await in between.                                 *)
LockAndRecheck(c) ==
  /\ ClientAt(c, "locking")
  /\ connLock[client[c].srv] = NoClient
  /\ IF pool[client[c].srv] # 0
     THEN Move(c, "connected") /\ UNCHANGED <<connLock, session>>
     ELSE StartHandshake(c)
  /\ UNCHANGED <<row, configs, pool, failure, answer, admin, mcpBudget>>

(* The ready future has its result: the connection enters the pool.        *)
PoolConnection(c) ==
  LET s == client[c].srv IN
  /\ ClientAt(c, "handshake")
  /\ session[client[c].sess].ready = "listed"
  /\ pool' = [pool EXCEPT ![s] = client[c].sess]
  /\ Move(c, "connected")
  /\ FreeLock(s)
  /\ UNCHANGED <<row, configs, failure, session, answer, admin, mcpBudget>>

(* Faulty: the lock is not released when a connect fails.                  *)
GiveUpKeepingLock(c) ==
  /\ Move(c, "done")
  /\ UNCHANGED connLock

(* connect returns False: the turn goes on without the server's tools.     *)
GiveUp(c) ==
  /\ Move(c, "done")
  /\ FreeLock(client[c].srv)

HandshakeRefused(c) ==
  /\ ClientAt(c, "handshake")
  /\ session[client[c].sess].ready = "failed"
  /\ failure' = failure \cup {client[c].srv}
  /\ GiveUp(c)
  /\ UNCHANGED <<row, configs, pool, session, answer, admin, mcpBudget>>

(* wait_for cancels the ready future; _abort_task leaves the sentinel.     *)
HandshakeTimesOut(c) ==
  LET i == client[c].sess IN
  /\ ClientAt(c, "handshake")
  /\ session[i].ready = "pending"
  /\ failure' = failure \cup {client[c].srv}
  /\ session' = [session EXCEPT ![i].ready = "cancelled", ![i].queue = Append(@, Stop)]
  /\ Move(c, "aborting")
  /\ UNCHANGED <<row, configs, pool, connLock, answer, admin, mcpBudget>>

(* The task has stopped by itself, or its grace period is over and it is   *)
(* cancelled and awaited.                                                  *)
AbortTask(c) ==
  /\ ClientAt(c, "aborting")
  /\ KillIfAlive(client[c].sess)
  /\ GiveUp(c)
  /\ UNCHANGED <<row, configs, pool, failure, admin, mcpBudget>>

-----------------------------------------------------------------------------
(* McpHost.call_tool. The route by name and the put are one step.          *)

CallTool(c) ==
  LET s == client[c].srv IN
  /\ ClientAt(c, "connected")
  /\ IF pool[s] = 0
     THEN Move(c, "done") /\ UNCHANGED <<session, answer>>
     ELSE /\ session' = [session EXCEPT ![pool[s]].queue = Append(@, c)]
          /\ client' = [client EXCEPT ![c].at = "calling", ![c].sess = pool[s]]
          /\ answer' = [answer EXCEPT ![c] = "pending"]
  /\ UNCHANGED <<row, configs, pool, connLock, failure, admin, mcpBudget>>

CallReturns(c) ==
  /\ ClientAt(c, "calling")
  /\ answer[c] \in {"result", "failed"}
  /\ Move(c, "done")
  /\ UNCHANGED <<row, configs, pool, connLock, failure, session, answer,
                 admin, mcpBudget>>

CallTimesOut(c) ==
  /\ ClientAt(c, "calling")
  /\ answer[c] = "pending"
  /\ answer' = [answer EXCEPT ![c] = "cancelled"]
  /\ Move(c, "done")
  /\ UNCHANGED <<row, configs, pool, connLock, failure, session, admin, mcpBudget>>

(* The turn is cancelled: its future goes with it; an abort that is under  *)
(* way is finished first.                                                  *)
ClientCancelled(c) ==
  LET s == client[c].srv  i == client[c].sess IN
  /\ client[c].at \in {"locking", "handshake", "aborting", "calling"}
  /\ IF client[c].at = "calling" THEN UNCHANGED cancels
     ELSE cancels < MaxCancels /\ cancels' = cancels + 1
  /\ Move(c, "done")
  /\ CASE client[c].at = "locking" ->
            UNCHANGED <<connLock, session, answer>>
       [] client[c].at = "handshake" ->
            /\ session' = [session EXCEPT ![i].ready = "abandoned"]
            /\ FreeLock(s)
            /\ UNCHANGED <<answer>>
       [] client[c].at = "aborting" ->
            /\ KillIfAlive(i)
            /\ FreeLock(s)
       [] client[c].at = "calling" ->
            /\ answer' = [answer EXCEPT ![c] = IF @ = "pending" THEN "cancelled" ELSE @]
            /\ UNCHANGED <<connLock, session>>
  /\ UNCHANGED <<row, configs, pool, failure, admin, deaths, reboots>>

-----------------------------------------------------------------------------
(* _session_task and _serve_requests.                                      *)

SessionOnly == UNCHANGED <<row, configs, pool, connLock, client, admin>>

HandshakeDone(i) ==
  /\ session[i].at = "opening"
  /\ session' = [session EXCEPT ![i].at = "serving",
       ![i].ready = IF @ = "pending" THEN "listed" ELSE @]
  /\ failure' = failure \ {session[i].srv}
  /\ UNCHANGED <<answer, mcpBudget>> /\ SessionOnly

HandshakeFails(i) ==
  /\ session[i].at = "opening"
  /\ session' = [session EXCEPT ![i].at = "ended", ![i].queue = <<>>,
       ![i].ready = IF @ = "pending" THEN "failed" ELSE @]
  /\ answer' = DrainPending(i)
  /\ failure' = failure \cup {session[i].srv}
  /\ UNCHANGED mcpBudget /\ SessionOnly

Free(i) == session[i].at = "serving" /\ session[i].serving = NoClient /\ session[i].queue # <<>>

(* Requests are served one at a time, the abandoned ones as well.          *)
TakeRequest(i) ==
  /\ Free(i)
  /\ session' = [session EXCEPT ![i].queue = Tail(@),
       ![i].at = IF Head(session[i].queue) = Stop THEN "closing" ELSE @,
       ![i].serving = IF Head(session[i].queue) = Stop THEN @ ELSE Head(session[i].queue)]
  /\ UNCHANGED <<failure, answer, mcpBudget>> /\ SessionOnly

(* A result, or an error that is reported on the request's own future.     *)
Answer(i, outcome) ==
  LET c == session[i].serving IN
  /\ session[i].at = "serving" /\ c # NoClient
  /\ answer' = [answer EXCEPT ![c] = IF @ = "pending" THEN outcome ELSE @]
  /\ session' = [session EXCEPT ![i].serving = NoClient]
  /\ UNCHANGED <<failure, mcpBudget>> /\ SessionOnly

(* The contexts are closed, with or without an error.                      *)
Closed(i) ==
  /\ session[i].at = "closing"
  /\ EndSession(i, FALSE)
  /\ failure' \in {failure, failure \cup {session[i].srv}}
  /\ UNCHANGED mcpBudget /\ SessionOnly

(* The transport's task group cancels the session task.                    *)
ServerDies(i) ==
  /\ session[i].at = "serving"
  /\ deaths < MaxDeaths /\ deaths' = deaths + 1
  /\ EndSession(i, TRUE)
  /\ failure' = failure \cup {session[i].srv}
  /\ UNCHANGED <<cancels, reboots>> /\ SessionOnly

-----------------------------------------------------------------------------
(* The MCP store's requests, and the shutdown of the host.                 *)

AdminOnly == UNCHANGED <<connLock, failure, client, mcpBudget>>

Install(s) ==
  /\ row[s] = "absent"
  /\ row' = [row EXCEPT ![s] = "on"]
  /\ configs' = configs \cup {s}
  /\ UNCHANGED <<pool, session, answer, admin>> /\ AdminOnly

Enable(s) ==
  /\ row[s] = "off"
  /\ row' = [row EXCEPT ![s] = "on"]
  /\ UNCHANGED <<configs, pool, session, answer, admin>> /\ AdminOnly

(* patch_server updates the row before it disconnects, delete_server after.*)
BeginAdmin(a, op, s) ==
  /\ admin[a].at = "idle"
  /\ row[s] # "absent"
  /\ row' = IF op = "disable" THEN [row EXCEPT ![s] = "off"] ELSE row
  /\ admin' = [admin EXCEPT ![a] = [at |-> "disconnect", op |-> op, srv |-> s, sess |-> 0]]
  /\ UNCHANGED <<configs, pool, session, answer>> /\ AdminOnly

(* After disconnect: a deletion unregisters the server.                    *)
Disconnected(a) ==
  IF admin[a].op = "delete"
  THEN /\ configs' = configs \ {admin[a].srv}
       /\ admin' = [admin EXCEPT ![a].at = "deleting"]
  ELSE /\ admin' = [admin EXCEPT ![a] = Quiet]
       /\ UNCHANGED configs

Disconnect(a) ==
  LET s == admin[a].srv IN
  /\ admin[a].at = "disconnect"
  /\ pool' = [pool EXCEPT ![s] = 0]
  /\ IF pool[s] = 0
     THEN Disconnected(a) /\ UNCHANGED session
     ELSE /\ session' = [session EXCEPT ![pool[s]].queue = Append(@, Stop)]
          /\ admin' = [admin EXCEPT ![a].at = "grace", ![a].sess = pool[s]]
          /\ UNCHANGED configs
  /\ UNCHANGED <<row, answer>> /\ AdminOnly

(* The task has stopped, or is cancelled after its grace period.           *)
ReapSession(a) ==
  /\ admin[a].at = "grace"
  /\ KillIfAlive(admin[a].sess)
  /\ Disconnected(a)
  /\ UNCHANGED <<row, pool>> /\ AdminOnly

DeleteServerRow(a) ==
  /\ admin[a].at = "deleting"
  /\ row' = [row EXCEPT ![admin[a].srv] = "absent"]
  /\ admin' = [admin EXCEPT ![a] = Quiet]
  /\ UNCHANGED <<configs, pool, session, answer>> /\ AdminOnly

(* A restart rehydrates the configurations of the enabled rows.            *)
Reboot ==
  /\ reboots < MaxReboots /\ reboots' = reboots + 1
  /\ configs' = {s \in Servers : row[s] = "on"}
  /\ pool' = [s \in Servers |-> 0]
  /\ connLock' = [s \in Servers |-> NoClient]
  /\ failure' = {}
  /\ session' = [i \in Sessions |-> IF session[i] = Unborn THEN Unborn
                   ELSE [Unborn EXCEPT !.srv = session[i].srv, !.at = "ended"]]
  /\ client' = [c \in Clients |-> IF ClientAt(c, "idle") THEN Idle
                  ELSE [client[c] EXCEPT !.at = "done"]]
  /\ answer' = [c \in Clients |-> IF answer[c] = "pending" THEN "cancelled" ELSE answer[c]]
  /\ admin' = [a \in Admins |-> Quiet]
  /\ UNCHANGED <<row, cancels, deaths>>

-----------------------------------------------------------------------------
ClientStep(c) ==
  \/ LockAndRecheck(c) \/ PoolConnection(c) \/ HandshakeRefused(c)
  \/ HandshakeTimesOut(c) \/ AbortTask(c)
  \/ CallTool(c) \/ CallReturns(c) \/ CallTimesOut(c)

SessionStep(i) ==
  \/ HandshakeDone(i) \/ HandshakeFails(i) \/ TakeRequest(i) \/ Closed(i)
  \/ \E outcome \in {"result", "failed"} : Answer(i, outcome)

AdminStep(a) == Disconnect(a) \/ ReapSession(a) \/ DeleteServerRow(a)

McpNext ==
  \/ \E c \in Clients : ClientStep(c) \/ ClientCancelled(c) \/ \E s \in Servers : Connect(c, s)
  \/ \E i \in Sessions : SessionStep(i) \/ ServerDies(i)
  \/ \E a \in Admins : AdminStep(a) \/ \E s \in Servers, op \in {"disable", "delete"} : BeginAdmin(a, op, s)
  \/ \E s \in Servers : Install(s) \/ Enable(s)
  \/ Reboot

McpSpec == McpInit /\ [][McpNext]_mcpVars

(* The event loop runs every client and admin request that can go on, and  *)
(* each of their waits has a timeout of its own; servers owe nothing.      *)
McpFairness ==
  /\ \A c \in Clients : WF_mcpVars(ClientStep(c))
  /\ \A a \in Admins : WF_mcpVars(AdminStep(a))
McpFairSpec == McpSpec /\ McpFairness

-----------------------------------------------------------------------------
(* Properties.                                                             *)

(* Every variable has its type, and whoever waits for a session names one. *)
McpTypeOK ==
  /\ row \in [Servers -> {"on", "off", "absent"}]
  /\ configs \subseteq Servers
  /\ pool \in [Servers -> 0 .. MaxSessions]
  /\ connLock \in [Servers -> Clients \cup {NoClient}]
  /\ failure \subseteq Servers
  /\ \A i \in Sessions :
       /\ session[i].srv \in Servers \cup {NoServer}
       /\ session[i].at \in {"unborn", "opening", "serving", "closing", "ended"}
       /\ session[i].ready \in {"none", "pending", "listed", "failed", "cancelled",
                               "abandoned"}
       /\ session[i].queue \in Seq(Clients \cup {Stop})
       /\ session[i].serving \in Clients \cup {NoClient}
       /\ session[i].killed \in BOOLEAN
  /\ client \in [Clients -> [at : {"idle", "locking", "handshake", "aborting", "connected",
                                  "calling", "done"},
                             srv : Servers \cup {NoServer}, sess : 0 .. MaxSessions]]
  /\ answer \in [Clients -> {"none", "pending", "result", "failed", "cancelled"}]
  /\ admin \in [Admins -> [at : {"idle", "disconnect", "grace", "deleting"},
                           op : {"none", "disable", "delete"},
                           srv : Servers \cup {NoServer}, sess : 0 .. MaxSessions]]
  /\ \A c \in Clients : client[c].at \in {"handshake", "aborting", "calling"} =>
       client[c].sess \in Sessions

(* Nobody is forgotten. A session task that is alive is in the pool, or a  *)
(* client awaits its handshake or its end, or an admin its end: the connect*)
(* lock and the second look at the pool are there for this. (A client that *)
(* is cancelled during its handshake is the one way out: _do_connect       *)
(* catches only Exception.) And a caller that still waits is queued at, or *)
(* served by, a live session, unless that session was cancelled or died    *)
(* under it: a connection that is closed in order leaves nobody waiting    *)
(* for the call timeout ("Fail any requests still queued/in-flight").      *)
WaitsFor(c, i) == Contains(session[i].queue, c) \/ session[i].serving = c
NobodyForgotten ==
  /\ \A i \in Sessions : Alive(i) /\ session[i].ready # "abandoned" =>
       \/ pool[session[i].srv] = i
       \/ \E c \in Clients : client[c].at \in {"handshake", "aborting"} /\ client[c].sess = i
       \/ \E a \in Admins : admin[a].at = "grace" /\ admin[a].sess = i
  /\ \A c \in Clients : answer[c] = "pending" =>
       \E i \in Sessions : WaitsFor(c, i) /\ (Alive(i) \/ session[i].killed)

(* Whatever a server does, each client gets through the lock and its turn  *)
(* goes on: the connect lock is never kept, no wait is without a timeout.  *)
ClientsEnd == \A c \in Clients : ClientAt(c, "locking") ~> ClientAt(c, "done")
=============================================================================
