----------------------------- MODULE MCUpstream -----------------------------
(***************************************************************************)
(* Finite instances of the way to models and tools: the events of a turn,  *)
(* the tool loop of a cloud model, the retries of the LM Studio adapter,   *)
(* the sessions of MCP servers, and the client and catalog of LM Studio.   *)
(* Each behaviour explores one of them while the others stay where they    *)
(* start.                                                                  *)
(***************************************************************************)
EXTENDS TurnPump, ToolLoop, Adapter, McpHost, ModelCatalog

VARIABLE part

First(S) == CHOOSE x \in S : TRUE

upstreamVars == <<part, pumpVars, loopVars, adapterVars, mcpVars, catalogVars>>

UpstreamInit ==
  /\ part \in {"pump", "loop", "adapter", "mcp", "catalog"}
  /\ PumpInit /\ LoopInit /\ AdapterInit /\ McpInit /\ CatalogInit
  /\ part # "pump" => asked = [surface |-> "chat", native |-> TRUE, tools |-> TRUE]

UpstreamNext ==
  /\ \/ part = "pump" /\ PumpNext
        /\ UNCHANGED <<loopVars, adapterVars, mcpVars, catalogVars>>
     \/ part = "loop" /\ LoopNext
        /\ UNCHANGED <<pumpVars, adapterVars, mcpVars, catalogVars>>
     \/ part = "adapter" /\ AdapterNext
        /\ UNCHANGED <<pumpVars, loopVars, mcpVars, catalogVars>>
     \/ part = "mcp" /\ McpNext
        /\ UNCHANGED <<pumpVars, loopVars, adapterVars, catalogVars>>
     \/ part = "catalog" /\ CatalogNext
        /\ UNCHANGED <<pumpVars, loopVars, adapterVars, mcpVars>>
  /\ UNCHANGED part

UpstreamSpec == UpstreamInit /\ [][UpstreamNext]_upstreamVars

(* Bound: saves are alike, and so are clients, so that the first to swap   *)
(* the client, or to get hold of a connect lock, can be taken to be the    *)
(* first of each: what another does before it is what that one would do.   *)
Unswapped == {"idle", "probe", "refused", "fetch", "write", "read", "enter"}
FirstSwaps ==
  save[First(Saves)].at \in Unswapped => \A s \in Saves : save[s].at \in Unswapped
FirstConnects ==
  client[First(Clients)].at \in {"idle", "locking"} =>
    \A c \in Clients : client[c].at \in {"idle", "locking", "done"}

(* For liveness only two of them are explored. No step that is fair is     *)
(* enabled where a part starts, so fairness asks nothing of an idle part.  *)
(* The first client is the first to start, and the first to get a connect  *)
(* lock: an asyncio.Lock is handed over in the order of arrival.           *)
WaitingInit == UpstreamInit /\ part \in {"mcp", "catalog"}
InOrder ==
  /\ client'[First(Clients)].at = "idle" => \A c \in Clients : client'[c].at = "idle"
  /\ client'[First(Clients)].at = "locking" =>
       \A c \in Clients : client'[c].at \in {"idle", "locking", "done"}
WaitingSpec ==
  /\ WaitingInit /\ [][UpstreamNext /\ InOrder]_upstreamVars
  /\ McpFairness /\ CatalogFairness

(* Every variable of the five has its type (what a turn, a session and a   *)
(* save keep between two awaits).                                          *)
UpstreamTypesOK == PumpTypeOK /\ LoopTypeOK /\ AdapterTypeOK /\ McpTypeOK /\ CatalogTypeOK

(* Every turn that asks for a tool gets an answer, and every save of the   *)
(* connection settings comes to its end.                                   *)
RequestsEnd == ClientsEnd /\ SavesEnd
=============================================================================
