----------------------------- MODULE ModelCatalog -----------------------------
(***************************************************************************)
(* The connection to LM Studio: the stored settings, the client that the *)
(* services share and is swapped while they run, the cached catalog and  *)
(* the refused-key flag (ModelsService.refresh, force_refresh;           *)
(* LmStudioOverridesService.set_admin_default, rewire_singletons;        *)
(* ProviderRegistry; PATCH /api/admin/lmstudio/default).                 *)
(*                                                                       *)
(* One event loop: what lies between two awaits is one step. Three locks:*)
(* rewire_lock, a queue, then the registry's refresh lock or _cache_lock.*)
(* A client is named after the save that made it.                        *)
(***************************************************************************)
EXTENDS Naturals, Sequences, FiniteSets

CONSTANTS
  Saves,     \* admin saves of the connection settings
  Callers,   \* periodic refresh, health and catalog requests
  Forcers,   \* callers of force_refresh
  Boot,      \* the settings and the client of the start
  NoOne      \* no holder of a lock, no cache, no flag

ASSUME CatalogAssumption ==
  /\ Boot \notin Saves /\ NoOne \notin Saves \cup {Boot}
  /\ Saves \cap (Callers \cup Forcers) = {} /\ Callers \cap Forcers = {}
  /\ NoOne \notin Callers \cup Forcers

Made == Saves \cup {Boot}             \* what makes a client, or a value
Probers == Saves \cup Callers \cup Forcers  \* a save has a warm-up refresh

VARIABLES
  stored,     \* server_lm_studio_default: who wrote url and key
  save,       \* each save: where it is, the fields it sets, what it read
  httpClient,     \* app.state.http_client, which every service uses
  rewirers,   \* rewire_lock: its holder, then who waits for it
  cacheLock,  \* ModelsService._cache_lock
  cache,      \* ModelsService._cache: the client it was fetched with
  flag,       \* _auth_failed: the client whose 401 set it, NoOne when false
  mirror,     \* app.state.lm_studio_auth_failed
  probe,      \* each prober: where it is, the client it asks
  inFlight,   \* _forced_reprobe_in_flight
  registry,   \* ProviderRegistry: its client, the providers' client, a refresh
  closing     \* clients whose close is scheduled

catalogVars == <<stored, save, httpClient, rewirers, cacheLock, cache, flag, mirror,
                 probe, inFlight, registry, closing>>
storeVars == <<stored, save>>
swapVars == <<httpClient, rewirers, registry, closing>>
probeVars == <<cacheLock, cache, flag, mirror, probe, inFlight>>

CatalogTypeOK ==
  /\ stored \in [url : Made, key : Made]
  /\ \A s \in Saves :
       /\ save[s].at \in {"idle", "probe", "fetch", "write", "read", "enter", "lock",
                          "registry", "invalidate", "done", "refused"}
       /\ save[s].sets \subseteq {"url", "key"}
       /\ save[s].row \in [url : Made, key : Made] /\ save[s].old \in Made
  /\ httpClient \in Made /\ closing \subseteq Made
  /\ rewirers \in Seq(Saves) /\ cacheLock \in Probers \cup {NoOne}
  /\ cache \in Made \cup {NoOne} /\ flag \in Made \cup {NoOne}
  /\ mirror \in BOOLEAN /\ inFlight \in BOOLEAN
  /\ \A p \in Probers : probe[p].at \in {"idle", "wait", "asked", "sync", "done"}
  /\ registry \in [client : Made, providers : Made, building : Made \cup {NoOne}]

BootRow == [url |-> Boot, key |-> Boot]

CatalogInit ==
  /\ stored = BootRow
  /\ save = [s \in Saves |-> [at |-> "idle", sets |-> {}, row |-> BootRow, old |-> Boot]]
  /\ httpClient = Boot /\ closing = {}
  /\ rewirers = <<>> /\ cacheLock = NoOne
  /\ cache = NoOne /\ flag = NoOne /\ mirror = FALSE
  /\ probe = [p \in Probers |-> [at |-> "idle", client |-> Boot]]
  /\ inFlight = FALSE
  /\ registry = [client |-> Boot, providers |-> Boot, building |-> NoOne]

Patched(row, s) == [f \in {"url", "key"} |-> IF f \in save[s].sets THEN s ELSE row[f]]

-----------------------------------------------------------------------------
(* update_server_admin_default                                           *)

(* The fields a save does not set are completed from the stored ones for *)
(* the probe; one that fails refuses the save.                           *)
BeginSave(s) ==
  /\ save[s].at = "idle"
  /\ \E sets \in (SUBSET {"url", "key"}) \ {{}} :
       save' = [save EXCEPT ![s].at = "probe", ![s].sets = sets]
  /\ UNCHANGED <<stored, swapVars, probeVars>>
ProbeNew(s) ==
  /\ save[s].at = "probe"
  /\ \E at \in {"fetch", "refused"} : save' = [save EXCEPT ![s].at = at]
  /\ UNCHANGED <<stored, swapVars, probeVars>>

(* set_admin_default: the row is read, then written in a new transaction.*)
FetchRow(s) ==
  /\ save[s].at = "fetch"
  /\ save' = [save EXCEPT ![s].at = "write", ![s].row = stored]
  /\ UNCHANGED <<stored, swapVars, probeVars>>
WriteRow(s) ==
  /\ save[s].at = "write"
  /\ stored' = Patched(save[s].row, s)
  /\ save' = [save EXCEPT ![s].at = "read"]
  /\ UNCHANGED <<swapVars, probeVars>>

(* resolve_admin_tier_only: the settings of the new client.              *)
ReadStored(s) ==
  /\ save[s].at = "read"
  /\ save' = [save EXCEPT ![s].at = "enter", ![s].row = stored]
  /\ UNCHANGED <<stored, swapVars, probeVars>>

(* rewire_singletons: the client that is to be closed is the one of the  *)
(* moment before the lock is asked for; under the lock every service gets*)
(* the new one.                                                          *)
EnterRewire(s) ==
  /\ save[s].at = "enter"
  /\ rewirers' = Append(rewirers, s)
  /\ save' = [save EXCEPT ![s].old = httpClient,
                           ![s].at = IF rewirers = <<>> THEN "registry" ELSE "lock"]
  /\ httpClient' = IF rewirers = <<>> THEN s ELSE httpClient
  /\ UNCHANGED <<stored, registry, closing, probeVars>>
Swap(s) ==
  /\ save[s].at = "lock" /\ Head(rewirers) = s
  /\ httpClient' = s
  /\ save' = [save EXCEPT ![s].at = "registry"]
  /\ UNCHANGED <<stored, rewirers, registry, closing, probeVars>>

(* ProviderRegistry.reconfigure_http_client, under _refresh_lock.        *)
Rebind(s) ==
  /\ save[s].at = "registry" /\ registry.building = NoOne
  /\ registry' = [registry EXCEPT !.client = s, !.providers = s]
  /\ save' = [save EXCEPT ![s].at = "invalidate"]
  /\ UNCHANGED <<stored, httpClient, rewirers, closing, probeVars>>

EndRewire(s) ==
  /\ save' = [save EXCEPT ![s].at = "done"]
  /\ rewirers' = Tail(rewirers)
  /\ closing' = closing \cup {save[s].old}
  /\ probe' = [probe EXCEPT ![s].at = "wait"]

(* Faulty: the catalog is dropped without _cache_lock.                   *)
InvalidateUnlocked(s) ==
  /\ save[s].at = "invalidate"
  /\ cache' = NoOne /\ flag' = NoOne /\ mirror' = FALSE
  /\ EndRewire(s)
  /\ UNCHANGED <<stored, httpClient, registry, cacheLock, inFlight>>

(* The catalog is dropped under _cache_lock and the flag is reset after  *)
(* it; the locks are released, the close of the old client is scheduled  *)
(* and the warm-up refresh starts.                                       *)
Invalidate(s) ==
  /\ save[s].at = "invalidate" /\ cacheLock = NoOne
  /\ cache' = NoOne /\ flag' = NoOne /\ mirror' = FALSE
  /\ EndRewire(s)
  /\ UNCHANGED <<stored, httpClient, registry, cacheLock, inFlight>>

SaveStep(s) ==
  \/ BeginSave(s) \/ ProbeNew(s) \/ FetchRow(s) \/ WriteRow(s) \/ ReadStored(s)
  \/ EnterRewire(s) \/ Swap(s) \/ Rebind(s) \/ Invalidate(s)

-----------------------------------------------------------------------------
(* ProviderRegistry.refresh, under _refresh_lock: the providers are built*)
(* around the registry's client.                                         *)
BeginRegistryRefresh ==
  /\ registry.building = NoOne
  /\ registry' = [registry EXCEPT !.building = registry.client]
  /\ UNCHANGED <<storeVars, httpClient, rewirers, closing, probeVars>>
EndRegistryRefresh ==
  /\ registry.building # NoOne
  /\ registry' = [registry EXCEPT !.providers = registry.building, !.building = NoOne]
  /\ UNCHANGED <<storeVars, httpClient, rewirers, closing, probeVars>>

-----------------------------------------------------------------------------
(* ModelsService.refresh: within the backoff of a refused key it does    *)
(* nothing, after it the flag is cleared and the probe goes on.          *)
BeginRefresh(p) ==
  /\ probe[p].at = "idle" /\ p \in Callers
  /\ probe' = [probe EXCEPT ![p].at = "wait"]
  /\ flag' = NoOne
  /\ UNCHANGED <<storeVars, swapVars, cacheLock, cache, mirror, inFlight>>
SkipRefresh(p) ==
  /\ probe[p].at = "idle" /\ p \in Callers /\ flag # NoOne
  /\ probe' = [probe EXCEPT ![p].at = "done"]
  /\ UNCHANGED <<storeVars, swapVars, cacheLock, cache, flag, mirror, inFlight>>

(* force_refresh, when the last one is not too recent: it goes past the  *)
(* backoff; a second caller awaits an event that is set, which returns.  *)
BeginForced(p) ==
  /\ probe[p].at = "idle" /\ p \in Forcers
  /\ probe' = [probe EXCEPT ![p].at = IF inFlight THEN "done" ELSE "wait"]
  /\ inFlight' = TRUE
  /\ UNCHANGED <<storeVars, swapVars, cacheLock, cache, flag, mirror>>

(* _probe_upstream, under _cache_lock, with the client of that moment.   *)
Ask(p) ==
  /\ probe[p].at = "wait" /\ cacheLock = NoOne
  /\ cacheLock' = p
  /\ probe' = [probe EXCEPT ![p] = [at |-> "asked", client |-> httpClient]]
  /\ UNCHANGED <<storeVars, swapVars, cache, flag, mirror, inFlight>>

EndProbe(p) ==
  /\ cacheLock' = NoOne
  /\ inFlight' = (inFlight /\ p \notin Forcers)
  /\ probe' = [probe EXCEPT ![p].at = IF p \in Saves THEN "sync" ELSE "done"]

(* The catalog; a 401, which only refresh keeps; or no answer.           *)
AnswerProbe(p) ==
  /\ probe[p].at = "asked"
  /\ \/ /\ cache' = probe[p].client /\ flag' = NoOne
        /\ mirror' = (mirror /\ p \notin Forcers)
     \/ /\ p \notin Forcers /\ flag' = probe[p].client
        /\ UNCHANGED <<cache, mirror>>
     \/ UNCHANGED <<cache, flag, mirror>>
  /\ EndProbe(p)
  /\ UNCHANGED <<storeVars, swapVars>>

(* The warm-up, and the periodic refresh, copy the flag for the banner.  *)
SyncMirror(p) ==
  /\ probe[p].at = "sync"
  /\ mirror' = (flag # NoOne)
  /\ probe' = [probe EXCEPT ![p].at = "done"]
  /\ UNCHANGED <<storeVars, swapVars, cacheLock, cache, flag, inFlight>>

Prober(p) ==
  BeginRefresh(p) \/ SkipRefresh(p) \/ BeginForced(p) \/ Ask(p) \/ AnswerProbe(p) \/ SyncMirror(p)

-----------------------------------------------------------------------------
CatalogNext ==
  \/ BeginRegistryRefresh \/ EndRegistryRefresh
  \/ \E s \in Saves : SaveStep(s)
  \/ \E p \in Probers : Prober(p)

CatalogSpec == CatalogInit /\ [][CatalogNext]_catalogVars

(* Requests to the database and to the server end (timeouts), and locks  *)
(* are handed over in the order they were asked for.                     *)
CatalogFairness ==
  /\ \A s \in Saves :
       /\ WF_catalogVars(FetchRow(s) \/ WriteRow(s) \/ ReadStored(s) \/ EnterRewire(s) \/ Swap(s))
       /\ SF_catalogVars(Rebind(s) \/ Invalidate(s))
  /\ \A p \in Probers : SF_catalogVars(Ask(p)) /\ WF_catalogVars(AnswerProbe(p))
  /\ WF_catalogVars(EndRegistryRefresh)

CatalogFairSpec == CatalogSpec /\ CatalogFairness

-----------------------------------------------------------------------------
(* Outside a rewire every service follows the one client: the catalog was  *)
(* fetched with it ("so the next request sees the new URL"), a refused key *)
(* is its own (an answer to the old one would leave "the new client paired *)
(* with a stale flag"), the providers use it, whichever of rewire and      *)
(* registry refresh ran last, and no delayed close is going to close it.   *)
ServicesFollowClient ==
  rewirers = <<>> =>
    /\ cache \in {httpClient, NoOne}
    /\ flag \in {httpClient, NoOne}
    /\ registry.client = httpClient /\ registry.providers = httpClient
    /\ httpClient \notin closing

(* Every save that passed its probe is live in the end: no order of the  *)
(* three locks leaves a rewire waiting (the lock ordering invariant of   *)
(* rewire_singletons).                                                   *)
SavesEnd == \A s \in Saves : save[s].at = "fetch" ~> save[s].at = "done"

=============================================================================
