--------------------------- MODULE Upstream_proofs ---------------------------
(***************************************************************************)
(* What holds on the way to models and tools for every number of turns,    *)
(* rounds, saves, callers and sessions: the adapter of LM Studio, the      *)
(* model catalog, the MCP host, the agentic loop and the pump of a turn.   *)
(***************************************************************************)
EXTENDS MCUpstream, TLAPS, FiniteSetTheorems, WellFoundedInduction

-----------------------------------------------------------------------------
(* The LM Studio adapter. Inductive: what a turn was refused is still in    *)
(* the cache, and no request it builds or has built holds any of it.       *)

TurnRow == [at : {"idle", "posted", "warning", "warned", "streaming", "done"},
            why : {"first", "retry", "denied", "plugin"}, denied : SUBSET Plugins,
            dead : SUBSET Plugins, body : SUBSET Params, plugins : SUBSET Plugins,
            degraded : BOOLEAN, shown : BOOLEAN,
            end : {"none", "chat.end", "error", "cancelled"}, refused : SUBSET Params]

AdapterTypes == turn \in [Turns -> TurnRow] /\ rejected \subseteq Unsupported

RefusedOK(t) ==
  /\ turn[t].refused \subseteq rejected
  /\ turn[t].at = "idle" => turn[t].refused = {}
  /\ turn[t].at \in {"posted", "warning"} => turn[t].body \cap turn[t].refused = {}
  /\ turn[t].at = "done" <=> turn[t].end # "none"

AdapterInv == AdapterTypes /\ \A t \in Turns : RefusedOK(t)

LEMMA AdapterInit_Inv == AdapterInit => AdapterInv
BY DEF AdapterInit, AdapterInv, AdapterTypes, RefusedOK, NewTurn, TurnRow

(* One turn takes a step: the others see only what was learnt.             *)
LEMMA OtherTurnsKeep ==
  ASSUME AdapterInv, NEW t \in Turns, NEW tr \in TurnRow, turn' = [turn EXCEPT ![t] = tr],
         rejected \subseteq rejected', rejected' \subseteq Unsupported,
         tr.refused \subseteq rejected', tr.at # "idle",
         tr.at \in {"posted", "warning"} => tr.body \cap tr.refused = {},
         tr.at = "done" <=> tr.end # "none"
  PROVE  AdapterInv'
<1>1. turn \in [Turns -> TurnRow] BY DEF AdapterInv, AdapterTypes
<1>2. turn' \in [Turns -> TurnRow] /\ turn'[t] = tr /\ \A u \in Turns : u # t => turn'[u] = turn[u]
  BY <1>1
<1>3. AdapterTypes' BY <1>2 DEF AdapterTypes
<1>4. RefusedOK(t)' BY <1>2 DEF RefusedOK
<1>5. ASSUME NEW u \in Turns, u # t PROVE RefusedOK(u)'
  <2>1. RefusedOK(u) /\ turn'[u] = turn[u] BY <1>2, <1>5 DEF AdapterInv
  <2> QED BY <2>1 DEF RefusedOK
<1> QED BY <1>3, <1>4, <1>5 DEF AdapterInv

LEMMA AdapterStepKeeps == ASSUME AdapterInv, NEW t \in Turns, TurnStep(t) PROVE AdapterInv'
<1>1. /\ turn \in [Turns -> TurnRow] /\ turn[t] \in TurnRow /\ RefusedOK(t)
      /\ rejected \subseteq Unsupported
  BY DEF AdapterInv, AdapterTypes
<1>2. Unsupported \subseteq Params /\ Denied \subseteq Plugins /\ Dead \subseteq Plugins
  BY AdapterAssumption
<1> DEFINE old == turn[t]
(* A step that ends the turn or moves it on, with the body it has.         *)
<1>3. ASSUME NEW how \in {"chat.end", "error", "cancelled"}, End(t, how), rejected' = rejected,
             old.at # "done"
      PROVE  AdapterInv'
  <2>1. PICK tr : tr = [old EXCEPT !.at = "done", !.end = how] OBVIOUS
  <2>2. /\ tr \in TurnRow /\ tr.at = "done" /\ tr.end = how /\ tr.refused = old.refused
    BY <1>1, <2>1 DEF TurnRow
  <2>3. turn' = [turn EXCEPT ![t] = tr] BY <1>3, <2>1 DEF End, Set
  <2> QED BY <1>1, <1>3, <2>2, <2>3, OtherTurnsKeep DEF RefusedOK
<1>4. ASSUME NEW denied \in SUBSET Denied, NEW dead \in SUBSET Dead, StartTurn(t, denied, dead)
      PROVE  AdapterInv'
  <2>1. PICK tr : tr = [old EXCEPT !.at = "posted", !.plugins = Plugins,
                            !.denied = denied, !.dead = dead, !.body = StripRejected(Params)]
    OBVIOUS
  <2>2. tr \in TurnRow /\ tr.at = "posted" /\ tr.refused = old.refused /\ tr.end = old.end
    BY <1>1, <1>2, <2>1 DEF TurnRow, StripRejected
  <2>3. turn' = [turn EXCEPT ![t] = tr] /\ rejected' = rejected /\ old.at = "idle"
    BY <1>4, <2>1 DEF StartTurn, Set
  <2>4. old.refused = {} BY <1>1, <2>3 DEF RefusedOK
  <2> QED BY <1>1, <2>2, <2>3, <2>4, OtherTurnsKeep DEF RefusedOK
<1>5. CASE ParamRefused(t)
  <2>1. CASE old.why # "first"
    BY <1>3, <1>5, <2>1 DEF ParamRefused
  <2>2. CASE old.why = "first"
    <3>1. PICK p \in Refused(t) :
            /\ rejected' = rejected \cup {p}
            /\ Set(t, [turn[t] EXCEPT !.why = "retry",
                       !.refused = @ \cup {p}, !.body = RetryBody(t, p)])
      BY <1>5, <2>2 DEF ParamRefused
    <3>2. PICK tr : tr = [old EXCEPT !.why = "retry", !.refused = old.refused \cup {p},
                              !.body = RetryBody(t, p)]
      OBVIOUS
    <3>3. p \in Unsupported /\ p \in Params BY <1>2, <3>1 DEF Refused
    <3>4. RetryBody(t, p) = old.body \ (rejected \cup {p}) BY DEF RetryBody
    <3>5. /\ tr \in TurnRow /\ tr.at = old.at /\ tr.refused = old.refused \cup {p}
          /\ tr.end = old.end /\ tr.body = old.body \ (rejected \cup {p})
      BY <1>1, <3>2, <3>3, <3>4 DEF TurnRow
    <3>6. turn' = [turn EXCEPT ![t] = tr] /\ old.at = "posted"
      BY <1>5, <3>1, <3>2 DEF Set, ParamRefused
    <3>7. tr.body \cap tr.refused = {} BY <1>1, <3>5 DEF RefusedOK
    <3> QED BY <1>1, <3>1, <3>3, <3>5, <3>6, <3>7, OtherTurnsKeep DEF RefusedOK
  <2> QED BY <2>1, <2>2
(* A degraded request starts from the parameters the cache leaves in.      *)
<1>6. ASSUME NEW tr \in TurnRow, tr.body = StripRejected(Params),
             tr.refused = old.refused, tr.end = old.end, tr.at \in {"posted", "warning"},
             turn' = [turn EXCEPT ![t] = tr], rejected' = rejected, old.at # "done"
      PROVE  AdapterInv'
  BY <1>1, <1>6, OtherTurnsKeep DEF RefusedOK, StripRejected
<1>7. CASE PluginsDenied(t)
  <2>1. old.at = "posted" /\ rejected' = rejected BY <1>7 DEF PluginsDenied
  <2>2. CASE old.why \notin {"first", "retry"} BY <1>3, <1>7, <2>1, <2>2 DEF PluginsDenied
  <2>3. CASE old.why \in {"first", "retry"}
    <3>1. PICK gone : Set(t, [DegradedRequest(t, gone) EXCEPT !.at = "warning"])
      BY <1>7, <2>3 DEF PluginsDenied
    <3>2. PICK tr : tr = [DegradedRequest(t, gone) EXCEPT !.at = "warning"] OBVIOUS
    <3>3. /\ tr \in TurnRow /\ tr.at = "warning" /\ tr.refused = old.refused
          /\ tr.end = old.end /\ tr.body = StripRejected(Params)
      BY <1>1, <3>2 DEF DegradedRequest, TurnRow, StripRejected
    <3>4. turn' = [turn EXCEPT ![t] = tr] BY <3>1, <3>2 DEF Set
    <3> QED BY <1>6, <2>1, <3>3, <3>4
  <2> QED BY <2>2, <2>3
<1>8. ASSUME NEW gone, RetryWithDroppedPlugins(t, gone), rejected' = rejected, old.at # "done"
      PROVE  AdapterInv'
  <2>1. PICK tr : tr = [DegradedRequest(t, gone) EXCEPT !.at = "posted", !.why = "plugin",
                            !.degraded = TRUE]
    OBVIOUS
  <2>2. /\ tr \in TurnRow /\ tr.at = "posted" /\ tr.refused = old.refused
        /\ tr.end = old.end /\ tr.body = StripRejected(Params)
    BY <1>1, <2>1 DEF DegradedRequest, TurnRow, StripRejected
  <2>3. turn' = [turn EXCEPT ![t] = tr] BY <1>8, <2>1 DEF RetryWithDroppedPlugins, Set
  <2> QED BY <1>6, <1>8, <2>2, <2>3
(* A step forward from a request whose answer is there.                    *)
<1>9. ASSUME NEW tr \in TurnRow, turn' = [turn EXCEPT ![t] = tr], rejected' = rejected,
             tr.refused = old.refused, tr.body = old.body, tr.end = old.end,
             tr.at \in {"posted", "warned", "streaming"}, old.at \notin {"idle", "done"},
             tr.at = "posted" => old.at = "warning"
      PROVE  AdapterInv'
  BY <1>1, <1>9, OtherTurnsKeep DEF RefusedOK
<1>10. CASE PostDegraded(t)
  <2>1. PICK tr : tr = [old EXCEPT !.at = "posted", !.why = "denied"] OBVIOUS
  <2>2. /\ tr \in TurnRow /\ tr.at = "posted" /\ tr.refused = old.refused
        /\ tr.end = old.end /\ tr.body = old.body
    BY <1>1, <2>1 DEF TurnRow
  <2> QED BY <1>9, <1>10, <2>1, <2>2 DEF PostDegraded, Set
<1>11. CASE PluginsDead(t)
  BY <1>3, <1>8, <1>11 DEF PluginsDead
<1>12. CASE PostFails(t) BY <1>3, <1>12 DEF PostFails
<1>13. CASE StreamOpens(t)
  <2>1. PICK at \in {"warned", "streaming"} : Set(t, [turn[t] EXCEPT !.at = at])
    BY <1>13 DEF StreamOpens
  <2>2. PICK tr : tr = [old EXCEPT !.at = at] OBVIOUS
  <2>3. /\ tr \in TurnRow /\ tr.at = at /\ tr.refused = old.refused
        /\ tr.end = old.end /\ tr.body = old.body
    BY <1>1, <2>2 DEF TurnRow
  <2> QED BY <1>9, <1>13, <2>1, <2>2, <2>3 DEF StreamOpens, Set
<1>14. CASE StreamAfterWarning(t)
  <2>1. PICK tr : tr = [old EXCEPT !.at = "streaming"] OBVIOUS
  <2>2. /\ tr \in TurnRow /\ tr.at = "streaming" /\ tr.refused = old.refused
        /\ tr.end = old.end /\ tr.body = old.body
    BY <1>1, <2>1 DEF TurnRow
  <2> QED BY <1>9, <1>14, <2>1, <2>2 DEF StreamAfterWarning, Set
<1>15. CASE ShowContent(t)
  <2>1. PICK tr : tr = [old EXCEPT !.shown = TRUE] OBVIOUS
  <2>2. /\ tr \in TurnRow /\ tr.at = old.at /\ tr.refused = old.refused
        /\ tr.end = old.end /\ tr.body = old.body
    BY <1>1, <2>1 DEF TurnRow
  <2> QED BY <1>9, <1>15, <2>1, <2>2 DEF ShowContent, Set
<1>16. CASE StreamNamesDead(t)
  BY <1>3, <1>8, <1>16 DEF StreamNamesDead
<1>17. CASE StreamEnds(t) BY <1>3, <1>17 DEF StreamEnds
<1>18. CASE Abandoned(t) BY <1>3, <1>18 DEF Abandoned
<1> QED BY <1>4, <1>5, <1>7, <1>10, <1>11, <1>12, <1>13, <1>14, <1>15, <1>16, <1>17, <1>18
        DEF TurnStep

LEMMA ForgetKeeps == ASSUME AdapterInv, NEW p \in Params, Forget(p) PROVE AdapterInv'
<1>1. /\ turn \in [Turns -> TurnRow] /\ rejected \subseteq Unsupported
      /\ rejected' = rejected \ {p}
      /\ turn' = [t \in Turns |-> [turn[t] EXCEPT !.refused = @ \ {p}]]
  BY DEF AdapterInv, AdapterTypes, Forget
<1>2. ASSUME NEW t \in Turns
      PROVE  /\ turn'[t] \in TurnRow /\ turn'[t].refused = turn[t].refused \ {p}
             /\ turn'[t].at = turn[t].at /\ turn'[t].body = turn[t].body
             /\ turn'[t].end = turn[t].end
  <2>1. turn[t] \in TurnRow /\ turn'[t] = [turn[t] EXCEPT !.refused = turn[t].refused \ {p}]
    BY <1>1
  <2> QED BY <2>1 DEF TurnRow
<1>3. AdapterTypes' BY <1>1, <1>2 DEF AdapterTypes
<1>4. \A t \in Turns : RefusedOK(t)' BY ZenonT(30), <1>1, <1>2 DEF AdapterInv, RefusedOK
<1> QED BY <1>3, <1>4 DEF AdapterInv

LEMMA AdapterInvHolds == AdapterSpec => []AdapterInv
<1>1. AdapterInv /\ [AdapterNext]_adapterVars => AdapterInv'
  <2>1. ASSUME AdapterInv, UNCHANGED adapterVars PROVE AdapterInv'
    BY <2>1 DEF adapterVars, AdapterInv, AdapterTypes, RefusedOK
  <2> QED BY <2>1, AdapterStepKeeps, ForgetKeeps DEF AdapterNext
<1> QED BY <1>1, AdapterInit_Inv, PTL DEF AdapterSpec

(* A parameter the model refused a turn is in none of the turn's later     *)
(* requests, whichever of the retries sends them and whatever the other    *)
(* turns learn or the cache forgets meanwhile (strip_rejected,             *)
(* _build_degraded_request, record_rejection).                             *)
THEOREM RefusedParametersStayOut == AdapterSpec => []RefusedStaysOut
<1>1. AdapterInv => RefusedStaysOut BY DEF AdapterInv, RefusedOK, RefusedStaysOut
<1> QED BY <1>1, AdapterInvHolds, PTL

-----------------------------------------------------------------------------
(* The model catalog. Inductive: at most the head of the queue of rewirers *)
(* has swapped the client in and not dropped the catalog yet; while nobody *)
(* has, whoever asks the server asks it through the client of the moment,  *)
(* and a client is closed only when another one, made later, took over.    *)

SaveSteps == {"idle", "probe", "fetch", "write", "read", "enter", "lock", "registry",
              "invalidate", "done", "refused"}
Settings == [{"url", "key"} -> Made]
SaveRow == [at : SaveSteps, sets : SUBSET {"url", "key"}, row : Settings, old : Made]
CatalogTypes ==
  /\ stored \in Settings /\ save \in [Saves -> SaveRow]
  /\ probe \in [Probers -> [at : {"idle", "wait", "asked", "sync", "done"}, client : Made]]
  /\ registry \in [client : Made, providers : Made, building : Made \cup {NoOne}]
  /\ httpClient \in Made /\ rewirers \in Seq(Saves)

Swapping(s) == save[s].at \in {"registry", "invalidate"}
SwapsDone == \A s \in Saves : ~Swapping(s)
Live == {Boot} \cup {s \in Saves : save[s].at \in {"registry", "invalidate", "done"}}

QueueOK(s) ==
  /\ Swapping(s) => rewirers # <<>> /\ Head(rewirers) = s /\ httpClient = s
  /\ save[s].at = "lock" => \E i \in 1 .. Len(rewirers) : rewirers[i] = s
  /\ save[s].at \in {"lock", "registry", "invalidate"} => save[s].old \in Live \ {s}
ClientsOK == httpClient \in Live /\ closing \subseteq Live /\ httpClient \notin closing
ProbeOK(p) ==
  probe[p].at = "asked" => cacheLock = p /\ (SwapsDone => probe[p].client = httpClient)
CacheOK == SwapsDone => cache \in {httpClient, NoOne} /\ flag \in {httpClient, NoOne}
RegistryOK ==
  /\ registry.building \in {NoOne, registry.client}
  /\ (\A s \in Saves : save[s].at # "registry") =>
       registry.client = httpClient /\ registry.providers = httpClient

CatalogInv ==
  /\ CatalogTypes /\ ClientsOK /\ CacheOK /\ RegistryOK
  /\ \A s \in Saves : QueueOK(s)
  /\ \A p \in Probers : ProbeOK(p)

LEMMA NamesDiffer ==
  /\ Boot \notin Saves /\ NoOne \notin Made /\ NoOne \notin Probers /\ Saves \subseteq Probers
  /\ Saves \subseteq Made /\ Boot \in Made
BY CatalogAssumption DEF Made, Probers

LEMMA CatalogInit_Inv == CatalogInit => CatalogInv
<1> SUFFICES ASSUME CatalogInit PROVE CatalogInv OBVIOUS
<1>1. \A s \in Saves : save[s].at = "idle" /\ save[s] = [at |-> "idle", sets |-> {}, row |-> BootRow, old |-> Boot]
  BY DEF CatalogInit
<1>2. BootRow \in Settings BY NamesDiffer DEF BootRow, Settings
<1>3. [at |-> "idle", sets |-> {}, row |-> BootRow, old |-> Boot] \in SaveRow
  BY <1>2, NamesDiffer DEF SaveRow, SaveSteps
<1>4. CatalogTypes BY <1>2, <1>3, NamesDiffer DEF CatalogInit, CatalogTypes
<1>5. ClientsOK BY DEF CatalogInit, ClientsOK, Live
<1>6. CacheOK /\ RegistryOK BY DEF CatalogInit, CacheOK, RegistryOK
<1>7. \A s \in Saves : QueueOK(s) BY <1>1 DEF QueueOK, Swapping
<1>8. \A p \in Probers : ProbeOK(p) BY DEF CatalogInit, ProbeOK
<1> QED BY <1>4, <1>5, <1>6, <1>7, <1>8 DEF CatalogInv

(* What a save's step writes.                                              *)
LEMMA SaveMovesTo ==
  ASSUME CatalogTypes, NEW s \in Saves, NEW at \in SaveSteps, save' = [save EXCEPT ![s].at = at]
  PROVE  /\ save' \in [Saves -> SaveRow]
         /\ save'[s].at = at /\ save'[s].old = save[s].old
         /\ \A u \in Saves : u # s => save'[u] = save[u]
BY DEF CatalogTypes, SaveRow

(* A save that has not asked for the lock moves on before it does.         *)
QuietSteps == {"idle", "probe", "fetch", "refused", "write", "read", "enter"}

LEMMA QuietSaveMoves ==
  ASSUME CatalogTypes, NEW s \in Saves,
         BeginSave(s) \/ ProbeNew(s) \/ FetchRow(s) \/ WriteRow(s) \/ ReadStored(s)
  PROVE  /\ save' \in [Saves -> SaveRow] /\ stored' \in Settings
         /\ save[s].at \in QuietSteps /\ save'[s].at \in QuietSteps
         /\ \A u \in Saves : u # s => save'[u] = save[u]
<1>1. stored \in Settings /\ save \in [Saves -> SaveRow] BY DEF CatalogTypes
<1>2. CASE BeginSave(s)
  <2>1. PICK new \in SUBSET {"url", "key"} :
          save' = [save EXCEPT ![s].at = "probe", ![s].sets = new]
    BY <1>2 DEF BeginSave
  <2> QED BY ZenonT(30), <1>1, <1>2, <2>1 DEF BeginSave, SaveRow, SaveSteps, QuietSteps
<1>3. CASE ProbeNew(s) BY <1>1, <1>3 DEF ProbeNew, SaveRow, SaveSteps, QuietSteps
<1>4. CASE FetchRow(s) BY <1>1, <1>4 DEF FetchRow, SaveRow, SaveSteps, QuietSteps
<1>5. CASE WriteRow(s)
  <2>1. save[s].row \in Settings BY <1>1 DEF SaveRow
  <2>2. Patched(save[s].row, s) \in Settings BY <2>1, NamesDiffer DEF Patched, Settings
  <2> QED BY <1>1, <1>5, <2>2 DEF WriteRow, SaveRow, SaveSteps, QuietSteps
<1>6. CASE ReadStored(s) BY ZenonT(30), <1>1, <1>6 DEF ReadStored, SaveRow, SaveSteps, QuietSteps
<1> QED BY <1>2, <1>3, <1>4, <1>5, <1>6

LEMMA QuietSaveKeeps ==
  ASSUME CatalogInv, NEW s \in Saves,
         BeginSave(s) \/ ProbeNew(s) \/ FetchRow(s) \/ WriteRow(s) \/ ReadStored(s)
  PROVE  CatalogInv'
<1>1. CatalogTypes BY DEF CatalogInv
<1>2. /\ UNCHANGED <<httpClient, rewirers, registry, closing>>
      /\ UNCHANGED <<cacheLock, cache, flag, mirror, probe, inFlight>>
  BY DEF BeginSave, ProbeNew, FetchRow, WriteRow, ReadStored, swapVars, probeVars
<1>3. /\ save' \in [Saves -> SaveRow] /\ stored' \in Settings
      /\ save[s].at \in QuietSteps /\ save'[s].at \in QuietSteps
      /\ \A u \in Saves : u # s => save'[u] = save[u]
  BY <1>1, QuietSaveMoves
<1>4. /\ \A u \in Saves : Swapping(u)' <=> Swapping(u)
      /\ Live' = Live
      /\ \A u \in Saves : save'[u].at = "registry" <=> save[u].at = "registry"
  BY <1>3 DEF Swapping, Live, QuietSteps
<1>5. CatalogTypes' BY <1>1, <1>2, <1>3 DEF CatalogTypes
<1>6. ClientsOK' /\ CacheOK' /\ RegistryOK'
  BY <1>2, <1>4 DEF CatalogInv, ClientsOK, CacheOK, RegistryOK, SwapsDone
<1>7. \A u \in Saves : QueueOK(u)'
  BY <1>2, <1>3, <1>4 DEF CatalogInv, QueueOK, QuietSteps
<1>8. \A p \in Probers : ProbeOK(p)' BY <1>2, <1>4 DEF CatalogInv, ProbeOK, SwapsDone
<1> QED BY <1>5, <1>6, <1>7, <1>8 DEF CatalogInv

(* A save becomes the head of the queue and swaps its client in.           *)
LEMMA SwapInKeeps ==
  ASSUME CatalogInv, NEW s \in Saves, save[s].at \in {"enter", "lock"}, SwapsDone,
         save' \in [Saves -> SaveRow], UNCHANGED stored,
         save'[s].at = "registry", save'[s].old \in Live \ {s},
         \A u \in Saves : u # s => save'[u] = save[u],
         rewirers' \in Seq(Saves), rewirers' # <<>>, Head(rewirers') = s,
         \A u \in Saves : save[u].at = "lock" => \E i \in 1 .. Len(rewirers') : rewirers'[i] = u,
         httpClient' = s, UNCHANGED <<registry, closing, cacheLock, cache, flag, probe>>
  PROVE  CatalogInv'
<1>1. Boot \notin Saves /\ Saves \subseteq Made BY NamesDiffer
<1>2. s \notin Live /\ Live' = Live \cup {s} BY <1>1 DEF Live
<1>3. CatalogTypes' BY <1>1 DEF CatalogInv, CatalogTypes
<1>4. ClientsOK' BY <1>2 DEF CatalogInv, ClientsOK
<1>5. Swapping(s)' /\ ~SwapsDone' BY DEF Swapping, SwapsDone
<1>6. CacheOK' BY <1>5 DEF CacheOK
<1>7. RegistryOK' BY DEF CatalogInv, RegistryOK
<1>8. \A p \in Probers : ProbeOK(p)' BY <1>5 DEF CatalogInv, ProbeOK
<1>9. ASSUME NEW u \in Saves PROVE QueueOK(u)'
  <2>1. CASE u = s BY <1>2, <2>1 DEF QueueOK
  <2>2. CASE u # s
    <3>1. ~Swapping(u)' BY <2>2 DEF SwapsDone, Swapping
    <3> QED BY <1>2, <2>2, <3>1 DEF CatalogInv, QueueOK, Swapping
  <2> QED BY <2>1, <2>2
<1> QED BY <1>3, <1>4, <1>6, <1>7, <1>8, <1>9 DEF CatalogInv

LEMMA EnterRewireKeeps == ASSUME CatalogInv, NEW s \in Saves, EnterRewire(s) PROVE CatalogInv'
<1>1. CatalogTypes /\ httpClient \in Live /\ rewirers \in Seq(Saves)
  BY DEF CatalogInv, CatalogTypes, ClientsOK
<1>2. save \in [Saves -> SaveRow] /\ httpClient \in Made BY <1>1 DEF CatalogTypes
<1>3. save[s].at = "enter" /\ UNCHANGED <<stored, registry, closing, cacheLock, cache, flag, probe>>
  BY DEF EnterRewire, probeVars
<1>4. PICK at \in {"registry", "lock"} :
        /\ at = (IF rewirers = <<>> THEN "registry" ELSE "lock")
        /\ save' = [save EXCEPT ![s].old = httpClient, ![s].at = at]
  BY DEF EnterRewire
<1>5. /\ save' \in [Saves -> SaveRow] /\ save'[s].at = at /\ save'[s].old = httpClient
      /\ \A u \in Saves : u # s => save'[u] = save[u]
  BY ZenonT(30), <1>2, <1>4 DEF SaveRow, SaveSteps
<1>6. rewirers' = Append(rewirers, s) /\ httpClient' = IF rewirers = <<>> THEN s ELSE httpClient
  BY DEF EnterRewire
<1>7. s \notin Live BY <1>3, NamesDiffer DEF Live
<1>8. CASE rewirers = <<>>
  <2>1. SwapsDone BY <1>8 DEF SwapsDone, CatalogInv, QueueOK
  <2>2. rewirers' \in Seq(Saves) /\ rewirers' # <<>> /\ Head(rewirers') = s /\ Len(rewirers) = 0
    BY <1>1, <1>6, <1>8
  <2>3. \A u \in Saves : save[u].at # "lock" BY <2>2 DEF CatalogInv, QueueOK
  <2> QED BY <1>1, <1>3, <1>4, <1>5, <1>6, <1>7, <1>8, <2>1, <2>2, <2>3, SwapInKeeps
<1>9. CASE rewirers # <<>>
  <2>1. at = "lock" /\ httpClient' = httpClient BY <1>4, <1>6, <1>9
  <2>2. /\ rewirers' \in Seq(Saves) /\ rewirers' # <<>> /\ Head(rewirers') = Head(rewirers)
        /\ Len(rewirers') = Len(rewirers) + 1 /\ rewirers'[Len(rewirers) + 1] = s
        /\ \A i \in 1 .. Len(rewirers) : rewirers'[i] = rewirers[i]
    BY <1>1, <1>6, <1>9
  <2>3. /\ \A u \in Saves : Swapping(u)' <=> Swapping(u)
        /\ Live' = Live
        /\ \A u \in Saves : save'[u].at = "registry" <=> save[u].at = "registry"
    BY <1>3, <1>5, <2>1 DEF Swapping, Live
  <2>4. CatalogTypes' BY <1>1, <1>3, <1>5, <2>1, <2>2 DEF CatalogTypes
  <2>5. ClientsOK' /\ CacheOK' /\ RegistryOK'
    BY <1>3, <2>1, <2>3 DEF CatalogInv, ClientsOK, CacheOK, RegistryOK, SwapsDone
  <2>6. ASSUME NEW u \in Saves PROVE QueueOK(u)'
    <3>1. CASE u = s
      <4>1. ~Swapping(u)' BY <1>5, <2>1, <3>1 DEF Swapping
      <4>2. Len(rewirers) + 1 \in 1 .. Len(rewirers') BY <1>1, <2>2
      <4> QED BY <1>1, <1>5, <1>7, <2>1, <2>2, <2>3, <3>1, <4>1, <4>2 DEF QueueOK
    <3>2. CASE u # s
      <4>1. save'[u] = save[u] /\ QueueOK(u) BY <1>5, <3>2 DEF CatalogInv
      <4>2. 1 .. Len(rewirers) \subseteq 1 .. Len(rewirers') BY <1>1, <2>2
      <4> QED BY <2>1, <2>2, <2>3, <4>1, <4>2 DEF QueueOK
    <3> QED BY <3>1, <3>2
  <2>7. \A p \in Probers : ProbeOK(p)' BY <1>3, <2>1, <2>3 DEF CatalogInv, ProbeOK, SwapsDone
  <2> QED BY <2>4, <2>5, <2>6, <2>7 DEF CatalogInv
<1> QED BY <1>8, <1>9

LEMMA SwapKeepsCatalog == ASSUME CatalogInv, NEW s \in Saves, Swap(s) PROVE CatalogInv'
<1>1. CatalogTypes /\ QueueOK(s) /\ rewirers \in Seq(Saves)
  BY DEF CatalogInv, CatalogTypes
<1>2. /\ save[s].at = "lock" /\ Head(rewirers) = s /\ httpClient' = s
      /\ save' = [save EXCEPT ![s].at = "registry"]
      /\ UNCHANGED <<stored, rewirers, registry, closing, cacheLock, cache, flag, probe>>
  BY DEF Swap, probeVars
<1>3. rewirers # <<>> /\ save[s].old \in Live \ {s} BY <1>1, <1>2 DEF QueueOK
<1>4. "registry" \in SaveSteps BY DEF SaveSteps
<1>5. /\ save' \in [Saves -> SaveRow] /\ save'[s].at = "registry" /\ save'[s].old = save[s].old
      /\ \A u \in Saves : u # s => save'[u] = save[u]
  BY <1>1, <1>2, <1>4, SaveMovesTo
<1>6. SwapsDone BY <1>2 DEF SwapsDone, CatalogInv, QueueOK, Swapping
<1>7. \A u \in Saves : save[u].at = "lock" => \E i \in 1 .. Len(rewirers') : rewirers'[i] = u
  BY <1>2 DEF CatalogInv, QueueOK
<1> QED BY <1>1, <1>2, <1>3, <1>5, <1>6, <1>7, SwapInKeeps

(* The registry and the providers follow before the lock is released.      *)
LEMMA RebindKeeps == ASSUME CatalogInv, NEW s \in Saves, Rebind(s) PROVE CatalogInv'
<1>1. CatalogTypes /\ QueueOK(s) BY DEF CatalogInv
<1>2. /\ save[s].at = "registry" /\ registry.building = NoOne
      /\ registry' = [registry EXCEPT !.client = s, !.providers = s]
      /\ save' = [save EXCEPT ![s].at = "invalidate"]
      /\ UNCHANGED <<stored, httpClient, rewirers, closing, cacheLock, cache, flag, probe>>
  BY DEF Rebind, probeVars
<1>3. "invalidate" \in SaveSteps BY DEF SaveSteps
<1>4. /\ save' \in [Saves -> SaveRow] /\ save'[s].at = "invalidate" /\ save'[s].old = save[s].old
      /\ \A u \in Saves : u # s => save'[u] = save[u]
  BY <1>1, <1>2, <1>3, SaveMovesTo
<1>5. httpClient = s BY <1>1, <1>2 DEF QueueOK, Swapping
<1>6. /\ registry' \in [client : Made, providers : Made, building : Made \cup {NoOne}]
      /\ registry'.client = s /\ registry'.providers = s /\ registry'.building = NoOne
  BY <1>1, <1>2, NamesDiffer DEF CatalogTypes
<1>7. (\A u \in Saves : Swapping(u)' <=> Swapping(u)) /\ Live' = Live
  BY <1>2, <1>4 DEF Swapping, Live
<1>8. CatalogTypes' BY <1>1, <1>2, <1>4, <1>6 DEF CatalogTypes
<1>9. ClientsOK' /\ CacheOK' /\ RegistryOK'
  BY <1>2, <1>5, <1>6, <1>7 DEF CatalogInv, ClientsOK, CacheOK, RegistryOK, SwapsDone
<1>10. \A u \in Saves : QueueOK(u)' BY <1>2, <1>4, <1>7 DEF CatalogInv, QueueOK
<1>11. \A p \in Probers : ProbeOK(p)' BY <1>2, <1>7 DEF CatalogInv, ProbeOK, SwapsDone
<1> QED BY <1>8, <1>9, <1>10, <1>11 DEF CatalogInv

(* The catalog is dropped while nobody asks: whoever asks after it asks    *)
(* through the new client.                                                 *)
LEMMA InvalidateKeeps == ASSUME CatalogInv, NEW s \in Saves, Invalidate(s) PROVE CatalogInv'
<1>1. CatalogTypes /\ QueueOK(s) /\ rewirers \in Seq(Saves) BY DEF CatalogInv, CatalogTypes
<1>2. /\ save[s].at = "invalidate" /\ cacheLock = NoOne
      /\ cache' = NoOne /\ flag' = NoOne
      /\ save' = [save EXCEPT ![s].at = "done"] /\ rewirers' = Tail(rewirers)
      /\ closing' = closing \cup {save[s].old} /\ probe' = [probe EXCEPT ![s].at = "wait"]
      /\ UNCHANGED <<stored, httpClient, registry, cacheLock>>
  BY DEF Invalidate, EndRewire
<1>3. "done" \in SaveSteps BY DEF SaveSteps
<1>4. /\ save' \in [Saves -> SaveRow] /\ save'[s].at = "done" /\ save'[s].old = save[s].old
      /\ \A u \in Saves : u # s => save'[u] = save[u]
  BY <1>1, <1>2, <1>3, SaveMovesTo
<1>5. rewirers # <<>> /\ Head(rewirers) = s /\ httpClient = s /\ save[s].old \in Live \ {s}
  BY <1>1, <1>2 DEF QueueOK, Swapping
<1>6. \A u \in Saves : u # s => ~Swapping(u) BY <1>5 DEF CatalogInv, QueueOK
<1>7. Live' = Live /\ SwapsDone' /\ \A u \in Saves : ~Swapping(u)'
  BY <1>2, <1>4, <1>6 DEF Live, SwapsDone, Swapping
<1>8. /\ Tail(rewirers) \in Seq(Saves) /\ Len(Tail(rewirers)) = Len(rewirers) - 1
      /\ \A i \in 1 .. Len(rewirers) - 1 : Tail(rewirers)[i] = rewirers[i + 1]
      /\ rewirers[1] = s /\ Len(rewirers) \in Nat
  BY <1>1, <1>5
<1>9. /\ probe' \in [Probers -> [at : {"idle", "wait", "asked", "sync", "done"}, client : Made]]
      /\ \A p \in Probers : probe'[p].at # "asked"
  BY <1>1, <1>2, NamesDiffer DEF CatalogInv, CatalogTypes, ProbeOK
<1>10. CatalogTypes' BY <1>1, <1>2, <1>4, <1>8, <1>9 DEF CatalogTypes
<1>11. ClientsOK' BY <1>2, <1>5, <1>7 DEF CatalogInv, ClientsOK
<1>12. CacheOK' BY <1>2 DEF CacheOK
<1>13. RegistryOK'
  <2>1. \A u \in Saves : save[u].at # "registry" BY <1>2, <1>6 DEF Swapping
  <2> QED BY <1>2, <2>1 DEF CatalogInv, RegistryOK
<1>14. ASSUME NEW u \in Saves PROVE QueueOK(u)'
  <2>1. CASE u = s BY <1>4, <1>7, <2>1 DEF QueueOK
  <2>2. CASE u # s
    <3>1. save'[u] = save[u] /\ QueueOK(u) BY <1>4, <2>2 DEF CatalogInv
    <3>2. ASSUME save[u].at = "lock" PROVE \E i \in 1 .. Len(rewirers') : rewirers'[i] = u
      <4>1. PICK i \in 1 .. Len(rewirers) : rewirers[i] = u BY <3>1, <3>2 DEF QueueOK
      <4>2. i # 1 BY <1>8, <2>2, <4>1
      <4>3. i - 1 \in 1 .. Len(rewirers) - 1 /\ (i - 1) + 1 = i BY <1>8, <4>1, <4>2
      <4>4. Tail(rewirers)[i - 1] = u BY <1>8, <4>1, <4>3
      <4> QED BY <1>2, <1>8, <4>3, <4>4
    <3> QED BY <1>7, <3>1, <3>2 DEF QueueOK
  <2> QED BY <2>1, <2>2
<1>15. \A p \in Probers : ProbeOK(p)' BY <1>9 DEF ProbeOK
<1> QED BY <1>10, <1>11, <1>12, <1>13, <1>14, <1>15 DEF CatalogInv

LEMMA RegistryRefreshKeeps ==
  ASSUME CatalogInv, BeginRegistryRefresh \/ EndRegistryRefresh PROVE CatalogInv'
<1>1. CatalogTypes BY DEF CatalogInv
<1>2. UNCHANGED <<stored, save, httpClient, rewirers, closing, cacheLock, cache, flag, probe>>
  BY DEF BeginRegistryRefresh, EndRegistryRefresh, storeVars, probeVars
<1>3. /\ registry' \in [client : Made, providers : Made, building : Made \cup {NoOne}]
      /\ RegistryOK'
  BY <1>1, <1>2, NamesDiffer
  DEF CatalogInv, CatalogTypes, RegistryOK, BeginRegistryRefresh, EndRegistryRefresh
<1>4. CatalogTypes' BY <1>1, <1>2, <1>3 DEF CatalogTypes
<1>5. ClientsOK' /\ CacheOK' BY <1>2 DEF CatalogInv, ClientsOK, CacheOK, Live, SwapsDone, Swapping
<1>6. \A s \in Saves : QueueOK(s)' BY <1>2 DEF CatalogInv, QueueOK, Live, Swapping
<1>7. \A p \in Probers : ProbeOK(p)' BY <1>2 DEF CatalogInv, ProbeOK, SwapsDone, Swapping
<1> QED BY <1>3, <1>4, <1>5, <1>6, <1>7 DEF CatalogInv

(* Under the lock, and with the client of the moment it was asked through.  *)
LEMMA ProberKeeps == ASSUME CatalogInv, NEW p \in Probers, Prober(p) PROVE CatalogInv'
<1>1. /\ CatalogTypes /\ CacheOK /\ ProbeOK(p) /\ \A q \in Probers : ProbeOK(q)
      /\ probe \in [Probers -> [at : {"idle", "wait", "asked", "sync", "done"}, client : Made]]
  BY DEF CatalogInv, CatalogTypes
<1>2. UNCHANGED <<stored, save, httpClient, rewirers, registry, closing>>
  BY DEF Prober, BeginRefresh, SkipRefresh, BeginForced, Ask, AnswerProbe, SyncMirror,
         storeVars, swapVars
<1>3. httpClient \in Made BY <1>1 DEF CatalogTypes
<1>4. SwapsDone' <=> SwapsDone BY <1>2 DEF SwapsDone, Swapping
<1>5. /\ probe' \in [Probers -> [at : {"idle", "wait", "asked", "sync", "done"}, client : Made]]
      /\ CacheOK' /\ \A q \in Probers : ProbeOK(q)'
  <2>1. CASE BeginRefresh(p) \/ SkipRefresh(p) \/ BeginForced(p)
    <3>1. /\ UNCHANGED <<cacheLock, cache>> /\ flag' \in {flag, NoOne}
          /\ \E at \in {"wait", "done"} : probe' = [probe EXCEPT ![p].at = at]
      BY <2>1 DEF BeginRefresh, SkipRefresh, BeginForced
    <3> QED BY <1>1, <1>2, <1>4, <3>1 DEF CacheOK, ProbeOK
  <2>2. CASE Ask(p)
    <3>1. /\ cacheLock = NoOne /\ cacheLock' = p /\ UNCHANGED <<cache, flag>>
          /\ probe' = [probe EXCEPT ![p] = [at |-> "asked", client |-> httpClient]]
      BY <2>2 DEF Ask
    <3>2. \A q \in Probers : probe[q].at # "asked" BY <1>1, <3>1, NamesDiffer DEF ProbeOK
    <3> QED BY <1>1, <1>2, <1>3, <1>4, <3>1, <3>2 DEF CacheOK, ProbeOK
  <2>3. CASE AnswerProbe(p)
    <3>1. /\ probe[p].at = "asked"
          /\ cache' \in {probe[p].client, cache} /\ flag' \in {probe[p].client, flag, NoOne}
          /\ \E at \in {"sync", "done"} : probe' = [probe EXCEPT ![p].at = at]
      BY <2>3 DEF AnswerProbe, EndProbe
    <3>2. \A q \in Probers : probe[q].at = "asked" => q = p BY <1>1, <3>1 DEF ProbeOK
    <3> QED BY <1>1, <1>2, <1>4, <3>1, <3>2 DEF CacheOK, ProbeOK
  <2>4. CASE SyncMirror(p)
    <3>1. UNCHANGED <<cacheLock, cache, flag>> /\ probe' = [probe EXCEPT ![p].at = "done"]
      BY <2>4 DEF SyncMirror
    <3> QED BY <1>1, <1>2, <1>4, <3>1 DEF CacheOK, ProbeOK
  <2> QED BY <2>1, <2>2, <2>3, <2>4 DEF Prober
<1>6. CatalogTypes' BY <1>1, <1>2, <1>5 DEF CatalogTypes
<1>7. ClientsOK' /\ RegistryOK' BY <1>2 DEF CatalogInv, ClientsOK, RegistryOK, Live
<1>8. \A s \in Saves : QueueOK(s)' BY <1>2 DEF CatalogInv, QueueOK, Live, Swapping
<1> QED BY <1>5, <1>6, <1>7, <1>8 DEF CatalogInv

LEMMA CatalogInvHolds == CatalogSpec => []CatalogInv
<1>1. CatalogInv /\ [CatalogNext]_catalogVars => CatalogInv'
  <2> SUFFICES ASSUME CatalogInv, [CatalogNext]_catalogVars PROVE CatalogInv' OBVIOUS
  <2>1. CASE BeginRegistryRefresh \/ EndRegistryRefresh BY <2>1, RegistryRefreshKeeps
  <2>2. ASSUME NEW s \in Saves, SaveStep(s) PROVE CatalogInv'
    BY <2>2, QuietSaveKeeps, EnterRewireKeeps, SwapKeepsCatalog, RebindKeeps, InvalidateKeeps
    DEF SaveStep
  <2>3. ASSUME NEW p \in Probers, Prober(p) PROVE CatalogInv' BY <2>3, ProberKeeps
  <2>4. CASE UNCHANGED catalogVars
    <3>1. UNCHANGED <<stored, save, httpClient, rewirers, cacheLock, cache, flag, probe, registry, closing>>
      BY <2>4 DEF catalogVars
    <3> QED BY <3>1 DEF CatalogInv, CatalogTypes, ClientsOK, CacheOK, RegistryOK, QueueOK,
                        ProbeOK, Live, SwapsDone, Swapping
  <2> QED BY <2>1, <2>2, <2>3, <2>4 DEF CatalogNext
<1> QED BY <1>1, CatalogInit_Inv, PTL DEF CatalogSpec

(* Whenever no rewire is under way, the catalog, the refused-key flag and   *)
(* the providers belong to the client the services use, and no scheduled    *)
(* close is going to close it, however many saves, refreshes and probes are *)
(* interleaved (rewire_singletons, ModelsService, ProviderRegistry).        *)
THEOREM ServicesStayTogether == CatalogSpec => []ServicesFollowClient
<1>1. CatalogInv => ServicesFollowClient
  <2> SUFFICES ASSUME CatalogInv, rewirers = <<>>
               PROVE  /\ cache \in {httpClient, NoOne} /\ flag \in {httpClient, NoOne}
                      /\ registry.client = httpClient /\ registry.providers = httpClient
                      /\ httpClient \notin closing
    BY DEF ServicesFollowClient
  <2>1. SwapsDone BY DEF CatalogInv, QueueOK, SwapsDone
  <2>2. \A s \in Saves : save[s].at # "registry" BY <2>1 DEF SwapsDone, Swapping
  <2> QED BY <2>1, <2>2 DEF CatalogInv, CacheOK, RegistryOK, ClientsOK
<1> QED BY <1>1, CatalogInvHolds, PTL

-----------------------------------------------------------------------------
(* The MCP host. Inductive: the client that holds a server's connect lock is *)
(* the only one that may pool a session of it, and nothing is pooled while it *)
(* does; a session that is pooled, or about to be, was listed, serves or was  *)
(* killed while it did, and nobody told it to stop.                           *)

Requests == Clients \cup {Stop}
TaskSteps == {"unborn", "opening", "serving", "closing", "ended"}
ReadyStates == {"none", "pending", "listed", "failed", "cancelled", "abandoned"}
TaskRow == [srv : Servers \cup {NoServer}, at : TaskSteps, ready : ReadyStates,
            queue : Seq(Requests), serving : Clients \cup {NoClient}, killed : BOOLEAN]
ClientSteps == {"idle", "locking", "handshake", "aborting", "connected", "calling", "done"}
ClientRow == [at : ClientSteps, srv : Servers \cup {NoServer}, sess : 0 .. MaxSessions]
AdminRow == [at : {"idle", "disconnect", "grace", "deleting"}, op : {"none", "disable", "delete"},
             srv : Servers \cup {NoServer}, sess : 0 .. MaxSessions]
McpTypes ==
  /\ pool \in [Servers -> 0 .. MaxSessions] /\ connLock \in [Servers -> Clients \cup {NoClient}]
  /\ session \in [Sessions -> TaskRow] /\ client \in [Clients -> ClientRow]
  /\ admin \in [Admins -> AdminRow]
  /\ answer \in [Clients -> {"none", "pending", "result", "failed", "cancelled"}]
  /\ \A c \in Clients : client[c].at # "idle" => client[c].srv \in Servers
  /\ \A a \in Admins : admin[a].at # "idle" => admin[a].srv \in Servers

HoldsLock(c) == client[c].at \in {"handshake", "aborting"}
Useful(i) ==
  /\ session[i].at = "serving" \/ (session[i].at = "ended" /\ session[i].killed)
  /\ ~Contains(session[i].queue, Stop)
LockOK(c) ==
  HoldsLock(c) =>
    /\ connLock[client[c].srv] = c /\ client[c].sess \in Sessions
    /\ session[client[c].sess].srv = client[c].srv /\ session[client[c].sess].ready # "none"
Handshaking(i) ==
  \/ session[i].ready = "pending" /\ session[i].at = "opening" /\ session[i].queue = <<>>
  \/ session[i].ready = "failed" /\ session[i].at = "ended"
  \/ session[i].ready = "listed" /\ Useful(i)
HandshakeOK(c) ==
  client[c].at = "handshake" => pool[client[c].srv] = 0 /\ Handshaking(client[c].sess)
PooledOK(s) ==
  pool[s] # 0 => session[pool[s]].srv = s /\ session[pool[s]].ready = "listed" /\ Useful(pool[s])
ReapOK(a) ==
  admin[a].at = "grace" =>
    admin[a].sess \in Sessions /\ session[admin[a].sess].ready \in {"listed", "abandoned"}
TaskOK(i) ==
  /\ session[i].at \in {"opening", "closing"} => session[i].serving = NoClient
  /\ Alive(i) => session[i].srv \in Servers
  /\ session[i].at = "unborn" => session[i] = Unborn
Awaited(i) ==
  \/ \E c \in Clients : HoldsLock(c) /\ client[c].sess = i
  \/ \E a \in Admins : admin[a].at = "grace" /\ admin[a].sess = i
KnownOK(i) ==
  Alive(i) /\ session[i].ready # "abandoned" => pool[session[i].srv] = i \/ Awaited(i)
Served(c, i) == WaitsFor(c, i) /\ (Alive(i) \/ session[i].killed)
AnswerOK(c) == answer[c] = "pending" => \E i \in Sessions : Served(c, i)

McpInv ==
  /\ McpTypes
  /\ \A c \in Clients : LockOK(c) /\ HandshakeOK(c) /\ AnswerOK(c)
  /\ \A s \in Servers : PooledOK(s)
  /\ \A i \in Sessions : TaskOK(i) /\ KnownOK(i)
  /\ \A a \in Admins : ReapOK(a)

LEMMA UnbornIsTask == Unborn \in TaskRow /\ Unborn.at = "unborn" /\ Unborn.ready = "none" /\ ~Unborn.killed
BY DEF Unborn, TaskRow, TaskSteps, ReadyStates, Requests

LEMMA SessionsAreNumbers == MaxSessions \in Nat /\ 0 \notin Sessions /\ Sessions \subseteq 0 .. MaxSessions
BY McpAssumption DEF Sessions

LEMMA McpInit_Inv == McpInit => McpInv
<1> SUFFICES ASSUME McpInit PROVE McpInv OBVIOUS
<1>1. \A i \in Sessions : session[i] = Unborn BY DEF McpInit
<1>2. \A c \in Clients : client[c].at = "idle" /\ answer[c] = "none" BY DEF McpInit, Idle
<1>3. \A a \in Admins : admin[a].at = "idle" BY DEF McpInit, Quiet
<1>4. Idle \in ClientRow /\ Quiet \in AdminRow
  BY SessionsAreNumbers DEF Idle, Quiet, ClientRow, AdminRow, ClientSteps
<1>5. McpTypes
  BY <1>2, <1>3, <1>4, UnbornIsTask, SessionsAreNumbers DEF McpInit, McpTypes
<1>6. \A c \in Clients : LockOK(c) /\ HandshakeOK(c) /\ AnswerOK(c)
  BY <1>2 DEF LockOK, HoldsLock, HandshakeOK, AnswerOK
<1>7. \A s \in Servers : PooledOK(s) BY DEF McpInit, PooledOK
<1>8. \A i \in Sessions : TaskOK(i) /\ KnownOK(i)
  BY <1>1, UnbornIsTask DEF TaskOK, KnownOK, Alive
<1>9. \A a \in Admins : ReapOK(a) BY <1>3 DEF ReapOK
<1> QED BY <1>5, <1>6, <1>7, <1>8, <1>9 DEF McpInv

LEMMA ClientMoves ==
  ASSUME McpTypes, NEW c \in Clients, NEW at \in ClientSteps, Move(c, at)
  PROVE  /\ client' \in [Clients -> ClientRow]
         /\ client'[c].at = at /\ client'[c].srv = client[c].srv /\ client'[c].sess = client[c].sess
         /\ \A d \in Clients : d # c => client'[d] = client[d]
BY DEF McpTypes, ClientRow, Move

(* Steps that neither touch a session nor take or leave a lock.             *)
LEMMA McpQuietKeeps ==
  ASSUME McpInv, UNCHANGED <<session, pool, connLock>>,
         client' \in [Clients -> ClientRow], admin' \in [Admins -> AdminRow],
         answer' \in [Clients -> {"none", "pending", "result", "failed", "cancelled"}],
         \A c \in Clients : client'[c].at # "idle" => client'[c].srv \in Servers,
         \A a \in Admins : admin'[a].at # "idle" => admin'[a].srv \in Servers,
         \A c \in Clients : client'[c] = client[c] \/ (~HoldsLock(c) /\ ~HoldsLock(c)'),
         \A a \in Admins : admin'[a] = admin[a] \/ (admin[a].at # "grace" /\ admin'[a].at # "grace"),
         \A c \in Clients : answer'[c] = "pending" => answer[c] = "pending"
  PROVE  McpInv'
<1>1. McpTypes' BY DEF McpInv, McpTypes
<1>2. \A i \in Sessions : Alive(i)' = Alive(i) /\ Useful(i)' = Useful(i) /\ TaskOK(i)' /\ Handshaking(i)' = Handshaking(i)
  BY DEF McpInv, Alive, Useful, TaskOK, Handshaking
<1>3. ASSUME NEW c \in Clients PROVE LockOK(c)' /\ HandshakeOK(c)' /\ AnswerOK(c)'
  <2>1. LockOK(c) /\ HandshakeOK(c) /\ AnswerOK(c) BY DEF McpInv
  <2>2. LockOK(c)' /\ HandshakeOK(c)' BY <1>2, <2>1 DEF LockOK, HandshakeOK, HoldsLock
  <2>3. AnswerOK(c)' BY <1>2, <2>1 DEF AnswerOK, Served, WaitsFor
  <2> QED BY <2>2, <2>3
<1>4. \A s \in Servers : PooledOK(s)' BY DEF McpInv, PooledOK, Useful
<1>5. \A i \in Sessions : KnownOK(i)'
  BY <1>2 DEF McpInv, KnownOK, Awaited, HoldsLock
<1>6. \A a \in Admins : ReapOK(a)' BY DEF McpInv, ReapOK
<1> QED BY <1>1, <1>2, <1>3, <1>4, <1>5, <1>6 DEF McpInv

(* A client that neither takes nor holds a lock moves on.                   *)
LEMMA ClientMovesKeep ==
  ASSUME McpInv, NEW c \in Clients, NEW at \in ClientSteps \ {"handshake", "aborting"}, Move(c, at),
         client[c].at \notin {"idle", "handshake", "aborting"},
         UNCHANGED <<session, pool, connLock, admin>>,
         answer' = answer \/ (\E x \in {"cancelled", "result", "failed"} : answer' = [answer EXCEPT ![c] = x])
  PROVE  McpInv'
<1>1. McpTypes BY DEF McpInv
<1>2. /\ client' \in [Clients -> ClientRow]
      /\ client'[c].at = at /\ client'[c].srv = client[c].srv
      /\ \A d \in Clients : d # c => client'[d] = client[d]
  BY <1>1, ClientMoves
<1>3. /\ answer' \in [Clients -> {"none", "pending", "result", "failed", "cancelled"}]
      /\ \A d \in Clients : answer'[d] = "pending" => answer[d] = "pending"
  BY <1>1 DEF McpTypes
<1>4. \A d \in Clients : client'[d].at # "idle" => client'[d].srv \in Servers
  BY <1>1, <1>2 DEF McpTypes
<1>5. \A d \in Clients : client'[d] = client[d] \/ (~HoldsLock(d) /\ ~HoldsLock(d)')
  BY <1>2 DEF HoldsLock
<1>6. admin' \in [Admins -> AdminRow] /\ \A a \in Admins : admin'[a].at # "idle" => admin'[a].srv \in Servers
  BY <1>1 DEF McpTypes
<1> QED BY <1>2, <1>3, <1>4, <1>5, <1>6, McpQuietKeeps

LEMMA ConnectKeeps ==
  ASSUME McpInv, NEW c \in Clients, NEW s \in Servers, Connect(c, s) PROVE McpInv'
<1>1. McpTypes BY DEF McpInv
<1>2. PICK at \in {"connected", "locking", "done"} :
        client' = [client EXCEPT ![c] = [at |-> at, srv |-> s, sess |-> 0]]
  BY DEF Connect
<1>3. client[c].at = "idle" /\ UNCHANGED <<session, pool, connLock, admin, answer>>
  BY DEF Connect, ClientAt
<1>4. client' \in [Clients -> ClientRow]
  BY <1>1, <1>2, SessionsAreNumbers DEF McpTypes, ClientRow, ClientSteps
<1>5. \A d \in Clients : client'[d].at # "idle" => client'[d].srv \in Servers
  BY <1>1, <1>2 DEF McpTypes
<1>6. \A d \in Clients : client'[d] = client[d] \/ (~HoldsLock(d) /\ ~HoldsLock(d)')
  BY <1>1, <1>2, <1>3 DEF McpTypes, HoldsLock
<1> QED BY <1>1, <1>3, <1>4, <1>5, <1>6, McpQuietKeeps DEF McpTypes

LEMMA CallEndKeeps ==
  ASSUME McpInv, NEW c \in Clients, CallReturns(c) \/ CallTimesOut(c) PROVE McpInv'
<1>1. Move(c, "done") /\ client[c].at = "calling" /\ UNCHANGED <<session, pool, connLock, admin>>
  BY DEF CallReturns, CallTimesOut, ClientAt
<1>2. answer' = answer \/ answer' = [answer EXCEPT ![c] = "cancelled"]
  BY DEF CallReturns, CallTimesOut
<1>3. "done" \in ClientSteps \ {"handshake", "aborting"} BY DEF ClientSteps
<1> QED BY <1>1, <1>2, <1>3, ClientMovesKeep

LEMMA AdminMoves ==
  ASSUME McpTypes, NEW a \in Admins,
         NEW at \in {"idle", "disconnect", "grace", "deleting"}, NEW op \in {"none", "disable", "delete"},
         NEW s \in Servers \cup {NoServer}, NEW i \in 0 .. MaxSessions, at # "idle" => s \in Servers,
         admin' = [admin EXCEPT ![a] = [at |-> at, op |-> op, srv |-> s, sess |-> i]]
  PROVE  /\ admin' \in [Admins -> AdminRow]
         /\ admin'[a].at = at /\ admin'[a].sess = i
         /\ \A b \in Admins : admin'[b].at # "idle" => admin'[b].srv \in Servers
         /\ \A b \in Admins : b # a => admin'[b] = admin[b]
BY DEF McpTypes, AdminRow

LEMMA StoreKeepsHost ==
  ASSUME McpInv,
         \/ \E s \in Servers : Install(s) \/ Enable(s)
         \/ \E a \in Admins, s \in Servers, op \in {"disable", "delete"} : BeginAdmin(a, op, s)
         \/ \E a \in Admins : DeleteServerRow(a)
  PROVE  McpInv'
<1>1. McpTypes BY DEF McpInv
<1>2. UNCHANGED <<session, pool, connLock, client, answer>>
  BY DEF Install, Enable, BeginAdmin, DeleteServerRow, AdminOnly
<1>3. /\ admin' \in [Admins -> AdminRow]
      /\ \A b \in Admins : admin'[b].at # "idle" => admin'[b].srv \in Servers
      /\ \A b \in Admins : admin'[b] = admin[b] \/ (admin[b].at # "grace" /\ admin'[b].at # "grace")
  <2>1. CASE \E s \in Servers : Install(s) \/ Enable(s)
    BY <1>1, <2>1 DEF Install, Enable, McpTypes
  <2>2. ASSUME NEW a \in Admins, NEW s \in Servers, NEW op \in {"disable", "delete"}, BeginAdmin(a, op, s)
        PROVE <1>3!1 /\ <1>3!2 /\ <1>3!3
    <3>1. /\ admin[a].at = "idle"
          /\ admin' = [admin EXCEPT ![a] = [at |-> "disconnect", op |-> op, srv |-> s, sess |-> 0]]
      BY <2>2 DEF BeginAdmin
    <3>2. 0 \in 0 .. MaxSessions BY SessionsAreNumbers
    <3> QED BY <1>1, <3>1, <3>2, AdminMoves
  <2>3. ASSUME NEW a \in Admins, DeleteServerRow(a)
        PROVE <1>3!1 /\ <1>3!2 /\ <1>3!3
    <3>1. /\ admin[a].at = "deleting"
          /\ admin' = [admin EXCEPT ![a] = [at |-> "idle", op |-> "none", srv |-> NoServer, sess |-> 0]]
      BY <2>3 DEF DeleteServerRow, Quiet
    <3>2. 0 \in 0 .. MaxSessions BY SessionsAreNumbers
    <3> QED BY <1>1, <3>1, <3>2, AdminMoves
  <2> QED BY <2>1, <2>2, <2>3
<1>4. \A c \in Clients : client'[c].at # "idle" => client'[c].srv \in Servers BY <1>1, <1>2 DEF McpTypes
<1> QED BY <1>1, <1>2, <1>3, <1>4, McpQuietKeeps DEF McpTypes

LEMMA Queues ==
  ASSUME NEW S, NEW q \in Seq(S), NEW x \in S
  PROVE  /\ Append(q, x) \in Seq(S) /\ \A y : Contains(Append(q, x), y) <=> Contains(q, y) \/ y = x
         /\ q # <<>> => /\ Head(q) \in S /\ Tail(q) \in Seq(S)
                        /\ \A y : Contains(q, y) <=> y = Head(q) \/ Contains(Tail(q), y)
         /\ \A y : ~Contains(<<>>, y)
<1>1. Append(q, x) \in Seq(S) OBVIOUS
<1>2. ASSUME NEW y PROVE Contains(Append(q, x), y) <=> Contains(q, y) \/ y = x
  <2>1. /\ Len(Append(q, x)) = Len(q) + 1 /\ Append(q, x)[Len(q) + 1] = x /\ Len(q) \in Nat
        /\ \A i \in 1 .. Len(q) : Append(q, x)[i] = q[i]
    OBVIOUS
  <2>2. 1 .. Len(q) + 1 = (1 .. Len(q)) \cup {Len(q) + 1} BY <2>1
  <2> QED BY <2>1, <2>2 DEF Contains
<1>3. ASSUME q # <<>>
      PROVE  /\ Head(q) \in S /\ Tail(q) \in Seq(S)
             /\ \A y : Contains(q, y) <=> y = Head(q) \/ Contains(Tail(q), y)
  <2>1. Head(q) \in S /\ Tail(q) \in Seq(S) /\ Head(q) = q[1] /\ Len(q) \in Nat /\ Len(q) >= 1 BY <1>3
  <2>2. Len(Tail(q)) = Len(q) - 1 /\ \A i \in 1 .. Len(q) - 1 : Tail(q)[i] = q[i + 1] BY <1>3
  <2>3. ASSUME NEW y PROVE Contains(q, y) <=> y = Head(q) \/ Contains(Tail(q), y)
    <3>1. ASSUME Contains(q, y) PROVE y = Head(q) \/ Contains(Tail(q), y)
      <4>1. PICK i \in 1 .. Len(q) : q[i] = y BY <3>1 DEF Contains
      <4>2. CASE i = 1 BY <2>1, <4>1, <4>2
      <4>3. CASE i # 1
        <5>1. i - 1 \in 1 .. Len(q) - 1 /\ (i - 1) + 1 = i BY <2>1, <4>1, <4>3
        <5> QED BY <2>2, <4>1, <5>1 DEF Contains
      <4> QED BY <4>2, <4>3
    <3>2. ASSUME Contains(Tail(q), y) PROVE Contains(q, y)
      <4>1. PICK i \in 1 .. Len(q) - 1 : Tail(q)[i] = y BY <2>2, <3>2 DEF Contains
      <4>2. i + 1 \in 1 .. Len(q) /\ q[i + 1] = y BY <2>1, <2>2, <4>1
      <4> QED BY <4>2 DEF Contains
    <3>3. 1 \in 1 .. Len(q) BY <2>1
    <3> QED BY <2>1, <3>1, <3>2, <3>3 DEF Contains
  <2> QED BY <2>1, <2>3
<1>4. \A y : ~Contains(<<>>, y) BY DEF Contains
<1> QED BY <1>1, <1>2, <1>3, <1>4

(* One session changes and nobody who waits at it is dropped silently.      *)
LEMMA AnswersKeep ==
  ASSUME McpInv, NEW i \in Sessions,
         \A j \in Sessions : j # i => session'[j] = session[j],
         \A c \in Clients : answer'[c] = "pending" =>
           answer[c] = "pending" /\ (Served(c, i) => Served(c, i)')
  PROVE  \A c \in Clients : AnswerOK(c)'
<1> SUFFICES ASSUME NEW c \in Clients, answer'[c] = "pending" PROVE \E j \in Sessions : Served(c, j)'
  BY DEF AnswerOK
<1>1. PICK j \in Sessions : Served(c, j) BY DEF McpInv, AnswerOK
<1>2. CASE j = i BY <1>1, <1>2
<1>3. CASE j # i BY <1>1, <1>3 DEF Served, WaitsFor, Alive
<1> QED BY <1>2, <1>3

(* A session that ends tells whoever is queued; who is being served is told *)
(* by nobody, but then it was killed.                                       *)
LEMMA EndTells ==
  ASSUME McpInv, NEW i \in Sessions, NEW new \in TaskRow, session' = [session EXCEPT ![i] = new],
         new.serving = session[i].serving, new.killed \/ session[i].serving = NoClient,
         answer' = DrainPending(i)
  PROVE  /\ \A c \in Clients : AnswerOK(c)'
         /\ answer' \in [Clients -> {"none", "pending", "result", "failed", "cancelled"}]
<1>1. McpTypes BY DEF McpInv
<1>2. session'[i] = new /\ \A j \in Sessions : j # i => session'[j] = session[j] BY <1>1 DEF McpTypes
<1>3. answer' \in [Clients -> {"none", "pending", "result", "failed", "cancelled"}]
  BY <1>1 DEF McpTypes, DrainPending
<1>4. ASSUME NEW c \in Clients, answer'[c] = "pending"
      PROVE  answer[c] = "pending" /\ (Served(c, i) => Served(c, i)')
  <2>1. answer[c] = "pending" /\ ~Contains(session[i].queue, c) BY <1>4 DEF DrainPending
  <2>2. ASSUME Served(c, i) PROVE Served(c, i)'
    <3>1. session[i].serving = c BY <2>1, <2>2 DEF Served, WaitsFor
    <3>2. session'[i].serving = c /\ session'[i].killed
      BY <1>2, <3>1, McpAssumption
    <3> QED BY <3>2 DEF Served, WaitsFor
  <2> QED BY <2>1, <2>2
<1> QED BY <1>2, <1>3, <1>4, AnswersKeep

Ended(old, ready, killed) ==
  [srv |-> old.srv, at |-> "ended", ready |-> ready, queue |-> <<>>, serving |-> old.serving,
   killed |-> killed]

LEMMA EndedIsTask ==
  ASSUME NEW old \in TaskRow, NEW ready \in ReadyStates, NEW killed \in BOOLEAN
  PROVE  Ended(old, ready, killed) \in TaskRow
<1>1. <<>> \in Seq(Requests) OBVIOUS
<1> QED BY <1>1 DEF TaskRow, TaskSteps, Ended

(* One session's own step: nobody else has moved.                           *)
LEMMA TaskStepKeeps ==
  ASSUME McpInv, NEW i \in Sessions, NEW new \in TaskRow, session' = [session EXCEPT ![i] = new],
         UNCHANGED <<pool, connLock, client, admin>>,
         new.srv = session[i].srv, Alive(i), new.at # "unborn",
         new.at \in {"opening", "closing"} => new.serving = NoClient,
         \/ new.ready = session[i].ready
         \/ session[i].ready = "pending" /\ new.ready \in {"listed", "failed"},
         Handshaking(i) => Handshaking(i)',
         session[i].ready = "listed" /\ Useful(i) => Useful(i)',
         answer' \in [Clients -> {"none", "pending", "result", "failed", "cancelled"}],
         \A c \in Clients : AnswerOK(c)'
  PROVE  McpInv'
<1>1. McpTypes BY DEF McpInv
<1>2. session'[i] = new /\ \A j \in Sessions : j # i => session'[j] = session[j] BY <1>1 DEF McpTypes
<1>3. McpTypes' BY <1>1, <1>2 DEF McpTypes
<1>4. \A j \in Sessions : j # i => Alive(j)' = Alive(j) /\ Useful(j)' = Useful(j) /\ Handshaking(j)' = Handshaking(j)
  BY <1>2 DEF Alive, Useful, Handshaking
<1>5. \A j \in Sessions :
        /\ session'[j].srv = session[j].srv /\ (Alive(j)' => Alive(j))
        /\ session[j].ready # "none" => session'[j].ready # "none"
        /\ session[j].ready \in {"listed", "abandoned"} => session'[j].ready = session[j].ready
        /\ session'[j].ready # "abandoned" => session[j].ready # "abandoned"
        /\ Handshaking(j) => Handshaking(j)'
        /\ session[j].ready = "listed" /\ Useful(j) => Useful(j)'
  BY <1>2, <1>4
<1>6. ASSUME NEW c \in Clients PROVE LockOK(c)' /\ HandshakeOK(c)'
  <2>1. LockOK(c) /\ HandshakeOK(c) BY DEF McpInv
  <2>2. LockOK(c)' BY <1>5, <2>1 DEF LockOK, HoldsLock
  <2>3. HandshakeOK(c)' BY <1>5, <2>1 DEF HandshakeOK, LockOK, HoldsLock
  <2> QED BY <2>2, <2>3
<1>7. ASSUME NEW s \in Servers PROVE PooledOK(s)'
  <2>1. PooledOK(s) /\ pool[s] \in 0 .. MaxSessions BY <1>1 DEF McpInv, McpTypes
  <2>2. pool[s] # 0 => pool[s] \in Sessions BY <2>1, SessionsAreNumbers DEF Sessions
  <2> QED BY <1>5, <2>1, <2>2 DEF PooledOK
<1>8. ASSUME NEW j \in Sessions PROVE TaskOK(j)' /\ KnownOK(j)'
  <2>1. TaskOK(j) /\ KnownOK(j) BY DEF McpInv
  <2>2. KnownOK(j)' BY <1>5, <2>1 DEF KnownOK, Awaited, HoldsLock
  <2>3. TaskOK(j)' BY <1>2, <1>5, <2>1 DEF TaskOK, Alive
  <2> QED BY <2>2, <2>3
<1>9. \A a \in Admins : ReapOK(a)' BY <1>5 DEF McpInv, ReapOK
<1> QED BY <1>3, <1>6, <1>7, <1>8, <1>9 DEF McpInv

LEMMA HandshakeEndKeeps ==
  ASSUME McpInv, NEW i \in Sessions, HandshakeDone(i) \/ HandshakeFails(i) PROVE McpInv'
<1>1. McpTypes /\ TaskOK(i) BY DEF McpInv
<1>2. session[i] \in TaskRow /\ session \in [Sessions -> TaskRow] BY <1>1 DEF McpTypes
<1>3. /\ session[i].at = "opening" /\ Alive(i) /\ session[i].serving = NoClient
      /\ UNCHANGED <<pool, connLock, client, admin>>
  BY <1>1 DEF HandshakeDone, HandshakeFails, SessionOnly, Alive, TaskOK
<1>4. CASE HandshakeDone(i)
  <2>1. PICK new : new = [session[i] EXCEPT !.at = "serving",
                            !.ready = IF @ = "pending" THEN "listed" ELSE @]
    OBVIOUS
  <2>2. new \in TaskRow /\ session' = [session EXCEPT ![i] = new]
    BY <1>2, <1>4, <2>1 DEF HandshakeDone, TaskRow, TaskSteps, ReadyStates
  <2>3. /\ new.srv = session[i].srv /\ new.at = "serving" /\ new.queue = session[i].queue
        /\ new.ready = (IF session[i].ready = "pending" THEN "listed" ELSE session[i].ready)
        /\ new.serving = session[i].serving /\ new.killed = session[i].killed
    BY <1>2, <2>1 DEF TaskRow
  <2>4. session'[i] = new /\ \A j \in Sessions : j # i => session'[j] = session[j] BY <1>2, <2>2
  <2>5. answer' = answer BY <1>4 DEF HandshakeDone
  <2>6. \A c \in Clients : AnswerOK(c)'
    BY <2>3, <2>4, <2>5, AnswersKeep DEF Served, WaitsFor, Alive
  <2>7. Handshaking(i) => Handshaking(i)'
    BY <1>3, <2>3, <2>4, Queues DEF Handshaking, Useful, Contains
  <2>8. session[i].ready = "listed" /\ Useful(i) => Useful(i)' BY <1>3 DEF Useful
  <2> QED BY <1>1, <1>3, <2>2, <2>3, <2>5, <2>6, <2>7, <2>8, TaskStepKeeps DEF McpTypes
<1>5. CASE HandshakeFails(i)
  <2> DEFINE outcome == IF session[i].ready = "pending" THEN "failed" ELSE session[i].ready
  <2> DEFINE new == Ended(session[i], outcome, session[i].killed)
  <2>1. outcome \in ReadyStates /\ session[i].killed \in BOOLEAN BY <1>2 DEF TaskRow, ReadyStates
  <2>2. new \in TaskRow BY <1>2, <2>1, EndedIsTask
  <2>3. /\ new.srv = session[i].srv /\ new.at = "ended" /\ new.ready = outcome
        /\ new.serving = session[i].serving
    BY DEF Ended
  <2>10. session' = [session EXCEPT ![i] = new]
    <3>1. PICK r : r = [session[i] EXCEPT !.at = "ended", !.queue = <<>>, !.ready = outcome] OBVIOUS
    <3>2. r = new BY <1>2, <3>1 DEF TaskRow, Ended
    <3>3. session' = [session EXCEPT ![i] = r] BY <1>2, <1>5, <3>1 DEF HandshakeFails
    <3> QED BY <3>2, <3>3
  <2> HIDE DEF new
  <2>4. session'[i] = new BY <1>2, <2>10
  <2>5. answer' = DrainPending(i) BY <1>5 DEF HandshakeFails
  <2>6. /\ \A c \in Clients : AnswerOK(c)'
        /\ answer' \in [Clients -> {"none", "pending", "result", "failed", "cancelled"}]
    BY <1>3, <2>2, <2>3, <2>5, <2>10, EndTells
  <2>7. Handshaking(i) => Handshaking(i)' BY <1>3, <2>3, <2>4 DEF Handshaking, Useful
  <2>8. session[i].ready = "listed" /\ Useful(i) => Useful(i)' BY <1>3 DEF Useful
  <2> QED BY <1>3, <2>2, <2>3, <2>6, <2>7, <2>8, <2>10, TaskStepKeeps
<1> QED BY <1>4, <1>5

(* Closed in order, nobody is being served; killed, the mark stays.         *)
LEMMA TaskEndKeeps ==
  ASSUME McpInv, NEW i \in Sessions, Closed(i) \/ ServerDies(i) PROVE McpInv'
<1>1. McpTypes /\ TaskOK(i) BY DEF McpInv
<1>2. session[i] \in TaskRow /\ session \in [Sessions -> TaskRow] BY <1>1 DEF McpTypes
<1>3. UNCHANGED <<pool, connLock, client, admin>> BY DEF Closed, ServerDies, SessionOnly
<1>4. PICK killed \in BOOLEAN :
        /\ EndSession(i, killed)
        /\ session[i].at = IF killed THEN "serving" ELSE "closing"
  BY DEF Closed, ServerDies
<1>5. Alive(i) /\ (killed \/ session[i].serving = NoClient) BY <1>1, <1>4 DEF Alive, TaskOK
<1> DEFINE new == Ended(session[i], session[i].ready, killed)
<1>6. new \in TaskRow
  <2>1. session[i].ready \in ReadyStates BY <1>2 DEF TaskRow
  <2> QED BY <1>2, <2>1, EndedIsTask
<1>7. session' = [session EXCEPT ![i] = new]
  <2>1. PICK r : r = [session[i] EXCEPT !.at = "ended", !.queue = <<>>, !.killed = killed] OBVIOUS
  <2>2. r = new BY <1>2, <2>1 DEF TaskRow, Ended
  <2>3. session' = [session EXCEPT ![i] = r] BY <1>2, <1>4, <2>1 DEF EndSession
  <2> QED BY <2>2, <2>3
<1>8. /\ new.srv = session[i].srv /\ new.at = "ended" /\ new.ready = session[i].ready
      /\ new.serving = session[i].serving /\ new.killed = killed /\ new.queue = <<>>
  BY DEF Ended
<1> HIDE DEF new
<1>9. session'[i] = new BY <1>2, <1>7
<1>10. answer' = DrainPending(i) BY <1>4 DEF EndSession
<1>11. /\ \A c \in Clients : AnswerOK(c)'
       /\ answer' \in [Clients -> {"none", "pending", "result", "failed", "cancelled"}]
  BY <1>5, <1>6, <1>7, <1>8, <1>10, EndTells
<1>12. Useful(i) => Useful(i)'
  <2>1. ~Contains(<<>>, Stop) BY DEF Contains
  <2> QED BY <1>4, <1>8, <1>9, <2>1 DEF Useful
<1>13. Handshaking(i) => Handshaking(i)' BY <1>4, <1>8, <1>9, <1>12 DEF Handshaking
<1> QED BY <1>3, <1>5, <1>6, <1>7, <1>8, <1>11, <1>12, <1>13, TaskStepKeeps

(* The head of the queue is served next, or it is the sentinel.             *)
LEMMA TakeRequestKeeps ==
  ASSUME McpInv, NEW i \in Sessions, TakeRequest(i) PROVE McpInv'
<1>1. McpTypes BY DEF McpInv
<1>2. session[i] \in TaskRow /\ session \in [Sessions -> TaskRow] BY <1>1 DEF McpTypes
<1>3. /\ session[i].at = "serving" /\ session[i].serving = NoClient /\ session[i].queue # <<>>
      /\ UNCHANGED <<pool, connLock, client, admin, answer>>
  BY DEF TakeRequest, Free, SessionOnly
<1>4. session[i].queue \in Seq(Requests) /\ Stop \in Requests BY <1>2 DEF TaskRow, Requests
<1>5. /\ Head(session[i].queue) \in Requests /\ Tail(session[i].queue) \in Seq(Requests)
      /\ \A y : Contains(session[i].queue, y) <=>
                  y = Head(session[i].queue) \/ Contains(Tail(session[i].queue), y)
  BY <1>3, <1>4, Queues
<1>6. PICK new : new = [session[i] EXCEPT !.queue = Tail(@),
                          !.at = IF Head(session[i].queue) = Stop THEN "closing" ELSE @,
                          !.serving = IF Head(session[i].queue) = Stop THEN @ ELSE Head(session[i].queue)]
  OBVIOUS
<1>7. /\ new \in TaskRow /\ session' = [session EXCEPT ![i] = new]
      /\ new.srv = session[i].srv /\ new.ready = session[i].ready /\ new.killed = session[i].killed
      /\ new.queue = Tail(session[i].queue)
      /\ new.at = (IF Head(session[i].queue) = Stop THEN "closing" ELSE "serving")
      /\ new.serving = (IF Head(session[i].queue) = Stop THEN NoClient ELSE Head(session[i].queue))
  BY <1>2, <1>3, <1>5, <1>6 DEF TakeRequest, TaskRow, TaskSteps, Requests
<1>8. session'[i] = new /\ \A j \in Sessions : j # i => session'[j] = session[j] BY <1>2, <1>7
<1>9. ASSUME NEW c \in Clients, Served(c, i) PROVE Served(c, i)'
  <2>1. Contains(session[i].queue, c) BY <1>3, <1>9, McpAssumption DEF Served, WaitsFor
  <2>2. c # Stop BY McpAssumption DEF Stop
  <2>3. Contains(new.queue, c) \/ new.serving = c BY <1>5, <1>7, <2>1, <2>2
  <2> QED BY <1>7, <1>8, <2>3 DEF Served, WaitsFor, Alive
<1>10. \A c \in Clients : AnswerOK(c)' BY <1>3, <1>8, <1>9, AnswersKeep
<1>11. Useful(i) => Useful(i)' BY <1>3, <1>5, <1>7, <1>8 DEF Useful
<1>12. Handshaking(i) => Handshaking(i)' BY <1>3, <1>7, <1>8, <1>11 DEF Handshaking
<1> QED BY <1>1, <1>3, <1>7, <1>10, <1>11, <1>12, TaskStepKeeps DEF McpTypes, Alive

LEMMA AnswerKeeps ==
  ASSUME McpInv, NEW i \in Sessions, NEW outcome \in {"result", "failed"}, Answer(i, outcome)
  PROVE  McpInv'
<1>1. McpTypes BY DEF McpInv
<1>2. session[i] \in TaskRow /\ session \in [Sessions -> TaskRow] BY <1>1 DEF McpTypes
<1>3. PICK c \in Clients :
        /\ session[i].at = "serving" /\ c = session[i].serving
        /\ answer' = [answer EXCEPT ![c] = IF @ = "pending" THEN outcome ELSE @]
        /\ session' = [session EXCEPT ![i].serving = NoClient]
        /\ UNCHANGED <<pool, connLock, client, admin>>
  BY <1>2 DEF Answer, SessionOnly, TaskRow
<1>4. PICK new : new = [session[i] EXCEPT !.serving = NoClient] OBVIOUS
<1>5. /\ new \in TaskRow /\ session' = [session EXCEPT ![i] = new]
      /\ new.srv = session[i].srv /\ new.ready = session[i].ready /\ new.killed = session[i].killed
      /\ new.queue = session[i].queue /\ new.at = session[i].at /\ new.serving = NoClient
  BY <1>2, <1>3, <1>4 DEF TaskRow
<1>6. session'[i] = new /\ \A j \in Sessions : j # i => session'[j] = session[j] BY <1>2, <1>5
<1>7. /\ answer' \in [Clients -> {"none", "pending", "result", "failed", "cancelled"}]
      /\ \A d \in Clients : answer'[d] = "pending" => answer[d] = "pending" /\ d # c
  BY <1>1, <1>3 DEF McpTypes
<1>8. \A d \in Clients : d # c => (Served(d, i) => Served(d, i)')
  BY <1>3, <1>5, <1>6 DEF Served, WaitsFor, Alive
<1>9. \A d \in Clients : AnswerOK(d)' BY <1>6, <1>7, <1>8, AnswersKeep
<1>10. Useful(i) => Useful(i)' BY <1>5, <1>6 DEF Useful
<1>11. Handshaking(i) => Handshaking(i)' BY <1>3, <1>5, <1>6, <1>10 DEF Handshaking
<1> QED BY <1>3, <1>5, <1>7, <1>9, <1>10, <1>11, TaskStepKeeps DEF Alive

(* One holder of a server's connect lock, hence one awaiter of a handshake. *)
LEMMA LockIsExclusive ==
  ASSUME McpInv, NEW c \in Clients, NEW d \in Clients, HoldsLock(c), HoldsLock(d),
         client[c].srv = client[d].srv \/ client[c].sess = client[d].sess
  PROVE  c = d
BY DEF McpInv, LockOK

LEMMA KillKeepsSession ==
  ASSUME McpInv, NEW i \in Sessions, KillIfAlive(i)
  PROVE  /\ session' \in [Sessions -> TaskRow]
         /\ \A j \in Sessions : j # i => session'[j] = session[j]
         /\ session'[i].srv = session[i].srv /\ session'[i].ready = session[i].ready
         /\ TaskOK(i)' /\ ~Alive(i)' /\ (Useful(i) => Useful(i)')
         /\ \A c \in Clients : AnswerOK(c)'
         /\ answer' \in [Clients -> {"none", "pending", "result", "failed", "cancelled"}]
<1>1. McpTypes /\ TaskOK(i) BY DEF McpInv
<1>2. session[i] \in TaskRow /\ session \in [Sessions -> TaskRow] BY <1>1 DEF McpTypes
<1>3. CASE Alive(i)
  <2> DEFINE new == Ended(session[i], session[i].ready, TRUE)
  <2>1. session' = [session EXCEPT ![i] = new]
    <3>1. PICK r : r = [session[i] EXCEPT !.at = "ended", !.queue = <<>>, !.killed = TRUE] OBVIOUS
    <3>2. r = new BY <1>2, <3>1 DEF TaskRow, Ended
    <3>3. session' = [session EXCEPT ![i] = r] BY <1>2, <1>3, <3>1 DEF KillIfAlive, EndSession
    <3> QED BY <3>2, <3>3
  <2>2. answer' = DrainPending(i) BY <1>3 DEF KillIfAlive, EndSession
  <2>3. new \in TaskRow
    <3>1. session[i].ready \in ReadyStates BY <1>2 DEF TaskRow
    <3> QED BY <1>2, <3>1, EndedIsTask
  <2>4. /\ new.srv = session[i].srv /\ new.at = "ended" /\ new.ready = session[i].ready
        /\ new.serving = session[i].serving /\ new.killed = TRUE /\ new.queue = <<>>
    BY DEF Ended
  <2> HIDE DEF new
  <2>5. /\ \A c \in Clients : AnswerOK(c)'
        /\ answer' \in [Clients -> {"none", "pending", "result", "failed", "cancelled"}]
    BY <2>1, <2>2, <2>3, <2>4, EndTells
  <2>6. session'[i] = new /\ \A j \in Sessions : j # i => session'[j] = session[j] BY <1>2, <2>1
  <2>7. session' \in [Sessions -> TaskRow] BY <1>2, <2>1, <2>3
  <2>8. Useful(i)'
    <3>1. ~Contains(<<>>, Stop) BY DEF Contains
    <3> QED BY <2>4, <2>6, <3>1 DEF Useful
  <2>9. TaskOK(i)' /\ ~Alive(i)' BY <2>4, <2>6 DEF TaskOK, Alive
  <2> QED BY <2>4, <2>5, <2>6, <2>7, <2>8, <2>9
<1>4. CASE ~Alive(i)
  <2>1. UNCHANGED <<session, answer>> BY <1>4 DEF KillIfAlive
  <2>2. \A c \in Clients : AnswerOK(c)' BY <2>1 DEF McpInv, AnswerOK, Served, WaitsFor, Alive
  <2> QED BY <1>1, <1>2, <1>4, <2>1, <2>2 DEF McpTypes, TaskOK, Alive, Useful
<1> QED BY <1>3, <1>4

(* connect fails: the lock is free again, and the session that was to be    *)
(* pooled has ended, or is the one a cancelled client leaves behind.        *)
LEMMA GiveUpKeeps ==
  ASSUME McpInv, NEW c \in Clients, HoldsLock(c), Move(c, "done"), FreeLock(client[c].srv),
         NEW i \in Sessions, i = client[c].sess, UNCHANGED <<pool, admin>>,
         session' \in [Sessions -> TaskRow], \A j \in Sessions : j # i => session'[j] = session[j],
         session'[i].srv = session[i].srv, Alive(i)' => session'[i].ready = "abandoned",
         TaskOK(i)',
         \/ session'[i].ready = session[i].ready /\ (Useful(i) => Useful(i)')
         \/ client[c].at = "handshake" /\ session'[i].ready = "abandoned",
         \A d \in Clients : AnswerOK(d)',
         answer' \in [Clients -> {"none", "pending", "result", "failed", "cancelled"}]
  PROVE  McpInv'
<1>1. McpTypes /\ LockOK(c) /\ HandshakeOK(c) BY DEF McpInv
<1>2. /\ client' \in [Clients -> ClientRow]
      /\ client'[c].at = "done" /\ client'[c].srv = client[c].srv
      /\ \A d \in Clients : d # c => client'[d] = client[d]
  BY <1>1, ClientMoves DEF ClientSteps
<1>3. client[c].srv \in Servers BY <1>1 DEF McpTypes, HoldsLock
<1>4. /\ connLock' \in [Servers -> Clients \cup {NoClient}]
      /\ \A s \in Servers : s # client[c].srv => connLock'[s] = connLock[s]
  BY <1>1 DEF McpTypes, FreeLock
<1>5. McpTypes' BY <1>1, <1>2, <1>3, <1>4 DEF McpTypes
<1>6. ASSUME NEW d \in Clients PROVE LockOK(d)' /\ HandshakeOK(d)'
  <2>1. CASE d = c BY <1>2, <2>1 DEF LockOK, HandshakeOK, HoldsLock
  <2>2. CASE d # c /\ ~HoldsLock(d) BY <1>2, <2>2 DEF LockOK, HandshakeOK, HoldsLock
  <2>3. CASE d # c /\ HoldsLock(d)
    <3>1. client[d].sess # i /\ client[d].srv # client[c].srv BY <2>3, LockIsExclusive
    <3>2. LockOK(d) /\ HandshakeOK(d) BY DEF McpInv
    <3>3. client'[d] = client[d] /\ session'[client[d].sess] = session[client[d].sess]
      BY <1>2, <2>3, <3>1, <3>2 DEF LockOK
    <3>4. connLock'[client[d].srv] = connLock[client[d].srv]
      BY <1>1, <1>4, <2>3, <3>1 DEF McpTypes, HoldsLock
    <3>5. LockOK(d)' BY <2>3, <3>2, <3>3, <3>4 DEF LockOK, HoldsLock
    <3>6. HandshakeOK(d)' BY <3>2, <3>3 DEF HandshakeOK, Handshaking, Useful
    <3> QED BY <3>5, <3>6
  <2> QED BY <2>1, <2>2, <2>3
<1>7. ASSUME NEW s \in Servers PROVE PooledOK(s)'
  <2>1. PooledOK(s) /\ pool[s] \in 0 .. MaxSessions BY <1>1 DEF McpInv, McpTypes
  <2>2. pool[s] # 0 => pool[s] \in Sessions BY <2>1, SessionsAreNumbers DEF Sessions
  <2>3. client[c].at = "handshake" => pool[s] # i
    BY <1>1, <2>1, SessionsAreNumbers DEF PooledOK, LockOK, HandshakeOK, HoldsLock
  <2> QED BY <2>1, <2>2, <2>3 DEF PooledOK, Useful
<1>8. ASSUME NEW j \in Sessions PROVE TaskOK(j)' /\ KnownOK(j)'
  <2>1. TaskOK(j) /\ KnownOK(j) BY DEF McpInv
  <2>2. CASE j = i BY <2>2 DEF KnownOK
  <2>3. CASE j # i BY <1>2, <2>1, <2>3 DEF TaskOK, KnownOK, Alive, Awaited, HoldsLock
  <2> QED BY <2>2, <2>3
<1>9. \A a \in Admins : ReapOK(a)' BY DEF McpInv, ReapOK
<1> QED BY <1>5, <1>6, <1>7, <1>8, <1>9 DEF McpInv

(* The first session that was never started.                                *)
LEMMA NextIsUnborn ==
  ASSUME \E i \in Sessions : session[i] = Unborn
  PROVE  NextSession \in Sessions /\ session[NextSession] = Unborn
<1> DEFINE Less == {p \in Nat \X Nat : p[1] < p[2]}
           free == {i \in Sessions : session[i] = Unborn}
<1>1. IsWellFoundedOn(Less, Nat) BY NatLessThanWellFounded DEF OpToRel
<1>2. free \subseteq Nat /\ free # {} BY SessionsAreNumbers DEF Sessions
<1>3. PICK i \in free : \A j \in free : <<j, i>> \notin Less
  <2> HIDE DEF free, Less
  <2> QED BY <1>1, <1>2, WFMin
<1>4. \A j \in Sessions : j < i => session[j] # Unborn BY <1>2, <1>3 DEF Sessions
<1> HIDE DEF Less
<1> QED BY <1>3, <1>4 DEF NextSession

LEMMA StartHandshakeKeeps ==
  ASSUME McpInv, NEW c \in Clients, client[c].at = "locking", connLock[client[c].srv] = NoClient,
         pool[client[c].srv] = 0, StartHandshake(c), UNCHANGED <<pool, answer, admin>>
  PROVE  McpInv'
<1> DEFINE i == NextSession
           s == client[c].srv
<1>1. McpTypes BY DEF McpInv
<1>2. session \in [Sessions -> TaskRow] /\ client \in [Clients -> ClientRow] /\ s \in Servers
  BY <1>1 DEF McpTypes
<1>3. i \in Sessions /\ session[i] = Unborn BY NextIsUnborn DEF StartHandshake
<1> DEFINE new == [srv |-> s, at |-> "opening", ready |-> "pending", queue |-> <<>>,
                   serving |-> NoClient, killed |-> FALSE]
<1>4. session' = [session EXCEPT ![i] = new]
  <2>1. PICK r : r = [Unborn EXCEPT !.srv = s, !.at = "opening", !.ready = "pending"] OBVIOUS
  <2>2. r = [srv |-> s, at |-> "opening", ready |-> "pending", queue |-> Unborn.queue,
             serving |-> Unborn.serving, killed |-> Unborn.killed]
    BY <2>1, UnbornIsTask DEF TaskRow
  <2>3. Unborn.queue = <<>> /\ Unborn.serving = NoClient /\ Unborn.killed = FALSE BY DEF Unborn
  <2>4. r = new BY <2>2, <2>3
  <2>5. session' = [session EXCEPT ![i] = r] BY <2>1 DEF StartHandshake
  <2> QED BY <2>4, <2>5
<1>5. new \in TaskRow
  <2>1. <<>> \in Seq(Requests) OBVIOUS
  <2> QED BY <1>2, <2>1 DEF TaskRow, TaskSteps, ReadyStates
<1>6. /\ client' = [client EXCEPT ![c].at = "handshake", ![c].sess = i]
      /\ connLock' = [connLock EXCEPT ![s] = c]
  BY DEF StartHandshake
<1>7. new.srv = s /\ new.at = "opening" /\ new.ready = "pending" /\ new.queue = <<>> /\ new.serving = NoClient
  OBVIOUS
<1> HIDE DEF i, s, new
<1>8. /\ session' \in [Sessions -> TaskRow] /\ session'[i] = new
      /\ \A j \in Sessions : j # i => session'[j] = session[j]
  BY <1>2, <1>3, <1>4, <1>5
<1>9. /\ client' \in [Clients -> ClientRow]
      /\ client'[c].at = "handshake" /\ client'[c].sess = i /\ client'[c].srv = s
      /\ \A d \in Clients : d # c => client'[d] = client[d]
  BY <1>2, <1>3, <1>6, SessionsAreNumbers DEF ClientRow, ClientSteps, s
<1>10. /\ connLock' \in [Servers -> Clients \cup {NoClient}] /\ connLock'[s] = c
       /\ \A r \in Servers : r # s => connLock'[r] = connLock[r]
  BY <1>1, <1>2, <1>6 DEF McpTypes
<1>11. McpTypes' BY <1>1, <1>2, <1>8, <1>9, <1>10 DEF McpTypes
<1>12. ASSUME NEW d \in Clients PROVE LockOK(d)' /\ HandshakeOK(d)'
  <2>1. CASE d = c BY <1>2, <1>3, <1>7, <1>8, <1>9, <1>10, <2>1
                   DEF LockOK, HandshakeOK, HoldsLock, Handshaking, s
  <2>2. CASE d # c /\ ~HoldsLock(d) BY <1>9, <2>2 DEF LockOK, HandshakeOK, HoldsLock
  <2>3. CASE d # c /\ HoldsLock(d)
    <3>1. LockOK(d) /\ HandshakeOK(d) /\ client'[d] = client[d] BY <1>9, <2>3 DEF McpInv
    <3>2. client[d].srv \in Servers /\ client[d].srv # s
      BY <1>1, <2>3, <3>1, McpAssumption DEF McpTypes, LockOK, HoldsLock, s
    <3>3. client[d].sess # i BY <1>3, <2>3, <3>1, UnbornIsTask DEF LockOK
    <3>4. LockOK(d)' BY <1>8, <1>10, <3>1, <3>2, <3>3 DEF LockOK, HoldsLock
    <3>5. HandshakeOK(d)' BY <1>8, <2>3, <3>1, <3>3 DEF HandshakeOK, LockOK, Handshaking, Useful
    <3> QED BY <3>4, <3>5
  <2> QED BY <2>1, <2>2, <2>3
<1>13. \A d \in Clients : AnswerOK(d)'
  <2>1. \A d \in Clients : ~Served(d, i) BY <1>3, UnbornIsTask DEF Served, Alive
  <2> QED BY <1>3, <1>8, <2>1, AnswersKeep
<1>14. ASSUME NEW r \in Servers PROVE PooledOK(r)'
  <2>1. PooledOK(r) /\ pool[r] \in 0 .. MaxSessions BY <1>1 DEF McpInv, McpTypes
  <2>2. pool[r] # 0 => pool[r] \in Sessions /\ pool[r] # i
    BY <1>3, <2>1, SessionsAreNumbers, UnbornIsTask DEF Sessions, PooledOK
  <2> QED BY <1>8, <2>1, <2>2 DEF PooledOK, Useful
<1>15. ASSUME NEW j \in Sessions PROVE TaskOK(j)' /\ KnownOK(j)'
  <2>1. TaskOK(j) /\ KnownOK(j) BY DEF McpInv
  <2>2. CASE j = i BY <1>2, <1>7, <1>8, <1>9, <2>2 DEF TaskOK, KnownOK, Awaited, HoldsLock
  <2>3. CASE j # i
    <3>1. Awaited(j) => Awaited(j)' BY <1>9 DEF Awaited, HoldsLock
    <3> QED BY <1>8, <2>1, <2>3, <3>1 DEF TaskOK, KnownOK, Alive
  <2> QED BY <2>2, <2>3
<1>16. \A a \in Admins : ReapOK(a)' BY <1>3, <1>8, UnbornIsTask DEF McpInv, ReapOK
<1> QED BY <1>11, <1>12, <1>13, <1>14, <1>15, <1>16 DEF McpInv

LEMMA LockAndRecheckKeeps == ASSUME McpInv, NEW c \in Clients, LockAndRecheck(c) PROVE McpInv'
<1>1. /\ client[c].at = "locking" /\ connLock[client[c].srv] = NoClient
      /\ UNCHANGED <<pool, answer, admin>>
  BY DEF LockAndRecheck, ClientAt
<1>2. CASE pool[client[c].srv] = 0 BY <1>1, <1>2, StartHandshakeKeeps DEF LockAndRecheck
<1>3. CASE pool[client[c].srv] # 0
  <2>1. Move(c, "connected") /\ UNCHANGED <<connLock, session>> BY <1>3 DEF LockAndRecheck
  <2>2. "connected" \in ClientSteps \ {"handshake", "aborting"} BY DEF ClientSteps
  <2> QED BY <1>1, <2>1, <2>2, ClientMovesKeep
<1> QED BY <1>2, <1>3

(* What a client pools is what it awaited; nothing was pooled meanwhile.    *)
LEMMA PoolConnectionKeeps == ASSUME McpInv, NEW c \in Clients, PoolConnection(c) PROVE McpInv'
<1> DEFINE i == client[c].sess
           s == client[c].srv
<1>1. McpTypes /\ LockOK(c) /\ HandshakeOK(c) BY DEF McpInv
<1>2. /\ client[c].at = "handshake" /\ session[i].ready = "listed"
      /\ pool' = [pool EXCEPT ![s] = i] /\ Move(c, "connected") /\ FreeLock(s)
      /\ UNCHANGED <<session, answer, admin>>
  BY DEF PoolConnection, ClientAt
<1>3. HoldsLock(c) /\ i \in Sessions /\ session[i].srv = s /\ s \in Servers
  BY <1>1, <1>2 DEF LockOK, HoldsLock, McpTypes
<1>4. pool[s] = 0 /\ Useful(i) BY <1>1, <1>2 DEF HandshakeOK, Handshaking
<1>5. /\ client' \in [Clients -> ClientRow]
      /\ client'[c].at = "connected" /\ client'[c].srv = s
      /\ \A d \in Clients : d # c => client'[d] = client[d]
  BY <1>1, <1>2, ClientMoves DEF ClientSteps
<1>6. /\ connLock' \in [Servers -> Clients \cup {NoClient}]
      /\ \A r \in Servers : r # s => connLock'[r] = connLock[r]
      /\ pool' \in [Servers -> 0 .. MaxSessions] /\ pool'[s] = i
      /\ \A r \in Servers : r # s => pool'[r] = pool[r]
  BY <1>1, <1>2, <1>3, SessionsAreNumbers DEF McpTypes, FreeLock
<1>7. \A d \in Clients : HoldsLock(d) /\ d # c => client[d].srv # s BY <1>3, LockIsExclusive
<1> HIDE DEF i, s
<1>8. McpTypes' BY <1>1, <1>2, <1>3, <1>5, <1>6 DEF McpTypes
<1>9. ASSUME NEW d \in Clients PROVE LockOK(d)' /\ HandshakeOK(d)'
  <2>1. CASE d = c BY <1>5, <2>1 DEF LockOK, HandshakeOK, HoldsLock
  <2>2. CASE d # c /\ ~HoldsLock(d) BY <1>5, <2>2 DEF LockOK, HandshakeOK, HoldsLock
  <2>3. CASE d # c /\ HoldsLock(d)
    <3>1. LockOK(d) /\ HandshakeOK(d) /\ client'[d] = client[d] BY <1>5, <2>3 DEF McpInv
    <3>2. client[d].srv \in Servers /\ client[d].srv # s BY <1>1, <1>7, <2>3 DEF McpTypes, HoldsLock
    <3>3. LockOK(d)' BY <1>2, <1>6, <3>1, <3>2 DEF LockOK, HoldsLock
    <3>4. HandshakeOK(d)' BY <1>2, <1>6, <3>1, <3>2 DEF HandshakeOK, Handshaking, Useful
    <3> QED BY <3>3, <3>4
  <2> QED BY <2>1, <2>2, <2>3
<1>10. \A d \in Clients : AnswerOK(d)' BY <1>2 DEF McpInv, AnswerOK, Served, WaitsFor, Alive
<1>11. \A r \in Servers : PooledOK(r)' BY <1>2, <1>3, <1>4, <1>6 DEF McpInv, PooledOK, Useful
<1>12. ASSUME NEW j \in Sessions PROVE TaskOK(j)' /\ KnownOK(j)'
  <2>1. TaskOK(j) /\ KnownOK(j) BY DEF McpInv
  <2>2. TaskOK(j)' BY <1>2, <2>1 DEF TaskOK, Alive
  <2>3. CASE j = i BY <1>2, <1>3, <1>6, <2>2, <2>3 DEF KnownOK
  <2>4. CASE j # i
    <3>1. Awaited(j) => Awaited(j)' BY <1>2, <1>5, <2>4 DEF Awaited, HoldsLock, i
    <3>2. Alive(j) /\ pool[session[j].srv] = j => pool'[session[j].srv] = j
      BY <1>4, <1>6, <2>1, SessionsAreNumbers DEF TaskOK
    <3> QED BY <1>2, <2>1, <2>2, <3>1, <3>2 DEF KnownOK, Alive
  <2> QED BY <2>3, <2>4
<1>13. \A a \in Admins : ReapOK(a)' BY <1>2 DEF McpInv, ReapOK
<1> QED BY <1>8, <1>9, <1>10, <1>11, <1>12, <1>13 DEF McpInv

LEMMA LockedSession ==
  ASSUME McpInv, NEW c \in Clients, HoldsLock(c)
  PROVE  client[c].sess \in Sessions /\ client[c].srv \in Servers /\ session[client[c].sess] \in TaskRow
BY DEF McpInv, McpTypes, LockOK, HoldsLock

LEMMA RefusedKeeps == ASSUME McpInv, NEW c \in Clients, HandshakeRefused(c) PROVE McpInv'
<1>1. /\ client[c].at = "handshake" /\ session[client[c].sess].ready = "failed"
      /\ UNCHANGED <<pool, session, answer, admin>> /\ Move(c, "done") /\ FreeLock(client[c].srv)
  BY DEF HandshakeRefused, GiveUp, ClientAt
<1>6. PICK i \in Sessions : i = client[c].sess BY <1>1, LockedSession DEF HoldsLock
<1>2. HoldsLock(c) /\ HandshakeOK(c) /\ McpTypes /\ TaskOK(i) BY <1>1 DEF HoldsLock, McpInv
<1>3. session[i].at = "ended" BY <1>1, <1>2, <1>6 DEF HandshakeOK, Handshaking
<1>4. ~Alive(i)' /\ TaskOK(i)' /\ (Useful(i) => Useful(i)')
  BY <1>1, <1>2, <1>3 DEF Alive, TaskOK, Useful
<1>5. \A d \in Clients : AnswerOK(d)' BY <1>1 DEF McpInv, AnswerOK, Served, WaitsFor, Alive
<1> QED BY <1>1, <1>2, <1>4, <1>5, <1>6, GiveUpKeeps DEF McpTypes

LEMMA AbortKeepsHost ==
  ASSUME McpInv, NEW c \in Clients, client[c].at = "aborting", KillIfAlive(client[c].sess),
         Move(c, "done"), FreeLock(client[c].srv), UNCHANGED <<pool, admin>>
  PROVE  McpInv'
<1>1. HoldsLock(c) BY DEF HoldsLock
<1>3. PICK i \in Sessions : i = client[c].sess BY <1>1, LockedSession
<1>2. /\ session' \in [Sessions -> TaskRow] /\ \A j \in Sessions : j # i => session'[j] = session[j]
      /\ session'[i].srv = session[i].srv /\ session'[i].ready = session[i].ready
      /\ TaskOK(i)' /\ ~Alive(i)' /\ (Useful(i) => Useful(i)')
      /\ \A d \in Clients : AnswerOK(d)'
      /\ answer' \in [Clients -> {"none", "pending", "result", "failed", "cancelled"}]
  BY <1>3, KillKeepsSession
<1> QED BY <1>1, <1>2, <1>3, GiveUpKeeps

LEMMA AbandonKeeps ==
  ASSUME McpInv, NEW c \in Clients, client[c].at = "handshake",
         session' = [session EXCEPT ![client[c].sess].ready = "abandoned"],
         Move(c, "done"), FreeLock(client[c].srv), UNCHANGED <<pool, admin, answer>>
  PROVE  McpInv'
<1>3. PICK i \in Sessions : i = client[c].sess BY LockedSession DEF HoldsLock
<1>1. HoldsLock(c) /\ HandshakeOK(c) /\ McpTypes /\ TaskOK(i) BY DEF HoldsLock, McpInv
<1>2. session' = [session EXCEPT ![i].ready = "abandoned"] BY <1>3
<1>4. /\ session' \in [Sessions -> TaskRow] /\ \A j \in Sessions : j # i => session'[j] = session[j]
      /\ session'[i].srv = session[i].srv /\ session'[i].at = session[i].at
      /\ session'[i].queue = session[i].queue /\ session'[i].serving = session[i].serving
      /\ session'[i].killed = session[i].killed /\ session'[i].ready = "abandoned"
  <2>1. session[i] \in TaskRow /\ session \in [Sessions -> TaskRow] BY <1>1 DEF McpTypes
  <2>2. PICK new : new = [session[i] EXCEPT !.ready = "abandoned"] OBVIOUS
  <2>3. session' = [session EXCEPT ![i] = new] BY <1>2, <2>2
  <2>4. /\ new \in TaskRow /\ new.srv = session[i].srv /\ new.at = session[i].at
        /\ new.queue = session[i].queue /\ new.serving = session[i].serving
        /\ new.killed = session[i].killed /\ new.ready = "abandoned"
    BY <2>1, <2>2 DEF TaskRow, ReadyStates
  <2> QED BY <2>1, <2>3, <2>4
<1>5. session[i].at # "unborn" BY <1>1, <1>3 DEF HandshakeOK, Handshaking, Useful
<1>6. TaskOK(i)' BY <1>1, <1>4, <1>5 DEF TaskOK, Alive
<1>7. \A d \in Clients : AnswerOK(d)'
  <2>1. \A d \in Clients : Served(d, i) => Served(d, i)' BY <1>4 DEF Served, WaitsFor, Alive
  <2> QED BY <1>1, <1>4, <2>1, AnswersKeep
<1> QED BY <1>1, <1>3, <1>4, <1>6, <1>7, GiveUpKeeps DEF McpTypes

LEMMA CancelKeeps == ASSUME McpInv, NEW c \in Clients, ClientCancelled(c) PROVE McpInv'
<1>1. Move(c, "done") /\ UNCHANGED <<pool, admin>> /\ client[c].at \in {"locking", "handshake", "aborting", "calling"}
  BY DEF ClientCancelled
<1>2. "done" \in ClientSteps \ {"handshake", "aborting"} BY DEF ClientSteps
<1>3. CASE client[c].at = "locking"
  <2>1. UNCHANGED <<connLock, session, answer>> BY <1>3 DEF ClientCancelled
  <2> QED BY <1>1, <1>2, <1>3, <2>1, ClientMovesKeep
<1>4. CASE client[c].at = "handshake"
  <2>1. /\ session' = [session EXCEPT ![client[c].sess].ready = "abandoned"]
        /\ FreeLock(client[c].srv) /\ UNCHANGED answer
    BY <1>4 DEF ClientCancelled
  <2> QED BY <1>1, <1>4, <2>1, AbandonKeeps
<1>5. CASE client[c].at = "aborting"
  <2>1. KillIfAlive(client[c].sess) /\ FreeLock(client[c].srv) BY <1>5 DEF ClientCancelled
  <2> QED BY <1>1, <1>5, <2>1, AbortKeepsHost
<1>6. CASE client[c].at = "calling"
  <2>1. /\ UNCHANGED <<connLock, session>>
        /\ answer' = [answer EXCEPT ![c] = IF @ = "pending" THEN "cancelled" ELSE @]
    BY <1>6 DEF ClientCancelled
  <2>2. answer' = answer \/ answer' = [answer EXCEPT ![c] = "cancelled"]
    BY <2>1 DEF McpInv, McpTypes
  <2> QED BY <1>1, <1>2, <1>6, <2>1, <2>2, ClientMovesKeep
<1> QED BY <1>1, <1>3, <1>4, <1>5, <1>6

(* The sentinel goes to a session that nobody has pooled.                   *)
LEMMA HandshakeTimeoutKeeps == ASSUME McpInv, NEW c \in Clients, HandshakeTimesOut(c) PROVE McpInv'
<1>14. client[c].at = "handshake" BY DEF HandshakeTimesOut, ClientAt
<1>5. PICK i \in Sessions : i = client[c].sess BY <1>14, LockedSession DEF HoldsLock
<1>1. /\ session[i].ready = "pending" /\ Move(c, "aborting")
      /\ session' = [session EXCEPT ![i].ready = "cancelled", ![i].queue = Append(@, Stop)]
      /\ UNCHANGED <<pool, connLock, admin, answer>>
  BY <1>5 DEF HandshakeTimesOut
<1>2. HoldsLock(c) /\ LockOK(c) /\ McpTypes /\ TaskOK(i) BY <1>14 DEF HoldsLock, McpInv
<1>3. \A d \in Clients : HoldsLock(d) /\ d # c => client[d].sess # i BY <1>2, <1>5, LockIsExclusive
<1>4. /\ client' \in [Clients -> ClientRow]
      /\ client'[c].at = "aborting" /\ client'[c].srv = client[c].srv /\ client'[c].sess = i
      /\ \A d \in Clients : d # c => client'[d] = client[d]
  BY <1>1, <1>2, <1>5, ClientMoves DEF ClientSteps
<1>6. /\ session[i].queue \in Seq(Requests) /\ Append(session[i].queue, Stop) \in Seq(Requests)
      /\ \A y : Contains(session[i].queue, y) => Contains(Append(session[i].queue, Stop), y)
  <2>1. session[i].queue \in Seq(Requests) /\ Stop \in Requests
    BY <1>2 DEF McpTypes, TaskRow, Requests
  <2> QED BY <2>1, Queues
<1>7. /\ session' \in [Sessions -> TaskRow] /\ \A j \in Sessions : j # i => session'[j] = session[j]
      /\ session'[i].srv = session[i].srv /\ session'[i].at = session[i].at
      /\ session'[i].queue = Append(session[i].queue, Stop) /\ session'[i].serving = session[i].serving
      /\ session'[i].killed = session[i].killed /\ session'[i].ready = "cancelled"
  BY <1>1, <1>2, <1>6 DEF McpTypes, TaskRow, ReadyStates
<1>8. McpTypes' BY ZenonT(30), <1>1, <1>2, <1>4, <1>7, <1>14 DEF McpTypes
<1>9. ASSUME NEW d \in Clients PROVE LockOK(d)' /\ HandshakeOK(d)'
  <2>1. CASE d = c BY <1>1, <1>2, <1>4, <1>5, <1>7, <2>1 DEF LockOK, HandshakeOK, HoldsLock
  <2>2. CASE d # c /\ ~HoldsLock(d) BY <1>4, <2>2 DEF LockOK, HandshakeOK, HoldsLock
  <2>3. CASE d # c /\ HoldsLock(d)
    <3>1. LockOK(d) /\ HandshakeOK(d) /\ client'[d] = client[d] BY <1>4, <2>3 DEF McpInv
    <3>2. client[d].sess \in Sessions /\ session'[client[d].sess] = session[client[d].sess]
      BY <1>3, <1>7, <2>3, <3>1 DEF LockOK
    <3> QED BY <1>1, <3>1, <3>2 DEF LockOK, HandshakeOK, HoldsLock, Handshaking, Useful
  <2> QED BY <2>1, <2>2, <2>3
<1>10. \A d \in Clients : AnswerOK(d)'
  <2>1. \A d \in Clients : Served(d, i) => Served(d, i)' BY <1>6, <1>7 DEF Served, WaitsFor, Alive
  <2> QED BY <1>1, <1>2, <1>7, <2>1, AnswersKeep
<1>11. ASSUME NEW r \in Servers PROVE PooledOK(r)'
  <2>1. PooledOK(r) /\ pool[r] \in 0 .. MaxSessions BY <1>2 DEF McpInv, McpTypes
  <2>2. pool[r] # 0 => pool[r] \in Sessions /\ pool[r] # i
    BY <1>1, <2>1, SessionsAreNumbers DEF Sessions, PooledOK
  <2> QED BY <1>1, <1>7, <2>1, <2>2 DEF PooledOK, Useful
<1>12. ASSUME NEW j \in Sessions PROVE TaskOK(j)' /\ KnownOK(j)'
  <2>1. TaskOK(j) /\ KnownOK(j) BY DEF McpInv
  <2>2. Awaited(j) => Awaited(j)' BY <1>1, <1>4, <1>5 DEF Awaited, HoldsLock
  <2>3. CASE j = i
    <3>1. Awaited(i)' BY <1>2, <1>4 DEF Awaited, HoldsLock
    <3>2. session[i].at # "unborn" BY <1>1, <2>1, <2>3, UnbornIsTask DEF TaskOK
    <3> QED BY <1>7, <2>1, <2>3, <3>1, <3>2 DEF TaskOK, KnownOK, Alive
  <2>4. CASE j # i BY <1>1, <1>7, <2>1, <2>2, <2>4 DEF TaskOK, KnownOK, Alive
  <2> QED BY <2>3, <2>4
<1>13. \A a \in Admins : ReapOK(a)' BY <1>1, <1>7 DEF McpInv, ReapOK
<1> QED BY <1>8, <1>9, <1>10, <1>11, <1>12, <1>13 DEF McpInv

(* A queue grows: nobody who waits at it is forgotten.                      *)
LEMMA QueueGrows ==
  ASSUME McpTypes, NEW i \in Sessions, NEW x \in Requests,
         session' = [session EXCEPT ![i].queue = Append(@, x)]
  PROVE  /\ session' \in [Sessions -> TaskRow] /\ \A j \in Sessions : j # i => session'[j] = session[j]
         /\ session'[i].srv = session[i].srv /\ session'[i].at = session[i].at
         /\ session'[i].ready = session[i].ready /\ session'[i].serving = session[i].serving
         /\ session'[i].killed = session[i].killed /\ Alive(i)' = Alive(i)
         /\ \A y : Contains(session'[i].queue, y) <=> Contains(session[i].queue, y) \/ y = x
         /\ \A c \in Clients : Served(c, i) => Served(c, i)'
<1>1. session[i] \in TaskRow /\ session \in [Sessions -> TaskRow] BY DEF McpTypes
<1>2. session[i].queue \in Seq(Requests) BY <1>1 DEF TaskRow
<1>3. /\ Append(session[i].queue, x) \in Seq(Requests)
      /\ \A y : Contains(Append(session[i].queue, x), y) <=> Contains(session[i].queue, y) \/ y = x
  BY <1>2, Queues
<1>4. PICK new : new = [session[i] EXCEPT !.queue = Append(@, x)] OBVIOUS
<1>5. session' = [session EXCEPT ![i] = new] BY <1>4
<1>6. /\ new \in TaskRow /\ new.srv = session[i].srv /\ new.at = session[i].at
      /\ new.ready = session[i].ready /\ new.serving = session[i].serving
      /\ new.killed = session[i].killed /\ new.queue = Append(session[i].queue, x)
  BY <1>1, <1>3, <1>4 DEF TaskRow
<1>7. /\ session' \in [Sessions -> TaskRow] /\ session'[i] = new
      /\ \A j \in Sessions : j # i => session'[j] = session[j]
  BY <1>1, <1>5, <1>6
<1>8. Alive(i)' = Alive(i) BY <1>6, <1>7 DEF Alive
<1>9. \A c \in Clients : Served(c, i) => Served(c, i)'
  BY <1>3, <1>6, <1>7, <1>8 DEF Served, WaitsFor
<1> QED BY <1>3, <1>6, <1>7, <1>8, <1>9

LEMMA CallToolKeeps == ASSUME McpInv, NEW c \in Clients, CallTool(c) PROVE McpInv'
<1>1. /\ client[c].at = "connected" /\ McpTypes /\ client[c].srv \in Servers
      /\ UNCHANGED <<pool, connLock, admin>>
  BY DEF CallTool, ClientAt, McpInv, McpTypes
<1>2. PICK s \in Servers : s = client[c].srv BY <1>1
<1>3. CASE pool[s] = 0
  <2>1. Move(c, "done") /\ UNCHANGED <<session, answer>> BY <1>2, <1>3 DEF CallTool
  <2>2. "done" \in ClientSteps \ {"handshake", "aborting"} BY DEF ClientSteps
  <2> QED BY <1>1, <2>1, <2>2, ClientMovesKeep
<1>4. CASE pool[s] # 0
  <2>1. PICK i \in Sessions : i = pool[s]
    <3>1. pool[s] \in 0 .. MaxSessions BY <1>1 DEF McpTypes
    <3> QED BY <1>4, <3>1, SessionsAreNumbers DEF Sessions
  <2>2. /\ session' = [session EXCEPT ![i].queue = Append(@, c)]
        /\ client' = [client EXCEPT ![c].at = "calling", ![c].sess = i]
        /\ answer' = [answer EXCEPT ![c] = "pending"]
    BY <1>2, <1>4, <2>1 DEF CallTool
  <2>3. c \in Requests /\ c # Stop BY McpAssumption DEF Requests, Stop
  <2>4. /\ session' \in [Sessions -> TaskRow] /\ \A j \in Sessions : j # i => session'[j] = session[j]
        /\ session'[i].srv = session[i].srv /\ session'[i].at = session[i].at
        /\ session'[i].ready = session[i].ready /\ session'[i].serving = session[i].serving
        /\ session'[i].killed = session[i].killed /\ Alive(i)' = Alive(i)
        /\ \A y : Contains(session'[i].queue, y) <=> Contains(session[i].queue, y) \/ y = c
        /\ \A d \in Clients : Served(d, i) => Served(d, i)'
    BY <1>1, <2>2, <2>3, QueueGrows
  <2>5. /\ client' \in [Clients -> ClientRow] /\ client'[c].at = "calling" /\ client'[c].srv = s
        /\ \A d \in Clients : d # c => client'[d] = client[d]
    BY <1>1, <1>2, <2>2, SessionsAreNumbers DEF McpTypes, ClientRow, ClientSteps
  <2>6. /\ answer' \in [Clients -> {"none", "pending", "result", "failed", "cancelled"}]
        /\ \A d \in Clients : d # c => answer'[d] = answer[d]
    BY <1>1, <2>2 DEF McpTypes
  <2>7. McpTypes' BY <1>1, <2>4, <2>5, <2>6 DEF McpTypes
  <2>8. session[i].srv = s /\ session[i].ready = "listed" /\ Useful(i)
    BY <1>4, <2>1 DEF McpInv, PooledOK
  <2>9. Useful(i)' BY <2>3, <2>4, <2>8 DEF Useful
  <2>10. ASSUME NEW d \in Clients PROVE LockOK(d)' /\ HandshakeOK(d)'
    <3>1. CASE ~HoldsLock(d) BY <1>1, <2>5, <3>1 DEF LockOK, HandshakeOK, HoldsLock
    <3>2. CASE HoldsLock(d)
      <4>1. LockOK(d) /\ HandshakeOK(d) /\ client'[d] = client[d]
        BY <1>1, <2>5, <3>2 DEF McpInv, HoldsLock
      <4>2. LockOK(d)' BY <1>1, <2>4, <4>1 DEF LockOK, HoldsLock
      <4>3. client[d].at = "handshake" => client[d].sess # i
        BY <1>4, <2>8, <3>2, <4>1 DEF LockOK, HandshakeOK
      <4>4. HandshakeOK(d)'
        BY <1>1, <2>4, <3>2, <4>1, <4>3 DEF HandshakeOK, LockOK, Handshaking, Useful
      <4> QED BY <4>2, <4>4
    <3> QED BY <3>1, <3>2
  <2>11. ASSUME NEW d \in Clients PROVE AnswerOK(d)'
    <3>1. CASE d = c
      <4>1. Served(c, i)' BY <2>4, <2>8 DEF Served, WaitsFor, Useful, Alive
      <4> QED BY <3>1, <4>1 DEF AnswerOK
    <3>2. CASE d # c
      <4>1. \A j \in Sessions : Served(d, j) => Served(d, j)'
        BY <2>4 DEF Served, WaitsFor, Alive
      <4> QED BY <2>6, <3>2, <4>1 DEF McpInv, AnswerOK
    <3> QED BY <3>1, <3>2
  <2>12. ASSUME NEW r \in Servers PROVE PooledOK(r)'
    <3>1. PooledOK(r) /\ pool[r] \in 0 .. MaxSessions BY <1>1 DEF McpInv, McpTypes
    <3>2. pool[r] # 0 => pool[r] \in Sessions BY <3>1, SessionsAreNumbers DEF Sessions
    <3> QED BY <1>1, <2>4, <2>9, <3>1, <3>2 DEF PooledOK, Useful
  <2>13. ASSUME NEW j \in Sessions PROVE TaskOK(j)' /\ KnownOK(j)'
    <3>1. TaskOK(j) /\ KnownOK(j) BY DEF McpInv
    <3>2. Awaited(j) => Awaited(j)' BY <1>1, <2>5 DEF Awaited, HoldsLock
    <3>3. KnownOK(j)' BY <1>1, <2>4, <3>1, <3>2 DEF KnownOK, Alive
    <3>4. session[i].at # "unborn" BY <2>8 DEF Useful
    <3>5. TaskOK(j)' BY <2>4, <3>1, <3>4 DEF TaskOK, Alive
    <3> QED BY <3>3, <3>5
  <2>14. \A a \in Admins : ReapOK(a)' BY <1>1, <2>4 DEF McpInv, ReapOK
  <2> QED BY <2>7, <2>10, <2>11, <2>12, <2>13, <2>14 DEF McpInv
<1> QED BY <1>3, <1>4

(* An admin's disconnect: the session leaves the pool and is told to stop.  *)
LEMMA AdminGoesOn ==
  ASSUME McpTypes, NEW a \in Admins, admin[a].at # "idle", Disconnected(a)
  PROVE  /\ admin' \in [Admins -> AdminRow] /\ admin'[a].at # "grace"
         /\ \A b \in Admins : admin'[b].at # "idle" => admin'[b].srv \in Servers
         /\ \A b \in Admins : b # a => admin'[b] = admin[b]
<1>1. CASE admin[a].op = "delete"
  BY SMTT(20), <1>1 DEF Disconnected, McpTypes, AdminRow
<1>2. CASE admin[a].op # "delete"
  <2>1. admin' = [admin EXCEPT ![a] = [at |-> "idle", op |-> "none", srv |-> NoServer, sess |-> 0]]
    BY <1>2 DEF Disconnected, Quiet
  <2>2. 0 \in 0 .. MaxSessions BY SessionsAreNumbers
  <2> QED BY <2>1, <2>2, AdminMoves
<1> QED BY <1>1, <1>2

LEMMA DisconnectKeeps == ASSUME McpInv, NEW a \in Admins, Disconnect(a) PROVE McpInv'
<1>1. /\ admin[a].at = "disconnect" /\ McpTypes /\ admin[a].srv \in Servers
      /\ UNCHANGED <<connLock, client, answer>>
  BY DEF Disconnect, AdminOnly, McpInv, McpTypes
<1>2. PICK s \in Servers : s = admin[a].srv BY <1>1
<1>3. /\ pool' = [pool EXCEPT ![s] = 0] /\ pool' \in [Servers -> 0 .. MaxSessions] /\ pool'[s] = 0
      /\ \A r \in Servers : r # s => pool'[r] = pool[r]
  BY <1>1, <1>2, SessionsAreNumbers DEF Disconnect, McpTypes
<1>4. CASE pool[s] = 0
  <2>1. Disconnected(a) /\ UNCHANGED session BY <1>2, <1>4 DEF Disconnect
  <2>2. pool' = pool BY <1>1, <1>3, <1>4 DEF McpTypes
  <2>3. /\ admin' \in [Admins -> AdminRow] /\ admin'[a].at # "grace"
        /\ \A b \in Admins : admin'[b].at # "idle" => admin'[b].srv \in Servers
        /\ \A b \in Admins : b # a => admin'[b] = admin[b]
    BY <1>1, <2>1, AdminGoesOn
  <2>4. \A b \in Admins : admin'[b] = admin[b] \/ (admin[b].at # "grace" /\ admin'[b].at # "grace")
    BY <1>1, <2>3
  <2>5. \A c \in Clients : client'[c].at # "idle" => client'[c].srv \in Servers BY <1>1 DEF McpTypes
  <2> QED BY <1>1, <2>1, <2>2, <2>3, <2>4, <2>5, McpQuietKeeps DEF McpTypes
<1>5. CASE pool[s] # 0
  <2>1. PICK i \in Sessions : i = pool[s]
    <3>1. pool[s] \in 0 .. MaxSessions BY <1>1 DEF McpTypes
    <3> QED BY <1>5, <3>1, SessionsAreNumbers DEF Sessions
  <2>2. /\ session' = [session EXCEPT ![i].queue = Append(@, Stop)]
        /\ admin' = [admin EXCEPT ![a].at = "grace", ![a].sess = i]
    BY <1>2, <1>5, <2>1 DEF Disconnect
  <2>3. /\ session' \in [Sessions -> TaskRow] /\ \A j \in Sessions : j # i => session'[j] = session[j]
        /\ session'[i].srv = session[i].srv /\ session'[i].at = session[i].at
        /\ session'[i].ready = session[i].ready /\ session'[i].serving = session[i].serving
        /\ session'[i].killed = session[i].killed /\ Alive(i)' = Alive(i)
        /\ \A d \in Clients : Served(d, i) => Served(d, i)'
    <3>1. Stop \in Requests BY DEF Requests
    <3> QED BY <1>1, <2>2, <3>1, QueueGrows
  <2>4. /\ admin' \in [Admins -> AdminRow] /\ admin'[a].at = "grace" /\ admin'[a].sess = i
        /\ \A b \in Admins : admin'[b].at # "idle" => admin'[b].srv \in Servers
        /\ \A b \in Admins : b # a => admin'[b] = admin[b]
    BY <1>1, <2>2, SessionsAreNumbers DEF McpTypes, AdminRow
  <2>5. McpTypes' BY <1>1, <1>3, <2>3, <2>4 DEF McpTypes
  <2>6. session[i].srv = s /\ session[i].ready = "listed" /\ Useful(i)
    BY <1>5, <2>1 DEF McpInv, PooledOK
  <2>7. ASSUME NEW d \in Clients PROVE LockOK(d)' /\ HandshakeOK(d)'
    <3>1. LockOK(d) /\ HandshakeOK(d) /\ client'[d] = client[d] BY <1>1 DEF McpInv
    <3>2. LockOK(d)' BY <1>1, <2>3, <3>1 DEF LockOK, HoldsLock
    <3>3. HoldsLock(d) => client[d].srv \in Servers BY <1>1 DEF McpTypes, HoldsLock
    <3>4. client[d].at = "handshake" => client[d].sess # i /\ client[d].sess \in Sessions
      BY <1>5, <2>6, <3>1 DEF LockOK, HandshakeOK, HoldsLock
    <3>5. client[d].at = "handshake" => pool'[client[d].srv] = 0
      BY <1>3, <3>1, <3>3 DEF HandshakeOK, HoldsLock
    <3>6. HandshakeOK(d)' BY <2>3, <3>1, <3>4, <3>5 DEF HandshakeOK, Handshaking, Useful
    <3> QED BY <3>2, <3>6
  <2>8. \A d \in Clients : AnswerOK(d)' BY <1>1, <2>3, AnswersKeep
  <2>9. ASSUME NEW r \in Servers PROVE PooledOK(r)'
    <3>1. PooledOK(r) /\ pool[r] \in 0 .. MaxSessions BY <1>1 DEF McpInv, McpTypes
    <3>2. pool[r] # 0 /\ r # s => pool[r] \in Sessions /\ pool[r] # i
      BY <2>6, <3>1, SessionsAreNumbers DEF Sessions, PooledOK
    <3> QED BY <1>3, <2>3, <3>1, <3>2 DEF PooledOK, Useful
  <2>10. ASSUME NEW j \in Sessions PROVE TaskOK(j)' /\ KnownOK(j)'
    <3>1. TaskOK(j) /\ KnownOK(j) BY DEF McpInv
    <3>2. session[i].at # "unborn" BY <2>6 DEF Useful
    <3>3. TaskOK(j)' BY <2>3, <3>1, <3>2 DEF TaskOK, Alive
    <3>4. Awaited(j) => Awaited(j)' BY <1>1, <2>4 DEF Awaited, HoldsLock
    <3>5. CASE j = i BY <2>4, <3>3, <3>5 DEF KnownOK, Awaited
    <3>6. CASE j # i
      <4>1. Alive(j) /\ pool[session[j].srv] = j => pool'[session[j].srv] = j
        BY <1>3, <2>1, <3>1, <3>6 DEF TaskOK
      <4> QED BY <2>3, <3>1, <3>3, <3>4, <3>6, <4>1 DEF KnownOK, Alive
    <3> QED BY <3>5, <3>6
  <2>11. \A b \in Admins : ReapOK(b)' BY <2>3, <2>4, <2>6 DEF McpInv, ReapOK
  <2> QED BY <2>5, <2>7, <2>8, <2>9, <2>10, <2>11 DEF McpInv
<1> QED BY <1>4, <1>5

LEMMA ReapKeeps == ASSUME McpInv, NEW a \in Admins, ReapSession(a) PROVE McpInv'
<1>1. /\ admin[a].at = "grace" /\ McpTypes /\ ReapOK(a)
      /\ KillIfAlive(admin[a].sess) /\ Disconnected(a) /\ UNCHANGED <<pool, connLock, client>>
  BY DEF ReapSession, AdminOnly, McpInv
<1>2. PICK i \in Sessions : i = admin[a].sess BY <1>1 DEF ReapOK
<1>3. /\ session' \in [Sessions -> TaskRow] /\ \A j \in Sessions : j # i => session'[j] = session[j]
      /\ session'[i].srv = session[i].srv /\ session'[i].ready = session[i].ready
      /\ TaskOK(i)' /\ ~Alive(i)' /\ (Useful(i) => Useful(i)')
      /\ \A d \in Clients : AnswerOK(d)'
      /\ answer' \in [Clients -> {"none", "pending", "result", "failed", "cancelled"}]
  BY <1>1, <1>2, KillKeepsSession
<1>4. /\ admin' \in [Admins -> AdminRow] /\ admin'[a].at # "grace"
      /\ \A b \in Admins : admin'[b].at # "idle" => admin'[b].srv \in Servers
      /\ \A b \in Admins : b # a => admin'[b] = admin[b]
  BY <1>1, AdminGoesOn
<1>5. McpTypes' BY <1>1, <1>3, <1>4 DEF McpTypes
<1>6. session[i].ready \in {"listed", "abandoned"} BY <1>1, <1>2 DEF ReapOK
<1>7. ASSUME NEW j \in Sessions
      PROVE  (Handshaking(j) => Handshaking(j)') /\ (Useful(j) => Useful(j)')
  <2>1. CASE j = i BY <1>3, <1>6, <2>1 DEF Handshaking
  <2>2. CASE j # i BY <1>3, <2>2 DEF Handshaking, Useful
  <2> QED BY <2>1, <2>2
<1>8. \A j \in Sessions : session'[j].srv = session[j].srv /\ session'[j].ready = session[j].ready
  BY <1>3
<1>9. ASSUME NEW d \in Clients PROVE LockOK(d)' /\ HandshakeOK(d)'
  <2>1. LockOK(d) /\ HandshakeOK(d) BY DEF McpInv
  <2> QED BY <1>1, <1>7, <1>8, <2>1 DEF LockOK, HandshakeOK, HoldsLock
<1>10. ASSUME NEW r \in Servers PROVE PooledOK(r)'
  <2>1. PooledOK(r) /\ pool[r] \in 0 .. MaxSessions BY <1>1 DEF McpInv, McpTypes
  <2>2. pool[r] # 0 => pool[r] \in Sessions BY <2>1, SessionsAreNumbers DEF Sessions
  <2> QED BY <1>1, <1>7, <1>8, <2>1, <2>2 DEF PooledOK
<1>11. ASSUME NEW j \in Sessions PROVE TaskOK(j)' /\ KnownOK(j)'
  <2>1. TaskOK(j) /\ KnownOK(j) BY DEF McpInv
  <2>2. CASE j = i BY <1>3, <2>2 DEF KnownOK
  <2>3. CASE j # i
    <3>1. TaskOK(j)' BY <1>3, <2>1, <2>3 DEF TaskOK, Alive
    <3>2. Awaited(j) => Awaited(j)' BY <1>1, <1>2, <1>4, <2>3 DEF Awaited, HoldsLock
    <3> QED BY <1>1, <1>3, <2>1, <2>3, <3>1, <3>2 DEF KnownOK, Alive
  <2> QED BY <2>2, <2>3
<1>12. \A b \in Admins : ReapOK(b)' BY <1>4, <1>8 DEF McpInv, ReapOK
<1> QED BY <1>3, <1>5, <1>9, <1>10, <1>11, <1>12 DEF McpInv

LEMMA RebootKeepsHost == ASSUME McpInv, Reboot PROVE McpInv'
<1>1. McpTypes BY DEF McpInv
<1>2. /\ pool' = [s \in Servers |-> 0] /\ connLock' = [s \in Servers |-> NoClient]
      /\ client' = [c \in Clients |-> IF ClientAt(c, "idle") THEN Idle ELSE [client[c] EXCEPT !.at = "done"]]
      /\ answer' = [c \in Clients |-> IF answer[c] = "pending" THEN "cancelled" ELSE answer[c]]
      /\ admin' = [a \in Admins |-> Quiet]
  BY DEF Reboot
<1>3. ASSUME NEW i \in Sessions
      PROVE  /\ session'[i] \in TaskRow /\ session'[i].at \in {"unborn", "ended"}
             /\ session'[i].at = "unborn" => session'[i] = Unborn
  <2>1. session'[i] = IF session[i] = Unborn THEN Unborn
                      ELSE [Unborn EXCEPT !.srv = session[i].srv, !.at = "ended"]
    BY DEF Reboot
  <2>2. session[i].srv \in Servers \cup {NoServer} BY <1>1 DEF McpTypes, TaskRow
  <2>3. PICK r : r = [Unborn EXCEPT !.srv = session[i].srv, !.at = "ended"] OBVIOUS
  <2>4. r \in TaskRow /\ r.at = "ended" BY <2>2, <2>3, UnbornIsTask DEF TaskRow, TaskSteps
  <2> QED BY <2>1, <2>3, <2>4, UnbornIsTask
<1>4. session' \in [Sessions -> TaskRow] BY <1>3 DEF Reboot
<1>5. ASSUME NEW c \in Clients
      PROVE  /\ client'[c] \in ClientRow /\ client'[c].at \in {"idle", "done"}
             /\ client'[c].at # "idle" => client'[c].srv \in Servers
  <2>1. client[c] \in ClientRow /\ (client[c].at # "idle" => client[c].srv \in Servers)
    BY <1>1 DEF McpTypes
  <2>2. CASE client[c].at = "idle"
    <3>1. client'[c] = [at |-> "idle", srv |-> NoServer, sess |-> 0]
      BY <1>2, <2>2 DEF ClientAt, Idle
    <3> QED BY <3>1, SessionsAreNumbers DEF ClientRow, ClientSteps
  <2>3. CASE client[c].at # "idle"
    <3>1. client'[c] = [client[c] EXCEPT !.at = "done"] BY <1>2, <2>3 DEF ClientAt
    <3> QED BY <2>1, <2>3, <3>1 DEF ClientRow, ClientSteps
  <2> QED BY <2>2, <2>3
<1>6. \A a \in Admins : admin'[a] \in AdminRow /\ admin'[a].at = "idle"
  BY <1>2, SessionsAreNumbers DEF Quiet, AdminRow
<1>7. /\ answer' \in [Clients -> {"none", "pending", "result", "failed", "cancelled"}]
      /\ \A c \in Clients : answer'[c] # "pending"
  BY <1>1, <1>2 DEF McpTypes
<1>8. McpTypes'
  <2>1. client' \in [Clients -> ClientRow] BY <1>2, <1>5
  <2>2. admin' \in [Admins -> AdminRow] BY <1>2, <1>6
  <2>3. pool' \in [Servers -> 0 .. MaxSessions] /\ connLock' \in [Servers -> Clients \cup {NoClient}]
    BY <1>2, SessionsAreNumbers
  <2> QED BY <1>4, <1>5, <1>6, <1>7, <2>1, <2>2, <2>3 DEF McpTypes
<1>9. \A c \in Clients : LockOK(c)' /\ HandshakeOK(c)' /\ AnswerOK(c)'
  BY <1>5, <1>7 DEF LockOK, HandshakeOK, AnswerOK, HoldsLock
<1>10. \A s \in Servers : PooledOK(s)' BY <1>2 DEF PooledOK
<1>11. \A i \in Sessions : TaskOK(i)' /\ KnownOK(i)' BY <1>3 DEF TaskOK, KnownOK, Alive
<1>12. \A a \in Admins : ReapOK(a)' BY <1>6 DEF ReapOK
<1> QED BY <1>8, <1>9, <1>10, <1>11, <1>12 DEF McpInv

LEMMA McpInvHolds == McpSpec => []McpInv
<1>1. McpInv /\ [McpNext]_mcpVars => McpInv'
  <2> SUFFICES ASSUME McpInv, [McpNext]_mcpVars PROVE McpInv' OBVIOUS
  <2>1. ASSUME NEW c \in Clients, ClientStep(c) PROVE McpInv'
    <3>1. ASSUME HandshakeTimesOut(c) \/ CallTool(c) PROVE McpInv'
      BY <3>1, HandshakeTimeoutKeeps, CallToolKeeps
    <3>2. ASSUME AbortTask(c) PROVE McpInv'
      <4>1. /\ client[c].at = "aborting" /\ KillIfAlive(client[c].sess) /\ Move(c, "done")
            /\ FreeLock(client[c].srv) /\ UNCHANGED <<pool, admin>>
        BY <3>2 DEF AbortTask, GiveUp, ClientAt
      <4> QED BY <4>1, AbortKeepsHost
    <3> QED BY <2>1, <3>1, <3>2, LockAndRecheckKeeps, PoolConnectionKeeps, RefusedKeeps, CallEndKeeps
        DEF ClientStep
  <2>2. ASSUME NEW c \in Clients, NEW s \in Servers, Connect(c, s) PROVE McpInv'
    BY <2>2, ConnectKeeps
  <2>3. ASSUME NEW c \in Clients, ClientCancelled(c) PROVE McpInv' BY <2>3, CancelKeeps
  <2>4. ASSUME NEW i \in Sessions, SessionStep(i) \/ ServerDies(i) PROVE McpInv'
    BY <2>4, HandshakeEndKeeps, TakeRequestKeeps, TaskEndKeeps, AnswerKeeps DEF SessionStep
  <2>5. ASSUME NEW a \in Admins, AdminStep(a) PROVE McpInv'
    BY <2>5, DisconnectKeeps, ReapKeeps, StoreKeepsHost DEF AdminStep
  <2>6. CASE \/ \E s \in Servers : Install(s) \/ Enable(s)
             \/ \E a \in Admins, s \in Servers, op \in {"disable", "delete"} : BeginAdmin(a, op, s)
    BY <2>6, StoreKeepsHost
  <2>7. CASE Reboot BY <2>7, RebootKeepsHost
  <2>8. CASE UNCHANGED mcpVars
    <3>1. UNCHANGED <<pool, connLock, session, client, answer, admin>> BY <2>8 DEF mcpVars
    <3>2. /\ \A c \in Clients : client'[c].at # "idle" => client'[c].srv \in Servers
          /\ \A a \in Admins : admin'[a].at # "idle" => admin'[a].srv \in Servers
      BY <3>1 DEF McpInv, McpTypes
    <3> QED BY <3>1, <3>2, McpQuietKeeps DEF McpInv, McpTypes
  <2> QED BY <2>1, <2>2, <2>3, <2>4, <2>5, <2>6, <2>7, <2>8 DEF McpNext
<1> QED BY <1>1, McpInit_Inv, PTL DEF McpSpec

(* Whatever servers, clients and admins do, a live session is in the pool   *)
(* or somebody awaits its handshake or its end, and a caller that waits is  *)
(* queued at or served by a live session, or one that died under it         *)
(* (McpHost: connect, call_tool, disconnect, _session_task).                *)
THEOREM SessionsAreAccountedFor == McpSpec => []NobodyForgotten
<1>1. McpInv => NobodyForgotten
  <2> SUFFICES ASSUME McpInv PROVE NobodyForgotten OBVIOUS
  <2>1. ASSUME NEW i \in Sessions, Alive(i), session[i].ready # "abandoned"
        PROVE  \/ pool[session[i].srv] = i
               \/ \E c \in Clients : client[c].at \in {"handshake", "aborting"} /\ client[c].sess = i
               \/ \E a \in Admins : admin[a].at = "grace" /\ admin[a].sess = i
    BY <2>1 DEF McpInv, KnownOK, Awaited, HoldsLock
  <2>2. ASSUME NEW c \in Clients, answer[c] = "pending"
        PROVE  \E i \in Sessions : WaitsFor(c, i) /\ (Alive(i) \/ session[i].killed)
    BY <2>2 DEF McpInv, AnswerOK, Served
  <2> QED BY <2>1, <2>2 DEF NobodyForgotten
<1> QED BY <1>1, McpInvHolds, PTL

-----------------------------------------------------------------------------
(* The agentic loop. Inductive: the calls that were gathered and the one    *)
(* that is being built belong to different slots and have ids of this round,*)
(* and so do the captured ones, of which the history has no row yet. As     *)
(* long as no arguments arrived while another call was being built, they    *)
(* carry their own ids and arguments, no card was closed under the captured *)
(* ones, and a card that was opened is closed, or its call is gathered,     *)
(* built or captured.                                                       *)

LoopIds == {"blank", "given", "fresh"} \X Nat \X (Slots \cup Nat)
LoopArgs == {NoArgs} \cup (Nat \X Slots)
LoopCalls == [named : BOOLEAN, id : LoopIds, slot : Slots \cup {0}, args : LoopArgs]
BufStates == {"new", "named", "nameless", "done"}
Decoders == [message : BOOLEAN, reasoning : BOOLEAN, finished : BOOLEAN, ended : BOOLEAN,
             bufs : [Slots -> BufStates]]
CallRows == [role : {"assistant"}, id : LoopIds, args : LoopArgs, slot : Slots \cup {0}, round : Nat]
AnswerRows == [role : {"tool"}, id : LoopIds]

LoopTypes ==
  /\ loopAt \in {"streaming", "executing", "done", "raised", "cancelled"}
  /\ round \in 0 .. MaxRounds /\ cut \in Nat /\ crossed \in BOOLEAN
  /\ decoder \in Decoders /\ sawFinish \in BOOLEAN
  /\ building \in LoopCalls /\ gathered \in Seq(LoopCalls) /\ captured \in Seq(LoopCalls)
  /\ working \in Seq(CallRows \cup AnswerRows)
  /\ cards \in [started : SUBSET LoopIds, ended : Seq(LoopIds)]
  /\ frames \in Seq({"chat.end", "error"})

OwnCall(c, n) ==
  /\ c.named /\ c.slot \in Slots /\ c.id # Blank /\ c.id[2] = round
  /\ ~crossed => /\ c.id \in {Given(c.slot), Fresh(n)}
                 /\ c.args \in {NoArgs, ArgsOf(c.slot)}
IsEnded(id) == \E i \in 1 .. Len(cards.ended) : cards.ended[i] = id

FinalOK == Final => ~building.named /\ gathered = <<>> /\ captured = <<>> /\ ~sawFinish
GatheredOK ==
  /\ \A k \in 1 .. Len(gathered) :
       OwnCall(gathered[k], k - 1) /\ decoder.bufs[gathered[k].slot] \in {"named", "done"}
  /\ \A j, k \in 1 .. Len(gathered) : j # k => gathered[j].slot # gathered[k].slot
BuildingOK == building.named =>
  /\ OwnCall(building, Len(gathered)) /\ decoder.bufs[building.slot] \in {"named", "done"}
  /\ \A k \in 1 .. Len(gathered) : gathered[k].slot # building.slot
DecoderOK ==
  /\ decoder.finished => /\ gathered = <<>> /\ ~building.named /\ (Final \/ sawFinish)
                         /\ \A s \in Slots : decoder.bufs[s] = "new"
  /\ ~decoder.finished => ~sawFinish /\ captured = <<>>
  /\ ~Final => \A s \in Slots : decoder.bufs[s] = "named" => building.named
CapturedOK ==
  /\ \A k \in 1 .. Len(captured) :
       /\ captured[k].id[2] = round /\ captured[k].id # Blank
       /\ ~crossed => /\ ~IsEnded(captured[k].id)
                      /\ captured[k].args \in {NoArgs, ArgsOf(captured[k].slot)}
  /\ \A j, k \in 1 .. Len(captured) : j # k =>
       /\ captured[j].slot # captured[k].slot
       /\ ~crossed => captured[j].id # captured[k].id
  /\ loopAt = "executing" => captured # <<>> /\ decoder.finished
EndedOK ==
  /\ ~crossed => \A i, j \in 1 .. Len(cards.ended) : i # j => cards.ended[i] # cards.ended[j]
  /\ \A i \in 1 .. Len(cards.ended) :
       cards.ended[i][2] \in 0 .. (IF loopAt = "streaming" THEN round - 1 ELSE round)
RowOK(i) ==
  IF working[i].role = "assistant"
  THEN /\ i < Len(working) /\ working[i + 1].role = "tool" /\ working[i + 1].id = working[i].id
       /\ ~crossed => OwnArguments(working[i]) /\ IsEnded(working[i].id)
       /\ \A j \in 1 .. Len(working) : j # i /\ working[j].role = "assistant" =>
            /\ <<working[j].round, working[j].slot>> # <<working[i].round, working[i].slot>>
            /\ ~crossed => working[j].id # working[i].id
  ELSE i > 1 /\ working[i - 1].role = "assistant"
WorkOK == \A i \in 1 .. Len(working) : RowOK(i)
PlacesOK == \A i \in 1 .. Len(working) : working[i].role = "assistant" =>
  \/ working[i].round < round
  \/ /\ loopAt # "streaming" /\ working[i].round = round
     /\ \A k \in 1 .. Len(captured) : captured[k].slot # working[i].slot
Accounted(id) ==
  \/ IsEnded(id)
  \/ building.named /\ building.id = id
  \/ \E k \in 1 .. Len(gathered) : gathered[k].id = id
  \/ \E k \in 1 .. Len(captured) : captured[k].id = id
StartedOK ==
  /\ \A id \in cards.started \ {Blank} : id[1] = "given" /\ id[2] \in 0 .. round
                                    /\ (~crossed => Accounted(id))
  /\ ~decoder.finished =>
       \A s \in Slots : decoder.bufs[s] \in {"new", "nameless"} => Given(s) \notin cards.started
FramesOK ==
  /\ loopAt # "done" => frames = <<>>
  /\ cut = 0 /\ loopAt = "done" => Len(frames) = 1
  /\ loopAt = "done" /\ frames = <<"chat.end">> => ~decoder.message /\ ~decoder.reasoning
  /\ cut = 0 => \A s \in Slots : /\ decoder.bufs[s] # "nameless"
                                 /\ ~Final /\ decoder.bufs[s] # "new" => building.named
  /\ cut = 0 /\ sawFinish /\ loopAt = "streaming" => captured # <<>>
LoopInv ==
  /\ LoopTypes /\ FinalOK /\ GatheredOK /\ BuildingOK /\ DecoderOK /\ CapturedOK
  /\ EndedOK /\ WorkOK /\ PlacesOK /\ StartedOK /\ FramesOK

LEMMA LoopIdsDiffer ==
  ASSUME round \in Nat
  PROVE  /\ \A s \in Slots : Given(s) \in LoopIds /\ Given(s) # Blank
                              /\ Given(s)[1] = "given" /\ Given(s)[2] = round
         /\ \A n \in Nat : Fresh(n) \in LoopIds /\ Fresh(n) # Blank
                           /\ Fresh(n)[1] = "fresh" /\ Fresh(n)[2] = round
         /\ \A s, t \in Slots : Given(s) = Given(t) => s = t
         /\ \A m, n \in Nat : Fresh(m) = Fresh(n) => m = n
         /\ \A s \in Slots, n \in Nat : Given(s) # Fresh(n)
         /\ Blank \in LoopIds
BY DEF Given, Fresh, Blank, LoopIds

LEMMA FreshDecoderIs ==
  /\ FreshDecoder \in Decoders /\ FreshDecoder.finished = FALSE
  /\ \A s \in Slots : FreshDecoder.bufs[s] = "new"
BY DEF FreshDecoder, Decoders, BufStates

LEMMA NoCallIs == NoCall \in LoopCalls /\ NoCall.named = FALSE
BY DEF NoCall, LoopCalls, LoopIds, LoopArgs, Blank, NoArgs

LEMMA LoopInit_Inv == LoopInit => LoopInv
<1> SUFFICES ASSUME LoopInit PROVE LoopInv OBVIOUS
<1> USE LoopAssumption, FreshDecoderIs, NoCallIs
<1>1. LoopTypes
  <2>1. <<>> \in Seq(LoopCalls) /\ <<>> \in Seq(LoopIds) /\ <<>> \in Seq({"chat.end", "error"})
        /\ <<>> \in Seq(CallRows \cup AnswerRows)
    OBVIOUS
  <2>2. round \in 0 .. MaxRounds /\ cut \in Nat BY DEF LoopInit, LoopAssumption
  <2>5. decoder \in Decoders /\ sawFinish \in BOOLEAN BY DEF LoopInit
  <2>6. crossed \in BOOLEAN BY Zenon DEF LoopInit
  <2>3. cards \in [started : SUBSET LoopIds, ended : Seq(LoopIds)] BY <2>1 DEF LoopInit
  <2>4. loopAt = "streaming" /\ building \in LoopCalls /\ gathered = <<>> /\ captured = <<>>
        /\ working = <<>> /\ frames = <<>>
    BY DEF LoopInit
  <2> QED BY ONLY <2>1, <2>2, <2>3, <2>4, <2>5, <2>6 DEF LoopTypes
<1>2. FinalOK /\ GatheredOK /\ BuildingOK /\ DecoderOK /\ CapturedOK /\ EndedOK /\ WorkOK /\ PlacesOK
  BY DEF LoopInit, FinalOK, GatheredOK, BuildingOK, DecoderOK, CapturedOK, EndedOK, WorkOK, PlacesOK, Final
<1>3. StartedOK /\ FramesOK BY DEF LoopInit, StartedOK, FramesOK, Final
<1> QED BY <1>1, <1>2, <1>3 DEF LoopInv

(* A step within a response leaves what was captured and executed alone.   *)
LEMMA ResponseGoesOn ==
  ASSUME LoopInv, UNCHANGED <<loopAt, round, captured, working, frames, gathered>>,
         crossed => crossed', crossed' \in BOOLEAN, cards'.ended = cards.ended,
         decoder'.finished = decoder.finished
  PROVE  CapturedOK' /\ EndedOK' /\ WorkOK' /\ PlacesOK'
<1>1. \A id : IsEnded(id)' <=> IsEnded(id) BY DEF IsEnded
<1>2. CapturedOK' BY <1>1 DEF LoopInv, CapturedOK, ArgsOf
<1>3. EndedOK' BY DEF LoopInv, EndedOK
<1>4. WorkOK'
  <2> SUFFICES ASSUME NEW i \in 1 .. Len(working) PROVE RowOK(i)' BY DEF WorkOK
  <2>1. RowOK(i) BY DEF LoopInv, WorkOK
  <2> QED BY <1>1, <2>1 DEF RowOK, OwnArguments
<1>5. PlacesOK' BY DEF LoopInv, PlacesOK
<1> QED BY <1>2, <1>3, <1>4, <1>5

LEMMA TextKeepsLoop == ASSUME LoopInv, Reasoning \/ Content PROVE LoopInv'
<1>1. /\ UNCHANGED <<loopAt, round, captured, working, frames, gathered, building, sawFinish, cards, cut,
                   crossed>>
      /\ loopAt = "streaming"
  BY DEF Reasoning, Content, LoopOnly, Whole, Deltas, Streaming
<1>2. /\ decoder' \in Decoders
      /\ decoder'.finished = decoder.finished /\ decoder'.bufs = decoder.bufs
  <2>1. decoder \in Decoders BY DEF LoopInv, LoopTypes
  <2> QED BY <2>1 DEF Reasoning, Content, Decoders
<1>3. LoopTypes' BY <1>1, <1>2 DEF LoopInv, LoopTypes
<1>4. FinalOK' /\ GatheredOK' /\ BuildingOK' /\ DecoderOK'
  BY <1>1, <1>2 DEF LoopInv, FinalOK, GatheredOK, BuildingOK, DecoderOK, Final, OwnCall, Given, Fresh, ArgsOf
<1>5. CapturedOK' /\ EndedOK' /\ WorkOK' /\ PlacesOK'
  BY <1>1, <1>2, ResponseGoesOn DEF LoopInv, LoopTypes
<1>6. StartedOK' BY <1>1, <1>2 DEF LoopInv, StartedOK, Accounted, IsEnded, Given
<1>7. FramesOK' BY <1>1, <1>2 DEF LoopInv, FramesOK, Final
<1> QED BY <1>3, <1>4, <1>5, <1>6, <1>7 DEF LoopInv

LEMMA CutKeepsLoop == ASSUME LoopInv, NEW s \in Slots, CutPayload(s) PROVE LoopInv'
<1>1. /\ UNCHANGED <<loopAt, round, captured, working, frames, gathered, building, sawFinish, cards,
                   crossed>>
      /\ loopAt = "streaming" /\ ~decoder.finished /\ decoder.bufs[s] \in {"new", "named"}
  BY DEF CutPayload, LoopOnly, Deltas, Streaming
<1>2. cut' = cut + 1 /\ cut \in Nat BY DEF CutPayload, LoopInv, LoopTypes
<1>3. PICK b \in BufStates : b = IF decoder.bufs[s] = "new" THEN "nameless" ELSE "done"
  BY <1>1 DEF BufStates
<1>4. /\ decoder' \in Decoders /\ decoder'.finished = decoder.finished
      /\ decoder'.bufs = [decoder.bufs EXCEPT ![s] = b]
  <2>1. decoder \in Decoders BY DEF LoopInv, LoopTypes
  <2>2. decoder' = [decoder EXCEPT !.bufs[s] = b] BY <1>3 DEF CutPayload
  <2> QED BY <2>1, <2>2 DEF Decoders
<1>5. decoder.bufs \in [Slots -> BufStates] BY DEF LoopInv, LoopTypes, Decoders
<1>6. LoopTypes' BY <1>1, <1>2, <1>4 DEF LoopInv, LoopTypes
<1>7. FinalOK' BY <1>1 DEF LoopInv, FinalOK, Final
<1>8. GatheredOK'
  <2>1. \A k \in 1 .. Len(gathered) : gathered[k].slot = s => b = "done"
    BY <1>1, <1>3 DEF LoopInv, GatheredOK
  <2> QED BY <1>1, <1>2, <1>4, <1>5, <2>1
          DEF LoopInv, GatheredOK, OwnCall, Given, Fresh, ArgsOf
<1>9. BuildingOK'
  BY <1>1, <1>2, <1>3, <1>4, <1>5 DEF LoopInv, BuildingOK, OwnCall, Given, Fresh, ArgsOf
<1>10. DecoderOK' BY <1>1, <1>3, <1>4, <1>5 DEF LoopInv, DecoderOK, Final
<1>11. CapturedOK' /\ EndedOK' /\ WorkOK' /\ PlacesOK'
  BY <1>1, <1>2, <1>4, ResponseGoesOn DEF LoopInv, LoopTypes
<1>12. StartedOK'
  BY <1>1, <1>3, <1>4, <1>5 DEF LoopInv, StartedOK, Accounted, IsEnded, Given
<1>13. FramesOK' BY <1>1, <1>2, <1>4 DEF LoopInv, FramesOK, Final
<1> QED BY <1>6, <1>7, <1>8, <1>9, <1>10, <1>11, <1>12, <1>13 DEF LoopInv

LEMMA ArgumentsKeepLoop ==
  ASSUME LoopInv, NEW s \in Slots, ToolArguments(s) PROVE LoopInv'
<1>0. /\ crossed' \in BOOLEAN /\ (crossed => crossed')
      /\ ~crossed' => ~building.named \/ building.slot = s
  BY DEF ToolArguments, LoopInv, LoopTypes
<1>1. /\ UNCHANGED <<loopAt, round, captured, working, frames, gathered, sawFinish, cards, cut>>
      /\ loopAt = "streaming" /\ ~decoder.finished /\ decoder.bufs[s] \in {"named", "nameless"}
  BY DEF ToolArguments, LoopOnly, Deltas, Streaming
<1>2. decoder.bufs \in [Slots -> BufStates] /\ round \in Nat /\ building \in LoopCalls
  BY LoopAssumption DEF LoopInv, LoopTypes, Decoders
<1>3. /\ decoder' \in Decoders /\ decoder'.finished = decoder.finished
      /\ decoder'.bufs = [decoder.bufs EXCEPT ![s] = "done"]
  <2>1. decoder \in Decoders BY DEF LoopInv, LoopTypes
  <2>2. decoder' = [decoder EXCEPT !.bufs[s] = "done"] BY DEF ToolArguments
  <2> QED BY <2>1, <2>2 DEF Decoders, BufStates
<1>4. CASE Final
  <2>1. building' = building BY <1>4 DEF ToolArguments
  <2>2. ~building.named /\ gathered = <<>> BY <1>4 DEF LoopInv, FinalOK
  <2>3. LoopTypes' BY <1>0, <1>1, <1>3, <2>1 DEF LoopInv, LoopTypes
  <2>4. FinalOK' BY <1>1, <2>1 DEF LoopInv, FinalOK, Final
  <2>5. GatheredOK' /\ BuildingOK' BY <1>1, <2>1, <2>2 DEF GatheredOK, BuildingOK
  <2>6. DecoderOK' BY <1>1, <1>3, <1>4, <2>1 DEF LoopInv, DecoderOK, Final
  <2>7. CapturedOK' /\ EndedOK' /\ WorkOK' /\ PlacesOK'
    BY <1>0, <1>1, <1>3, ResponseGoesOn
  <2>8. StartedOK' BY <1>0, <1>1, <1>2, <1>3, <2>1 DEF LoopInv, StartedOK, Accounted, IsEnded, Given
  <2>9. FramesOK' BY <1>1, <1>2, <1>3, <1>4, <2>1 DEF LoopInv, FramesOK, Final
  <2> QED BY <2>3, <2>4, <2>5, <2>6, <2>7, <2>8, <2>9 DEF LoopInv
<1>5. CASE ~Final
  <2>1. PICK id \in LoopIds :
          /\ building' = [building EXCEPT !.args = ArgsOf(s), !.id = id]
          /\ id = IF Given(s) \in cards.started THEN Given(s) ELSE building.id
    BY <1>2, <1>5, LoopIdsDiffer DEF ToolArguments, LoopCalls
  <2>2. /\ building' \in LoopCalls /\ building'.named = building.named
        /\ building'.slot = building.slot /\ building'.args = ArgsOf(s) /\ building'.id = id
    <3>1. ArgsOf(s) \in LoopArgs BY <1>2 DEF ArgsOf, LoopArgs
    <3> QED BY <1>2, <2>1, <3>1 DEF LoopCalls
  <2>3. decoder.bufs[s] = "named" => building.named BY <1>5 DEF LoopInv, DecoderOK
  <2>4. building.named => id # Blank /\ id[2] = round
    BY <1>2, <2>1, LoopIdsDiffer DEF LoopInv, BuildingOK, OwnCall
  <2>5. LoopTypes' BY <1>0, <1>1, <1>3, <2>2 DEF LoopInv, LoopTypes
  <2>6. FinalOK' BY <1>1, <2>2 DEF LoopInv, FinalOK, Final
  <2>7. GatheredOK' BY <1>0, <1>1, <1>2, <1>3 DEF LoopInv, GatheredOK, OwnCall, Given, Fresh, ArgsOf
  <2>8. BuildingOK'
    <3>1. ASSUME building.named, ~crossed' PROVE id \in {Given(s), Fresh(Len(gathered))} /\ building.slot = s
      BY <1>0, <2>1, <3>1 DEF LoopInv, BuildingOK, OwnCall
    <3> QED BY <1>0, <1>1, <1>2, <1>3, <2>2, <2>4, <3>1
            DEF LoopInv, BuildingOK, OwnCall, Given, Fresh, ArgsOf
  <2>9. DecoderOK' BY <1>1, <1>2, <1>3, <2>2 DEF LoopInv, DecoderOK, Final
  <2>10. CapturedOK' /\ EndedOK' /\ WorkOK' /\ PlacesOK'
    BY <1>0, <1>1, <1>3, ResponseGoesOn
  <2>11. StartedOK'
    <3>1. ASSUME NEW i \in cards.started \ {Blank}, ~crossed' PROVE Accounted(i)'
      <4>1. Accounted(i) /\ i[1] = "given" BY <1>0, <3>1 DEF LoopInv, StartedOK
      <4>2. ASSUME building.named, building.id = i PROVE building'.id = i
        <5>1. building.id \in {Given(building.slot), Fresh(Len(gathered))} /\ building.slot \in Slots
              /\ Len(gathered) \in Nat
          BY <1>0, <3>1, <4>2 DEF LoopInv, BuildingOK, OwnCall, LoopTypes
        <5>2. building.id = Given(building.slot) BY <1>2, <4>1, <4>2, <5>1, LoopIdsDiffer
        <5>3. building.slot = s BY <1>0, <3>1, <4>2
        <5> QED BY <2>1, <2>2, <3>1, <4>2, <5>2, <5>3
      <4> QED BY <1>1, <2>2, <4>1, <4>2 DEF Accounted, IsEnded
    <3> QED BY <1>1, <1>2, <1>3, <3>1 DEF LoopInv, StartedOK, Given
  <2>12. FramesOK' BY <1>1, <1>2, <1>3, <2>2 DEF LoopInv, FramesOK, Final
  <2> QED BY <2>5, <2>6, <2>7, <2>8, <2>9, <2>10, <2>11, <2>12 DEF LoopInv
<1> QED BY <1>4, <1>5

LEMMA FlushedIs ==
  ASSUME LoopInv
  PROVE  Flushed = IF building.named THEN Append(gathered, building) ELSE gathered
BY DEF Flushed, LoopInv, BuildingOK, OwnCall

LEMMA FlushedSlots ==
  ASSUME LoopInv
  PROVE  /\ Flushed \in Seq(LoopCalls)
         /\ \A k \in 1 .. Len(Flushed) :
              /\ OwnCall(Flushed[k], k - 1)
              /\ decoder.bufs[Flushed[k].slot] \in {"named", "done"}
         /\ \A j, k \in 1 .. Len(Flushed) : j # k => Flushed[j].slot # Flushed[k].slot
         /\ \A id : (building.named /\ building.id = id) \/ (\E k \in 1 .. Len(gathered) : gathered[k].id = id)
                    => \E k \in 1 .. Len(Flushed) : Flushed[k].id = id
<1>1. gathered \in Seq(LoopCalls) /\ building \in LoopCalls BY DEF LoopInv, LoopTypes
<1>2. CASE ~building.named
  BY <1>1, <1>2, FlushedIs DEF LoopInv, GatheredOK
<1>3. CASE building.named
  <2>1. Flushed = Append(gathered, building) BY <1>3, FlushedIs
  <2> DEFINE n == Len(gathered) + 1
  <2>2. /\ Flushed \in Seq(LoopCalls) /\ Len(Flushed) = n /\ n \in Nat /\ Flushed[n] = building
        /\ \A k \in 1 .. Len(gathered) : Flushed[k] = gathered[k]
    BY <1>1, <2>1
  <2>3. \A k \in 1 .. n : k \in 1 .. Len(gathered) \/ k = n BY <1>1
  <2>4. ASSUME NEW k \in 1 .. n
        PROVE  OwnCall(Flushed[k], k - 1) /\ decoder.bufs[Flushed[k].slot] \in {"named", "done"}
    <3>1. CASE k = n BY <1>1, <1>3, <2>2, <3>1 DEF LoopInv, BuildingOK
    <3>2. CASE k \in 1 .. Len(gathered) BY <2>2, <3>2 DEF LoopInv, GatheredOK
    <3> QED BY <2>3, <3>1, <3>2
  <2>5. \A j, k \in 1 .. n : j # k => Flushed[j].slot # Flushed[k].slot
    BY <1>3, <2>2, <2>3 DEF LoopInv, GatheredOK, BuildingOK
  <2>6. \A k \in 1 .. Len(gathered) : k \in 1 .. n BY <1>1
  <2>7. n \in 1 .. n BY <1>1
  <2> QED BY <1>3, <2>2, <2>4, <2>5, <2>6, <2>7
<1> QED BY <1>2, <1>3

LEMMA ToolNameKeepsLoop ==
  ASSUME LoopInv, NEW s \in Slots, ToolName(s) PROVE LoopInv'
<1>1. /\ UNCHANGED <<loopAt, round, captured, working, frames, sawFinish, cut, crossed>>
      /\ loopAt = "streaming" /\ ~decoder.finished /\ decoder.bufs[s] = "new"
  BY DEF ToolName, LoopOnly, Deltas, Streaming, Whole
<1>2. decoder.bufs \in [Slots -> BufStates] /\ round \in Nat /\ building \in LoopCalls
      /\ gathered \in Seq(LoopCalls) /\ crossed \in BOOLEAN
      /\ cards \in [started : SUBSET LoopIds, ended : Seq(LoopIds)]
  BY LoopAssumption DEF LoopInv, LoopTypes, Decoders
<1>3. /\ decoder' \in Decoders /\ decoder'.finished = decoder.finished
      /\ decoder'.bufs = [decoder.bufs EXCEPT ![s] = "named"]
  <2>1. decoder \in Decoders BY DEF LoopInv, LoopTypes
  <2>2. decoder' = [decoder EXCEPT !.bufs[s] = "named"] BY DEF ToolName
  <2> QED BY <2>1, <2>2 DEF Decoders, BufStates
<1>4. CASE Final
  <2>1. UNCHANGED <<building, gathered, cards>> BY <1>4 DEF ToolName
  <2>2. ~building.named /\ gathered = <<>> BY <1>4 DEF LoopInv, FinalOK
  <2>3. LoopTypes' BY <1>1, <1>3, <2>1 DEF LoopInv, LoopTypes
  <2>4. FinalOK' BY <1>1, <2>1 DEF LoopInv, FinalOK, Final
  <2>5. GatheredOK' /\ BuildingOK' BY <1>1, <2>1, <2>2 DEF GatheredOK, BuildingOK
  <2>6. DecoderOK' BY <1>1, <1>3, <1>4, <2>1 DEF LoopInv, DecoderOK, Final
  <2>7. CapturedOK' /\ EndedOK' /\ WorkOK' /\ PlacesOK' BY <1>1, <1>2, <1>3, <2>1, ResponseGoesOn
  <2>8. StartedOK' BY <1>1, <1>2, <1>3, <2>1 DEF LoopInv, StartedOK, Accounted, IsEnded, Given
  <2>9. FramesOK' BY <1>1, <1>2, <1>3, <1>4, <2>1 DEF LoopInv, FramesOK, Final
  <2> QED BY <2>3, <2>4, <2>5, <2>6, <2>7, <2>8, <2>9 DEF LoopInv
<1>5. CASE ~Final
  <2>1. PICK id \in {Given(s), Blank} :
          /\ gathered' = Flushed
          /\ building' = [named |-> TRUE, slot |-> s, args |-> NoArgs,
                          id |-> IF id = Blank THEN Fresh(Len(gathered')) ELSE id]
          /\ cards' = [cards EXCEPT !.started = @ \cup {id}]
    BY <1>5 DEF ToolName
  <2>2. gathered' \in Seq(LoopCalls) /\ Len(gathered') \in Nat BY <2>1, FlushedSlots
  <2>3. id \in LoopIds /\ building'.id \in LoopIds BY <1>2, <2>1, <2>2, LoopIdsDiffer
  <2>4. /\ building' \in LoopCalls /\ building'.named /\ building'.slot = s
        /\ building'.args = NoArgs
        /\ building'.id = IF id = Blank THEN Fresh(Len(gathered')) ELSE id
    BY <2>1, <2>3 DEF LoopCalls, LoopArgs
  <2>5. /\ cards' \in [started : SUBSET LoopIds, ended : Seq(LoopIds)]
        /\ cards'.ended = cards.ended /\ cards'.started = cards.started \cup {id}
    BY <1>2, <2>1, <2>3
  <2>6. LoopTypes' BY <1>1, <1>3, <2>2, <2>4, <2>5 DEF LoopInv, LoopTypes
  <2>7. FinalOK' BY <1>1, <1>5 DEF FinalOK, Final
  <2>8. GatheredOK'
    <3>2. ASSUME NEW k \in 1 .. Len(gathered')
          PROVE  (OwnCall(gathered[k], k - 1) /\ decoder.bufs[gathered[k].slot] \in {"named", "done"})'
      <4>1. OwnCall(gathered'[k], k - 1) /\ decoder.bufs[gathered'[k].slot] \in {"named", "done"}
        BY <2>1, FlushedSlots
      <4>2. gathered'[k].slot \in Slots BY <4>1 DEF OwnCall
      <4>3. OwnCall(gathered[k], k - 1)'
        BY <1>1, <4>1 DEF OwnCall, Given, Fresh, ArgsOf
      <4> QED BY <1>2, <1>3, <4>1, <4>2, <4>3
    <3> QED BY <2>1, <3>2, FlushedSlots DEF GatheredOK
  <2>9. BuildingOK'
    <3>1. building'.id \in {Given(s), Fresh(Len(gathered'))} BY <2>1, <2>4
    <3>2. ASSUME NEW k \in 1 .. Len(gathered') PROVE gathered'[k].slot # s
      BY <1>1, <2>1, FlushedSlots
    <3>3. building'.id # Blank /\ building'.id[2] = round BY <1>2, <2>2, <3>1, LoopIdsDiffer
    <3>4. decoder'.bufs[s] = "named" BY <1>2, <1>3
    <3>5. OwnCall(building, Len(gathered))'
      <4>1. building'.id \in {Given(s)', Fresh(Len(gathered))'} BY <1>1, <3>1 DEF Given, Fresh
      <4>2. building'.id[2] = round' BY <1>1, <3>3
      <4> QED BY <2>4, <3>3, <4>1, <4>2 DEF OwnCall
    <3> QED BY <2>4, <3>2, <3>4, <3>5 DEF BuildingOK
  <2>10. DecoderOK' BY <1>1, <1>2, <1>3, <2>4 DEF LoopInv, DecoderOK, Final
  <2>11. CapturedOK' /\ EndedOK' /\ WorkOK' /\ PlacesOK'
    <3>1. \A i : IsEnded(i)' <=> IsEnded(i) BY <2>5 DEF IsEnded
    <3>2. CapturedOK' BY <1>1, <1>3, <3>1 DEF LoopInv, CapturedOK, ArgsOf
    <3>3. EndedOK' BY <1>1, <2>5 DEF LoopInv, EndedOK
    <3>4. WorkOK' BY <1>1, <3>1 DEF LoopInv, WorkOK, RowOK, OwnArguments
    <3>5. PlacesOK' BY <1>1 DEF LoopInv, PlacesOK
    <3> QED BY <3>2, <3>3, <3>4, <3>5
  <2>12. StartedOK'
    <3>1. ASSUME NEW i \in cards'.started, i # Blank
          PROVE  i[1] = "given" /\ i[2] \in 0 .. round /\ (~crossed => Accounted(i)')
      <4>1. CASE i = id
        BY <1>2, <2>1, <2>4, <3>1, <4>1, LoopIdsDiffer DEF Accounted
      <4>2. CASE i \in cards.started
        <5>1. i[1] = "given" /\ i[2] \in 0 .. round /\ (~crossed => Accounted(i))
          BY <3>1, <4>2 DEF LoopInv, StartedOK
        <5>2. (building.named /\ building.id = i) \/ (\E k \in 1 .. Len(gathered) : gathered[k].id = i)
                => \E k \in 1 .. Len(gathered') : gathered'[k].id = i
          BY <2>1, FlushedSlots
        <5> QED BY <1>1, <2>5, <5>1, <5>2 DEF Accounted, IsEnded
      <4> QED BY <2>5, <3>1, <4>1, <4>2
    <3>2. ASSUME NEW t \in Slots, decoder'.bufs[t] \in {"new", "nameless"}
          PROVE  Given(t) \notin cards'.started
      <4>1. t # s BY <1>2, <1>3, <3>2
      <4>2. Given(t) \notin cards.started
        BY <1>1, <1>2, <1>3, <3>2, <4>1 DEF LoopInv, StartedOK
      <4> QED BY <1>2, <2>1, <2>5, <4>1, <4>2, LoopIdsDiffer
    <3> QED BY <1>1, <3>1, <3>2 DEF StartedOK, Given
  <2>13. FramesOK' BY <1>1, <1>2, <1>3, <2>4 DEF LoopInv, FramesOK, Final
  <2> QED BY <2>6, <2>7, <2>8, <2>9, <2>10, <2>11, <2>12, <2>13 DEF LoopInv
<1> QED BY <1>4, <1>5

LEMMA FinishKeepsLoop == ASSUME LoopInv, FinishToolCalls PROVE LoopInv'
<1>1. /\ UNCHANGED <<loopAt, round, cut, crossed, working, cards, frames>>
      /\ loopAt = "streaming"
      /\ decoder.finished \/ \E s \in Slots : decoder.bufs[s] # "new"
  BY DEF FinishToolCalls, Streaming
<1>2. round \in Nat /\ crossed \in BOOLEAN /\ captured \in Seq(LoopCalls)
  BY LoopAssumption DEF LoopInv, LoopTypes
<1>3. decoder' \in Decoders /\ decoder'.finished /\ \A s \in Slots : decoder'.bufs[s] = "new"
  BY FreshDecoderIs DEF FinishToolCalls, Decoders
<1>4. \A id : IsEnded(id)' <=> IsEnded(id) BY <1>1 DEF IsEnded
<1>5. EndedOK' /\ WorkOK' /\ PlacesOK' /\ (loopAt # "executing")'
  <2>1. EndedOK' /\ (loopAt # "executing")' BY <1>1 DEF LoopInv, EndedOK
  <2>2. WorkOK' BY <1>1, <1>4 DEF LoopInv, WorkOK, RowOK, OwnArguments
  <2>3. PlacesOK' BY <1>1 DEF LoopInv, PlacesOK
  <2> QED BY <2>1, <2>2, <2>3
<1>6. CASE Final
  <2>1. UNCHANGED <<building, gathered, captured, sawFinish>> BY <1>6 DEF FinishToolCalls
  <2>2. ~building.named /\ gathered = <<>> /\ captured = <<>> /\ ~sawFinish
    BY <1>6 DEF LoopInv, FinalOK
  <2>3. LoopTypes' BY <1>1, <1>3, <2>1 DEF LoopInv, LoopTypes
  <2>4. FinalOK' BY <1>1, <2>1 DEF LoopInv, FinalOK, Final
  <2>5. GatheredOK' /\ BuildingOK' /\ CapturedOK'
    BY <1>1, <1>5, <2>1, <2>2 DEF GatheredOK, BuildingOK, CapturedOK
  <2>6. DecoderOK' BY <1>1, <1>3, <1>6, <2>1, <2>2 DEF DecoderOK, Final
  <2>7. StartedOK' BY <1>1, <1>3, <2>1 DEF LoopInv, StartedOK, Accounted, IsEnded
  <2>8. FramesOK' BY <1>1, <1>3, <2>1, <2>2 DEF LoopInv, FramesOK
  <2> QED BY <1>5, <2>3, <2>4, <2>5, <2>6, <2>7, <2>8 DEF LoopInv
<1>7. CASE ~Final
  <2>1. captured' = captured \o Flushed /\ gathered' = <<>> /\ building' = NoCall /\ sawFinish' = TRUE
    BY <1>7 DEF FinishToolCalls
  <2>2. ~building'.named /\ gathered' \in Seq(LoopCalls) /\ building' \in LoopCalls /\ sawFinish' \in BOOLEAN
    BY <2>1, NoCallIs
  <2>3. \/ captured' = captured /\ sawFinish /\ Flushed = <<>> /\ ~building.named /\ gathered = <<>>
        \/ captured' = Flushed /\ captured = <<>> /\ ~decoder.finished
    <3>1. CASE decoder.finished
      <4>1. Flushed = <<>> /\ sawFinish /\ ~building.named /\ gathered = <<>>
        BY <1>7, <3>1, FlushedIs DEF LoopInv, DecoderOK
      <4> QED BY <1>2, <2>1, <4>1
    <3>2. CASE ~decoder.finished
      <4>1. captured = <<>> BY <3>2 DEF LoopInv, DecoderOK
      <4>2. Flushed \in Seq(LoopCalls) BY FlushedSlots
      <4> QED BY <2>1, <3>2, <4>1, <4>2
    <3> QED BY <3>1, <3>2
  <2>4. captured' \in Seq(LoopCalls) BY <1>2, <2>3, FlushedSlots
  <2>5. LoopTypes' BY <1>1, <1>3, <2>2, <2>4 DEF LoopInv, LoopTypes
  <2>6. FinalOK' BY <1>1, <1>7 DEF FinalOK, Final
  <2>7. GatheredOK' /\ BuildingOK' BY <2>1, <2>2 DEF GatheredOK, BuildingOK
  <2>8. DecoderOK' BY <1>3, <2>1, <2>2 DEF DecoderOK
  <2>9. CapturedOK'
    <3>1. CASE captured' = captured BY <1>1, <1>4, <1>5, <3>1 DEF LoopInv, CapturedOK, ArgsOf
    <3>2. CASE captured' = Flushed
      <4>1. ASSUME NEW k \in 1 .. Len(captured')
            PROVE  /\ captured'[k].slot \in Slots /\ k - 1 \in Nat
                   /\ captured'[k].id[2] = round /\ captured'[k].id # Blank
                   /\ ~crossed => /\ captured'[k].id \in {Given(captured'[k].slot), Fresh(k - 1)}
                                  /\ captured'[k].args \in {NoArgs, ArgsOf(captured'[k].slot)}
        BY <3>2, FlushedSlots DEF OwnCall
      <4>3. ASSUME NEW k \in 1 .. Len(captured'), IsEnded(captured'[k].id) PROVE FALSE
        <5>1. PICK i \in 1 .. Len(cards.ended) : cards.ended[i] = captured'[k].id
          BY <4>3 DEF IsEnded
        <5>2. cards.ended[i][2] \in 0 .. round - 1 BY <1>1 DEF LoopInv, EndedOK
        <5> QED BY <1>2, <4>1, <5>1, <5>2
      <4>4. ASSUME NEW j \in 1 .. Len(captured'), NEW k \in 1 .. Len(captured'), j # k
            PROVE  /\ captured'[j].slot # captured'[k].slot
                   /\ ~crossed => captured'[j].id # captured'[k].id
        <5>1. captured'[j].slot # captured'[k].slot BY <3>2, <4>4, FlushedSlots
        <5>2. j - 1 # k - 1 BY <4>4
        <5>3. ASSUME ~crossed PROVE captured'[j].id # captured'[k].id
          BY SMTT(20), <1>2, <4>1, <5>1, <5>2, <5>3, LoopIdsDiffer
        <5> QED BY <5>1, <5>3
      <4> QED BY <1>1, <1>4, <1>5, <4>1, <4>3, <4>4 DEF CapturedOK, ArgsOf
    <3> QED BY <2>3, <3>1, <3>2
  <2>10. StartedOK'
    <3>1. ASSUME NEW i \in cards.started, i # Blank
          PROVE  i[1] = "given" /\ i[2] \in 0 .. round /\ (~crossed => Accounted(i)')
      <4>1. i[1] = "given" /\ i[2] \in 0 .. round /\ (~crossed => Accounted(i))
        BY <3>1 DEF LoopInv, StartedOK
      <4>2. (building.named /\ building.id = i) \/ (\E k \in 1 .. Len(gathered) : gathered[k].id = i)
              => \E k \in 1 .. Len(captured') : captured'[k].id = i
        <5>1. CASE captured' = Flushed BY <5>1, FlushedSlots
        <5>2. CASE ~building.named /\ gathered = <<>> BY <5>2
        <5> QED BY <2>3, <5>1, <5>2
      <4>3. (\E k \in 1 .. Len(captured) : captured[k].id = i)
              => \E k \in 1 .. Len(captured') : captured'[k].id = i
        BY <2>3
      <4> QED BY <1>4, <4>1, <4>2, <4>3 DEF Accounted
    <3> QED BY <1>1, <1>3, <3>1 DEF StartedOK
  <2>11. FramesOK'
    <3>1. ASSUME cut = 0 PROVE captured' # <<>>
      <4>1. CASE captured' = captured /\ sawFinish BY <1>1, <3>1, <4>1 DEF LoopInv, FramesOK
      <4>2. CASE captured' = Flushed /\ ~decoder.finished
        <5>1. building.named BY <1>1, <1>7, <3>1, <4>2 DEF LoopInv, FramesOK
        <5>2. Flushed = Append(gathered, building) BY <5>1, FlushedIs
        <5>3. Len(Flushed) = Len(gathered) + 1 /\ Len(gathered) \in Nat
          BY <5>2 DEF LoopInv, LoopTypes
        <5> QED BY <4>2, <5>3
      <4> QED BY <2>3, <4>1, <4>2
    <3> QED BY <1>1, <1>3, <3>1 DEF LoopInv, FramesOK
  <2> QED BY <1>5, <2>5, <2>6, <2>7, <2>8, <2>9, <2>10, <2>11 DEF LoopInv
<1> QED BY <1>6, <1>7

(* A response ends or is abandoned: only where the turn is, the frames and  *)
(* the open blocks change.                                                  *)
LEMMA ResponseOver ==
  ASSUME LoopInv, UNCHANGED <<round, cut, crossed, building, gathered, captured, sawFinish, working, cards>>,
         decoder' \in Decoders, decoder'.finished = decoder.finished, decoder'.bufs = decoder.bufs,
         loopAt' \in {"done", "raised", "cancelled"}
           \/ (loopAt' = "executing" /\ captured # <<>> /\ sawFinish),
         frames' \in Seq({"chat.end", "error"}), FramesOK'
  PROVE  LoopInv'
<1>1. \A id : IsEnded(id)' <=> IsEnded(id) BY DEF IsEnded
<1>2. LoopTypes' BY DEF LoopInv, LoopTypes
<1>3. FinalOK' BY DEF LoopInv, FinalOK, Final
<1>4. GatheredOK' BY DEF LoopInv, GatheredOK, OwnCall, Given, Fresh, ArgsOf
<1>5. BuildingOK' BY DEF LoopInv, BuildingOK, OwnCall, Given, Fresh, ArgsOf
<1>6. DecoderOK' BY DEF LoopInv, DecoderOK, Final
<1>7. CapturedOK'
  <2>1. sawFinish => decoder.finished BY DEF LoopInv, DecoderOK
  <2> QED BY <1>1, <2>1 DEF LoopInv, CapturedOK, ArgsOf
<1>8. EndedOK'
  <2>1. round \in Nat BY LoopAssumption DEF LoopInv, LoopTypes
  <2>2. ASSUME NEW i \in 1 .. Len(cards.ended) PROVE cards.ended[i][2] \in 0 .. round
    BY <2>1 DEF LoopInv, EndedOK
  <2> QED BY <2>2 DEF LoopInv, EndedOK
<1>9. WorkOK' /\ PlacesOK'
  <2>1. WorkOK' BY <1>1 DEF LoopInv, WorkOK, RowOK, OwnArguments
  <2>2. PlacesOK' BY DEF LoopInv, PlacesOK
  <2> QED BY <2>1, <2>2
<1>10. StartedOK' BY <1>1 DEF LoopInv, StartedOK, Accounted, Given
<1> QED BY <1>2, <1>3, <1>4, <1>5, <1>6, <1>7, <1>8, <1>9, <1>10 DEF LoopInv

LEMMA FramesOf ==
  ASSUME NEW f \in {"chat.end", "error"}, frames = <<>>, Emit(f)
  PROVE  /\ frames' \in Seq({"chat.end", "error"}) /\ Len(frames') = 1
         /\ f = "error" => frames' # <<"chat.end">>
BY DEF Emit

LEMMA StopKeepsLoop ==
  ASSUME LoopInv, ResponseEnds \/ UpstreamError \/ InnerRaises \/ TurnCancelled
  PROVE  LoopInv'
<1>1. /\ UNCHANGED <<round, cut, crossed, building, gathered, captured, sawFinish, working, cards>>
      /\ loopAt \in {"streaming", "executing"}
  BY DEF ResponseEnds, UpstreamError, InnerRaises, TurnCancelled, Streaming
<1>2. decoder' \in Decoders /\ decoder'.finished = decoder.finished /\ decoder'.bufs = decoder.bufs
  <2>1. decoder \in Decoders BY DEF LoopInv, LoopTypes
  <2> QED BY <2>1 DEF ResponseEnds, UpstreamError, InnerRaises, TurnCancelled, Decoders
<1>3. frames = <<>> /\ frames \in Seq({"chat.end", "error"})
  BY <1>1 DEF LoopInv, FramesOK, LoopTypes
<1>4. \/ loopAt' \in {"raised", "cancelled"} /\ frames' = frames
      \/ loopAt' = "done" /\ Emit("error")
      \/ loopAt' = "done" /\ Emit("chat.end") /\ ~decoder'.message /\ ~decoder'.reasoning
      \/ /\ sawFinish /\ frames' = frames /\ loopAt = "streaming"
         /\ loopAt' = IF captured # <<>> THEN "executing" ELSE "done"
  <2>1. CASE ResponseEnds
    <3>1. ~decoder'.message /\ ~decoder'.reasoning
      <4>1. decoder \in Decoders BY DEF LoopInv, LoopTypes
      <4> QED BY <2>1, <4>1 DEF ResponseEnds, Decoders
    <3> QED BY <2>1, <3>1 DEF ResponseEnds, TakeChatEnd, Streaming
  <2> QED BY <2>1 DEF UpstreamError, InnerRaises, TurnCancelled
<1>5. /\ frames' \in Seq({"chat.end", "error"})
      /\ loopAt' # "done" => frames' = <<>>
      /\ cut = 0 /\ loopAt' = "done" => Len(frames') = 1
      /\ loopAt' = "done" /\ frames' = <<"chat.end">> => ~decoder'.message /\ ~decoder'.reasoning
      /\ loopAt' # "streaming"
  <2>1. cut = 0 /\ sawFinish /\ loopAt = "streaming" => captured # <<>> BY DEF LoopInv, FramesOK
  <2>2. CASE loopAt' = "done" /\ (Emit("error") \/ (Emit("chat.end") /\ ~decoder'.message /\ ~decoder'.reasoning))
    BY <1>3, <2>2, FramesOf
  <2>3. CASE loopAt' \in {"raised", "cancelled"} /\ frames' = frames BY <1>3, <2>3
  <2>4. CASE /\ sawFinish /\ frames' = frames /\ loopAt = "streaming"
             /\ loopAt' = IF captured # <<>> THEN "executing" ELSE "done"
    <3>1. frames' # <<"chat.end">> /\ frames' = <<>> BY <1>3, <2>4
    <3> QED BY <1>3, <2>1, <2>4, <3>1
  <2> QED BY <1>4, <2>2, <2>3, <2>4
<1>6. FramesOK' BY <1>1, <1>2, <1>5 DEF LoopInv, FramesOK, Final
<1>7. loopAt' \in {"done", "raised", "cancelled"} \/ (loopAt' = "executing" /\ captured # <<>> /\ sawFinish)
  BY <1>4
<1> QED BY <1>1, <1>2, <1>5, <1>6, <1>7, ResponseOver

(* Two rows are appended to the history: a call with a new id, its answer. *)
LEMMA RowsAppended ==
  ASSUME LoopTypes, WorkOK, UNCHANGED crossed, NEW id \in LoopIds, ~crossed => ~IsEnded(id),
         NEW a \in CallRows, a.id = id, ~crossed => OwnArguments(a),
         \A i \in 1 .. Len(working) : working[i].role = "assistant" =>
           <<working[i].round, working[i].slot>> # <<a.round, a.slot>>,
         NEW b \in AnswerRows, b.id = id,
         \A i : IsEnded(i)' <=> (IsEnded(i) \/ i = id),
         working' = working \o <<a, b>>
  PROVE  WorkOK' /\ working' \in Seq(CallRows \cup AnswerRows)
<1>0. PICK m \in Nat : m = Len(working) BY DEF LoopTypes
<1>1. working \in Seq(CallRows \cup AnswerRows) /\ m = Len(working) BY <1>0 DEF LoopTypes
<1>2. <<a, b>> \in Seq(CallRows \cup AnswerRows) /\ Len(<<a, b>>) = 2
      /\ <<a, b>>[1] = a /\ <<a, b>>[2] = b
  OBVIOUS
<1>3. working' \in Seq(CallRows \cup AnswerRows) BY <1>1, <1>2
<1>4. /\ Len(working') = m + 2 /\ working'[m + 1] = a /\ working'[m + 2] = b
      /\ \A i \in 1 .. m : working'[i] = working[i]
  BY <1>1, <1>2
<1>5. a.role = "assistant" /\ b.role = "tool" BY DEF CallRows, AnswerRows
<1>6. \A i \in 1 .. m + 2 : i \in 1 .. m \/ i = m + 1 \/ i = m + 2 BY <1>1
<1>7. \A c : OwnArguments(c)' <=> OwnArguments(c) BY DEF OwnArguments
<1>8. ASSUME NEW i \in 1 .. m, working[i].role = "assistant" PROVE RowOK(i)'
  <2>1. /\ i < m /\ working[i + 1].role = "tool" /\ working[i + 1].id = working[i].id
        /\ ~crossed => OwnArguments(working[i]) /\ IsEnded(working[i].id)
        /\ \A j \in 1 .. m : j # i /\ working[j].role = "assistant" =>
             /\ <<working[j].round, working[j].slot>> # <<working[i].round, working[i].slot>>
             /\ ~crossed => working[j].id # working[i].id
    BY <1>1, <1>8 DEF WorkOK, RowOK
  <2>2. i + 1 \in 1 .. m /\ i < m + 2 BY <1>1, <2>1
  <2>3. working'[i] = working[i] /\ working'[i + 1] = working[i + 1] BY <1>4, <2>2
  <2>4. \A j \in 1 .. m + 2 : j # i /\ working'[j].role = "assistant" =>
          /\ <<working'[j].round, working'[j].slot>> # <<working'[i].round, working'[i].slot>>
          /\ ~crossed => working'[j].id # working'[i].id
    BY <1>1, <1>4, <1>5, <1>6, <1>8, <2>1, <2>3
  <2>5. ~crossed => OwnArguments(working[i])' BY <2>1, <2>3, <1>7 DEF OwnArguments
  <2> QED BY <1>4, <1>8, <2>1, <2>2, <2>3, <2>4, <2>5 DEF RowOK
<1>9. ASSUME NEW i \in 1 .. m, working[i].role # "assistant" PROVE RowOK(i)'
  <2>1. i > 1 /\ working[i - 1].role = "assistant" BY <1>1, <1>9 DEF WorkOK, RowOK
  <2>2. i - 1 \in 1 .. m BY <1>1, <2>1
  <2> QED BY <1>4, <1>9, <2>1, <2>2 DEF RowOK
<1>10. RowOK(m + 1)'
  <2>1. ASSUME NEW j \in 1 .. m + 2, j # m + 1, working'[j].role = "assistant"
        PROVE  /\ <<working'[j].round, working'[j].slot>> # <<a.round, a.slot>>
               /\ ~crossed => working'[j].id # a.id
    <3>1. j \in 1 .. m BY <1>4, <1>5, <1>6, <2>1
    <3>2. working[j].role = "assistant" BY <1>4, <2>1, <3>1
    <3>3. ~crossed => IsEnded(working[j].id) BY <1>1, <3>1, <3>2 DEF WorkOK, RowOK
    <3> QED BY <1>1, <1>4, <3>1, <3>2, <3>3
  <2>2. (m + 1) + 1 = m + 2 /\ m + 1 < m + 2 BY <1>1
  <2>3. ~crossed => OwnArguments(working[m + 1])' BY <1>4 DEF OwnArguments
  <2> QED BY <1>4, <1>5, <2>1, <2>2, <2>3 DEF RowOK
<1>11. RowOK(m + 2)'
  <2>1. (m + 2) - 1 = m + 1 /\ m + 2 > 1 BY <1>1
  <2> QED BY <1>4, <1>5, <2>1 DEF RowOK
<1>12. \A i \in 1 .. m + 2 : RowOK(i)' BY <1>6, <1>8, <1>9, <1>10, <1>11
<1> QED BY <1>3, <1>4, <1>12 DEF WorkOK

LEMMA ExecuteKeepsLoop == ASSUME LoopInv, ExecuteCall PROVE LoopInv'
<1> DEFINE id == Head(captured).id
<1>1. /\ loopAt = "executing" /\ captured # <<>> /\ decoder.finished
      /\ captured \in Seq(LoopCalls) /\ Len(captured) \in Nat /\ Len(captured) > 0
      /\ Head(captured) = captured[1] /\ captured[1] \in LoopCalls
      /\ 1 \in 1 .. Len(captured) /\ UNCHANGED <<cut, crossed, frames>>
  <2>1. loopAt = "executing" /\ UNCHANGED <<cut, crossed, frames>> BY DEF ExecuteCall, NextRound
  <2>2. captured # <<>> /\ decoder.finished BY <2>1 DEF LoopInv, CapturedOK
  <2>3. captured \in Seq(LoopCalls) BY DEF LoopInv, LoopTypes
  <2> QED BY <2>1, <2>2, <2>3
<1>2. id = captured[1].id /\ id \in LoopIds /\ id[2] = round /\ id # Blank /\ (~crossed => ~IsEnded(id))
      /\ \A k \in 2 .. Len(captured) : /\ captured[k].slot # captured[1].slot
                                       /\ ~crossed => captured[k].id # id
  BY <1>1 DEF LoopInv, CapturedOK, LoopCalls
<1>3. ~Final /\ round \in 0 .. MaxRounds /\ round # MaxRounds /\ MaxRounds \in Nat /\ crossed \in BOOLEAN
  BY <1>1, LoopAssumption DEF LoopInv, LoopTypes, FinalOK, Final
<1>4. sawFinish /\ gathered = <<>> /\ ~building.named /\ \A s \in Slots : decoder.bufs[s] = "new"
  BY <1>1, <1>3 DEF LoopInv, DecoderOK
<1>5. /\ cards' \in [started : SUBSET LoopIds, ended : Seq(LoopIds)]
      /\ cards'.started = cards.started /\ cards'.ended = Append(cards.ended, id)
      /\ cards.ended \in Seq(LoopIds)
  <2>1. cards' = [cards EXCEPT !.ended = Append(@, id)] BY DEF ExecuteCall
  <2>2. cards \in [started : SUBSET LoopIds, ended : Seq(LoopIds)] BY DEF LoopInv, LoopTypes
  <2>3. Append(cards.ended, id) \in Seq(LoopIds) BY <1>2, <2>2
  <2> QED BY <2>1, <2>2, <2>3
<1> HIDE DEF id
<1>6. /\ Len(cards'.ended) = Len(cards.ended) + 1 /\ Len(cards.ended) \in Nat
      /\ cards'.ended[Len(cards.ended) + 1] = id
      /\ \A i \in 1 .. Len(cards.ended) : cards'.ended[i] = cards.ended[i]
      /\ \A i \in 1 .. Len(cards'.ended) : i \in 1 .. Len(cards.ended) \/ i = Len(cards.ended) + 1
      /\ \A i \in 1 .. Len(cards.ended) : i \in 1 .. Len(cards'.ended)
      /\ Len(cards.ended) + 1 \in 1 .. Len(cards'.ended)
  BY <1>2, <1>5
<1>7. \A i : IsEnded(i)' <=> (IsEnded(i) \/ i = id) BY <1>6 DEF IsEnded
<1>8. /\ captured' \in Seq(LoopCalls) /\ Len(captured') = Len(captured) - 1
      /\ \A k \in 1 .. Len(captured') : captured'[k] = captured[k + 1] /\ k + 1 \in 2 .. Len(captured)
  <2>1. captured' = Tail(captured) BY DEF ExecuteCall
  <2> QED BY <1>1, <2>1
<1>9. WorkOK' /\ working' \in Seq(CallRows \cup AnswerRows)
  <2> DEFINE a == [role |-> "assistant", id |-> Head(captured).id, args |-> Head(captured).args,
                   slot |-> Head(captured).slot, round |-> round]
             b == [role |-> "tool", id |-> Head(captured).id]
  <2>1. a \in CallRows /\ b \in AnswerRows /\ a.id = id /\ b.id = id
    BY <1>1, <1>3 DEF CallRows, AnswerRows, LoopCalls, id
  <2>2. ~crossed => OwnArguments(a)
    BY <1>1 DEF OwnArguments, LoopInv, CapturedOK, ArgsOf
  <2>3. working' = working \o <<a, b>> BY DEF ExecuteCall
  <2>4. \A i \in 1 .. Len(working) : working[i].role = "assistant" =>
          <<working[i].round, working[i].slot>> # <<a.round, a.slot>>
    BY <1>1, <1>3 DEF LoopInv, PlacesOK
  <2> HIDE DEF a, b
  <2> QED BY <1>1, <1>2, <1>7, <2>1, <2>2, <2>3, <2>4, RowsAppended DEF LoopInv
<1>10. ~crossed => \A i, j \in 1 .. Len(cards'.ended) : i # j => cards'.ended[i] # cards'.ended[j]
  <2>1. ~crossed => \A i \in 1 .. Len(cards.ended) : cards.ended[i] # id BY <1>2 DEF IsEnded
  <2> QED BY <1>6, <2>1 DEF LoopInv, EndedOK
<1>11. \A i \in 1 .. Len(cards'.ended) : cards'.ended[i][2] \in 0 .. round
  <2>1. \A i \in 1 .. Len(cards.ended) : cards.ended[i][2] \in 0 .. round
    BY <1>1 DEF LoopInv, EndedOK
  <2>2. id[2] \in 0 .. round BY <1>2, <1>3
  <2> QED BY <1>6, <2>1, <2>2
<1>12. ASSUME NEW i \in cards.started, i # Blank
       PROVE  /\ i[1] = "given" /\ i[2] \in 0 .. round
              /\ ~crossed => (IsEnded(i)' \/ \E k \in 1 .. Len(captured') : captured'[k].id = i)
  <2>1. i[1] = "given" /\ i[2] \in 0 .. round /\ (~crossed => Accounted(i))
    BY <1>12 DEF LoopInv, StartedOK
  <2>2. CASE \E k \in 1 .. Len(captured) : captured[k].id = i
    <3>1. PICK k \in 1 .. Len(captured) : captured[k].id = i BY <2>2
    <3>2. CASE k = 1 BY <1>2, <1>7, <2>1, <3>1, <3>2
    <3>3. CASE k # 1
      <4>1. k - 1 \in 1 .. Len(captured') /\ (k - 1) + 1 = k BY <1>1, <1>8, <3>3
      <4>2. captured'[k - 1] = captured[k] BY <1>8, <4>1
      <4> QED BY <2>1, <3>1, <4>1, <4>2
    <3> QED BY <3>2, <3>3
  <2> QED BY <1>4, <1>7, <2>1, <2>2 DEF Accounted
<1>13. \A i \in 1 .. Len(working') : working'[i].role = "assistant" =>
         \/ working'[i].round < round
         \/ /\ working'[i].round = round
            /\ \A k \in 1 .. Len(captured') : captured'[k].slot # working'[i].slot
  <2> DEFINE a == [role |-> "assistant", id |-> Head(captured).id, args |-> Head(captured).args,
                   slot |-> Head(captured).slot, round |-> round]
             b == [role |-> "tool", id |-> Head(captured).id]
  <2>1. working' = working \o <<a, b>> BY DEF ExecuteCall
  <2>2. a.round = round /\ a.slot = captured[1].slot /\ b.role # "assistant" BY <1>1
  <2>3. working \in Seq(CallRows \cup AnswerRows) /\ Len(working) \in Nat BY DEF LoopInv, LoopTypes
  <2> HIDE DEF a, b
  <2>4. /\ Len(working') = Len(working) + 2
        /\ working'[Len(working) + 1] = a /\ working'[Len(working) + 2] = b
        /\ \A i \in 1 .. Len(working) : working'[i] = working[i]
    BY <2>1, <2>3
  <2>5. ASSUME NEW i \in 1 .. Len(working), working[i].role = "assistant"
        PROVE  \/ working[i].round < round
               \/ /\ working[i].round = round
                  /\ \A k \in 1 .. Len(captured') : captured'[k].slot # working[i].slot
    <3>1. \A k \in 1 .. Len(captured') : k + 1 \in 1 .. Len(captured) BY <1>1, <1>8
    <3> QED BY <1>8, <2>5, <3>1 DEF LoopInv, PlacesOK
  <2>6. \A k \in 1 .. Len(captured') : captured'[k].slot # captured[1].slot BY <1>2, <1>8
  <2>7. \A i \in 1 .. Len(working') : \/ i \in 1 .. Len(working) \/ i = Len(working) + 1
                                      \/ i = Len(working) + 2
    BY <2>3, <2>4
  <2> QED BY <2>2, <2>4, <2>5, <2>6, <2>7
<1>14. CASE Len(captured) = 1
  <2>1. /\ round' = round + 1 /\ loopAt' = "streaming" /\ decoder' = FreshDecoder
        /\ building' = NoCall /\ gathered' = <<>> /\ sawFinish' = FALSE
    BY <1>14 DEF ExecuteCall, NextRound
  <2>2. captured' = <<>> BY <1>8, <1>14
  <2>3. ~building'.named /\ building' \in LoopCalls /\ decoder' \in Decoders /\ ~decoder'.finished
        /\ \A s \in Slots : decoder'.bufs[s] = "new"
    BY <2>1, NoCallIs, FreshDecoderIs
  <2>4. round' \in 0 .. MaxRounds BY <1>3, <2>1
  <2>5. gathered' \in Seq(LoopCalls) BY <2>1
  <2>6. LoopTypes' BY <1>1, <1>5, <1>8, <1>9, <2>1, <2>3, <2>4, <2>5 DEF LoopInv, LoopTypes
  <2>7. FinalOK' /\ GatheredOK' /\ BuildingOK' /\ DecoderOK' /\ CapturedOK'
    BY <2>1, <2>2, <2>3 DEF FinalOK, GatheredOK, BuildingOK, DecoderOK, CapturedOK
  <2>8. EndedOK'
    <3>1. round' - 1 = round BY <1>3, <2>1
    <3> QED BY <1>1, <1>10, <1>11, <2>1, <3>1 DEF EndedOK
  <2>9. StartedOK'
    <3>1. ASSUME NEW i \in cards.started, i # Blank
          PROVE  i[1] = "given" /\ i[2] \in 0 .. round' /\ (~crossed => Accounted(i)')
      BY <1>3, <1>12, <2>1, <2>2, <3>1 DEF Accounted
    <3>2. ASSUME NEW s \in Slots PROVE Given(s)' \notin cards.started
      <4>1. Given(s)'[2] = round + 1 /\ Given(s)' # Blank BY <1>3, <2>1 DEF Given, Blank
      <4> QED BY <1>3, <1>12, <4>1
    <3> QED BY <1>1, <1>5, <3>1, <3>2 DEF StartedOK
  <2>10. FramesOK' BY <1>1, <2>1, <2>3 DEF LoopInv, FramesOK
  <2>11. PlacesOK'
    <3>1. \A i \in 1 .. Len(working') : working'[i].role = "assistant" => working'[i].round \in Nat
      BY <1>9 DEF CallRows, AnswerRows
    <3> QED BY <1>3, <1>13, <2>1, <3>1 DEF PlacesOK
  <2> QED BY <1>9, <2>6, <2>7, <2>8, <2>9, <2>10, <2>11 DEF LoopInv
<1>15. CASE Len(captured) # 1
  <2>1. UNCHANGED <<loopAt, round, decoder, building, gathered, sawFinish>>
    BY <1>15 DEF ExecuteCall
  <2>2. captured' # <<>> BY <1>1, <1>8, <1>15
  <2>3. LoopTypes' BY <1>1, <1>5, <1>8, <1>9, <2>1 DEF LoopInv, LoopTypes
  <2>4. FinalOK' BY <1>3, <2>1 DEF FinalOK, Final
  <2>5. GatheredOK' /\ BuildingOK' BY <1>4, <2>1 DEF GatheredOK, BuildingOK
  <2>6. DecoderOK' BY <1>3, <1>1, <1>4, <2>1 DEF DecoderOK
  <2>7. CapturedOK'
    <3>1. ASSUME NEW k \in 1 .. Len(captured')
          PROVE  /\ captured'[k].id[2] = round /\ captured'[k].id # Blank
                 /\ ~crossed => /\ captured'[k].id # id /\ ~IsEnded(captured'[k].id)
                                /\ captured'[k].args \in {NoArgs, ArgsOf(captured'[k].slot)}
      <4>1. captured'[k] = captured[k + 1] /\ k + 1 \in 2 .. Len(captured) /\ k + 1 \in 1 .. Len(captured)
        BY <1>1, <1>8
      <4> QED BY <1>2, <4>1 DEF LoopInv, CapturedOK
    <3>2. ASSUME NEW j \in 1 .. Len(captured'), NEW k \in 1 .. Len(captured'), j # k
          PROVE  /\ captured'[j].slot # captured'[k].slot
                 /\ ~crossed => captured'[j].id # captured'[k].id
      <4>1. j + 1 \in 1 .. Len(captured) /\ k + 1 \in 1 .. Len(captured) /\ j + 1 # k + 1
        BY <1>1, <1>8, <3>2
      <4> QED BY <1>8, <4>1 DEF LoopInv, CapturedOK
    <3> QED BY <1>1, <1>7, <2>1, <2>2, <3>1, <3>2 DEF CapturedOK, ArgsOf
  <2>8. EndedOK' BY <1>1, <1>10, <1>11, <2>1 DEF EndedOK
  <2>9. StartedOK'
    <3>1. ASSUME NEW i \in cards.started, i # Blank
          PROVE  i[1] = "given" /\ i[2] \in 0 .. round /\ (~crossed => Accounted(i)')
      BY <1>12, <3>1 DEF Accounted
    <3> QED BY <1>1, <1>5, <2>1, <3>1 DEF StartedOK
  <2>10. FramesOK' BY <1>1, <2>1 DEF LoopInv, FramesOK, Final
  <2>11. PlacesOK' BY <1>1, <1>13, <2>1 DEF PlacesOK
  <2> QED BY <1>9, <2>3, <2>4, <2>5, <2>6, <2>7, <2>8, <2>9, <2>10, <2>11 DEF LoopInv
<1> QED BY <1>14, <1>15

LEMMA LoopInvHolds == LoopSpec => []LoopInv
<1>1. LoopInv /\ [LoopNext]_loopVars => LoopInv'
  <2> SUFFICES ASSUME LoopInv, [LoopNext]_loopVars PROVE LoopInv' OBVIOUS
  <2>1. ASSUME NEW s \in Slots, ToolName(s) \/ ToolArguments(s) \/ CutPayload(s) PROVE LoopInv'
    BY <2>1, ToolNameKeepsLoop, ArgumentsKeepLoop, CutKeepsLoop
  <2>2. CASE Reasoning \/ Content BY <2>2, TextKeepsLoop
  <2>3. CASE FinishToolCalls BY <2>3, FinishKeepsLoop
  <2>4. CASE ResponseEnds \/ UpstreamError \/ InnerRaises \/ TurnCancelled BY <2>4, StopKeepsLoop
  <2>5. CASE ExecuteCall BY <2>5, ExecuteKeepsLoop
  <2>6. CASE UNCHANGED loopVars
    <3>1. LoopTypes' BY <2>6 DEF loopVars, LoopInv, LoopTypes
    <3>2. FinalOK' /\ GatheredOK' /\ BuildingOK' /\ DecoderOK'
      BY <2>6 DEF loopVars, LoopInv, FinalOK, GatheredOK, BuildingOK, DecoderOK, Final, OwnCall, Given,
                  Fresh, ArgsOf
    <3>3. CapturedOK' /\ EndedOK' /\ WorkOK'
      BY <2>6 DEF loopVars, LoopInv, CapturedOK, EndedOK, WorkOK, RowOK, OwnArguments, IsEnded, ArgsOf
    <3>4. PlacesOK' /\ StartedOK' /\ FramesOK'
      BY <2>6 DEF loopVars, LoopInv, PlacesOK, StartedOK, FramesOK, Accounted, IsEnded, Given, Final
    <3> QED BY <3>1, <3>2, <3>3, <3>4 DEF LoopInv
  <2> QED BY <2>1, <2>2, <2>3, <2>4, <2>5, <2>6 DEF LoopNext, LoopStep
<1> QED BY <1>1, LoopInit_Inv, PTL DEF LoopSpec

(* However a response interleaves its calls, whatever pieces of it are lost *)
(* and whichever calls come without an id, the history that the next round  *)
(* is asked with has each call once and answers it at once. As long as no   *)
(* arguments arrived while another call was being built, each also has an   *)
(* id of its own and the model's own arguments, or none                     *)
(* (AgenticMcpProvider.stream, handle_delta).                               *)
THEOREM TranscriptsStandUp == LoopSpec => []TranscriptFaithful
<1>1. LoopInv => TranscriptFaithful BY DEF LoopInv, WorkOK, RowOK, TranscriptFaithful
<1> QED BY <1>1, LoopInvHolds, PTL

(* As long as no arguments arrived while another call was being built, every*)
(* card the client was shown is closed once by the time its round is over;  *)
(* and, however calls are interleaved, a turn that ends by itself says so   *)
(* once, with no block left open (AgenticMcpProvider.stream,                *)
(* StreamingClient.stream).                                                 *)
THEOREM CardsAreClosed == LoopSpec => []ShownIsSettled
<1>1. ASSUME LoopInv PROVE ShownIsSettled
  <2>1. ASSUME loopAt = "streaming", decoder = FreshDecoder, ~crossed, NEW id \in cards.started \ {Blank}
        PROVE  Cardinality({i \in 1 .. Len(cards.ended) : cards.ended[i] = id}) = 1
    <3>1. ~decoder.finished /\ \A s \in Slots : decoder.bufs[s] = "new" BY <2>1, FreshDecoderIs
    <3>2. captured = <<>> BY <1>1, <3>1 DEF LoopInv, DecoderOK
    <3>3. ~building.named BY <1>1, <3>1 DEF LoopInv, BuildingOK, OwnCall
    <3>4. \A k \in 1 .. Len(gathered) : FALSE
      BY <1>1, <3>1 DEF LoopInv, GatheredOK, OwnCall
    <3>5. Accounted(id) BY <1>1, <2>1 DEF LoopInv, StartedOK
    <3>6. PICK n \in 1 .. Len(cards.ended) : cards.ended[n] = id
      BY <3>2, <3>3, <3>4, <3>5 DEF Accounted, IsEnded
    <3>7. {i \in 1 .. Len(cards.ended) : cards.ended[i] = id} = {n}
      BY <1>1, <2>1, <3>6 DEF LoopInv, EndedOK
    <3> QED BY <3>7, FS_Singleton
  <2>2. CardsClosed BY <2>1 DEF CardsClosed
  <2>3. OneTerminalFrame
    <3>1. frames = <<>> => Len(frames) = 0 OBVIOUS
    <3> QED BY <1>1, <3>1 DEF LoopInv, FramesOK, OneTerminalFrame
  <2> QED BY <2>2, <2>3 DEF ShownIsSettled
<1> QED BY <1>1, LoopInvHolds, PTL

-----------------------------------------------------------------------------
(* The pump of one turn. Inductive: no terminal frame is sent and nothing   *)
(* is decided while a stream is read or asked about; one is sent when the   *)
(* end is recorded, by a chat whose loop was cut when it has been; only the *)
(* end that was decided is kept; and a chat that has shown nothing has run  *)
(* no tool, and runs none once its tools are taken away.                    *)

CardStates == {"pending", "success", "failure"}
Kinds == {"none", "answer", "answer_capped", "graceful", "salvaged", "empty"}
Endings == [by : {"none", "cap", "partial", "exhausted", "end"}, kind : Kinds]
PumpRow == [text : SUBSET Parts, parked : BOOLEAN, cards : Seq(CardStates), rounds : Nat,
            last : Calls \cup {NoCallYet}, identical : Nat, warned : [Calls -> Nat],
            announced : BOOLEAN, emitted : BOOLEAN, degraded : BOOLEAN]
Words == {"warning", "end", "complete", "error"}

PumpTypes ==
  /\ pumpAt \in {"streaming", "probing", "recording", "closed"}
  /\ open \in Calls \cup {NoCallYet}
  /\ pump \in PumpRow /\ sent \in Seq(Words)
  /\ ending \in Endings /\ kept \in Endings

ToldOnce == \E i \in Terminal : Terminal = {i} /\ (kept # Undecided => sent[i] # "error")
ToldGood == \E i \in Terminal : Terminal = {i} /\ sent[i] # "error"
FrameOK ==
  /\ pumpAt \in {"streaming", "probing"} => Terminal = {} /\ ending = Undecided
  /\ pumpAt = "recording" => IF InChat /\ ending.by = "cap" THEN Terminal = {} ELSE ToldGood
  /\ pumpAt = "closed" => ToldOnce
  /\ pumpAt # "closed" => kept = Undecided
  /\ kept \in {Undecided, ending}
ContentOK == InChat =>
  /\ pumpAt \in {"streaming", "probing"} /\ ~pump.emitted => pump.cards = <<>>
  /\ pump.degraded => open = NoCallYet /\ \A i \in 1 .. Len(pump.cards) : pump.cards[i] = "failure"
  /\ ending.kind = "salvaged" => pump.cards = <<>>
  /\ ending.by = "end" /\ ending.kind = "answer" => "answer" \in pump.text
PumpInv == PumpTypes /\ FrameOK /\ ContentOK

LEMMA UndecidedIs == Undecided \in Endings /\ Undecided.by = "none" /\ Undecided.kind = "none"
BY DEF Undecided, Endings, Kinds

LEMMA PumpInit_Inv == PumpInit => PumpInv
<1> SUFFICES ASSUME PumpInit PROVE PumpInv OBVIOUS
<1>1. pump \in PumpRow
  <2>1. <<>> \in Seq(CardStates) OBVIOUS
  <2>2. [c \in Calls |-> 0] \in [Calls -> Nat] OBVIOUS
  <2>3. pump = [text |-> {}, parked |-> FALSE, cards |-> <<>>, rounds |-> 0,
                last |-> NoCallYet, identical |-> 0, warned |-> [c \in Calls |-> 0],
                announced |-> FALSE, emitted |-> FALSE, degraded |-> FALSE]
    BY DEF PumpInit
  <2> QED BY <2>1, <2>2, <2>3 DEF PumpRow
<1>2. sent = <<>> /\ sent \in Seq(Words) /\ Terminal = {} BY DEF PumpInit, Terminal
<1>3. PumpTypes BY <1>1, <1>2, UndecidedIs DEF PumpInit, PumpTypes
<1>4. FrameOK BY <1>2 DEF PumpInit, FrameOK
<1>5. ContentOK BY UndecidedIs DEF PumpInit, ContentOK
<1> QED BY <1>3, <1>4, <1>5 DEF PumpInv

(* What a frame does to the terminal ones.                                  *)
LEMMA WordsSent ==
  ASSUME sent \in Seq(Words)
  PROVE  /\ sent' = sent => Terminal' = Terminal
         /\ sent' = Append(sent, "warning") => sent' \in Seq(Words) /\ Terminal' = Terminal
         /\ \A f \in Words \ {"warning"} :
              Terminal = {} /\ (sent' = Append(sent, f) \/ sent' = sent \o <<"warning", f>>)
                => sent' \in Seq(Words) /\ \E i \in Terminal' : Terminal' = {i} /\ sent'[i] = f
<1> DEFINE n == Len(sent)
<1>1. n \in Nat /\ DOMAIN sent = 1 .. n OBVIOUS
<1>2. sent' = sent => Terminal' = Terminal BY DEF Terminal
<1>3. ASSUME sent' = Append(sent, "warning") PROVE sent' \in Seq(Words) /\ Terminal' = Terminal
  <2>1. /\ sent' \in Seq(Words) /\ Len(sent') = n + 1 /\ sent'[n + 1] = "warning"
        /\ \A i \in 1 .. n : sent'[i] = sent[i]
    BY <1>3 DEF Words
  <2>2. DOMAIN sent' = 1 .. n + 1 BY <2>1
  <2>3. \A i : i \in 1 .. n + 1 <=> i \in 1 .. n \/ i = n + 1 BY <1>1
  <2>4. ~(n + 1 \in 1 .. n) BY <1>1
  <2> HIDE DEF n
  <2> QED BY <1>1, <2>1, <2>2, <2>3, <2>4 DEF Terminal
<1>4. ASSUME NEW f \in Words, f # "warning", Terminal = {},
             sent' = Append(sent, f) \/ sent' = sent \o <<"warning", f>>
      PROVE  sent' \in Seq(Words) /\ \E i \in Terminal' : Terminal' = {i} /\ sent'[i] = f
  <2>1. \A i \in 1 .. n : sent[i] = "warning" BY <1>1, <1>4 DEF Terminal
  <2>2. CASE sent' = Append(sent, f)
    <3>1. /\ sent' \in Seq(Words) /\ Len(sent') = n + 1 /\ sent'[n + 1] = f
          /\ \A i \in 1 .. n : sent'[i] = sent[i]
      BY <2>2
    <3>2. DOMAIN sent' = 1 .. n + 1 BY <3>1
    <3>3. \A i : i \in 1 .. n + 1 <=> i \in 1 .. n \/ i = n + 1 BY <1>1
    <3> HIDE DEF n
    <3>4. Terminal' = {n + 1} BY <1>1, <1>4, <2>1, <3>1, <3>2, <3>3 DEF Terminal
    <3> QED BY <3>1, <3>4
  <2>3. CASE sent' = sent \o <<"warning", f>>
    <3>1. <<"warning", f>> \in Seq(Words) /\ Len(<<"warning", f>>) = 2
      BY DEF Words
    <3>2. /\ sent' \in Seq(Words) /\ Len(sent') = n + 2
          /\ sent'[n + 1] = "warning" /\ sent'[n + 2] = f
          /\ \A i \in 1 .. n : sent'[i] = sent[i]
      BY <2>3, <3>1
    <3>3. DOMAIN sent' = 1 .. n + 2 BY <3>2
    <3>4. \A i : i \in 1 .. n + 2 <=> i \in 1 .. n \/ i = n + 1 \/ i = n + 2 BY <1>1
    <3> HIDE DEF n
    <3>5. Terminal' = {n + 2} BY <1>1, <1>4, <2>1, <3>2, <3>3, <3>4 DEF Terminal
    <3> QED BY <3>2, <3>5
  <2> QED BY <1>4, <2>2, <2>3
<1> QED BY <1>2, <1>3, <1>4

(* The stream is read on and shows something.                               *)
LEMMA ReadingKeeps ==
  ASSUME PumpInv, pumpAt = "streaming", UNCHANGED <<asked, pumpAt, sent, ending, kept>>,
         open' \in Calls \cup {NoCallYet}, pump' \in PumpRow, pump'.degraded = pump.degraded,
         InChat /\ pump.degraded => open' = NoCallYet /\ pump'.cards = pump.cards,
         pump'.emitted
  PROVE  PumpInv'
<1>1. PumpTypes' BY DEF PumpInv, PumpTypes
<1>2. Terminal' = Terminal BY WordsSent DEF PumpInv, PumpTypes
<1>3. ending = Undecided /\ kept = Undecided /\ Terminal = {} BY DEF PumpInv, FrameOK
<1>4. FrameOK' BY <1>2, <1>3 DEF FrameOK
<1>5. ContentOK' BY <1>3, UndecidedIs DEF PumpInv, ContentOK, InChat
<1> QED BY <1>1, <1>4, <1>5 DEF PumpInv

LEMMA DeltaKeepsPump ==
  ASSUME PumpInv, ReasoningDelta \/ (\E p \in Parts : TextDelta(p)) PROVE PumpInv'
<1>1. /\ UNCHANGED <<asked, pumpAt, sent, ending, kept, open>> /\ pumpAt = "streaming"
      /\ open = NoCallYet
  BY DEF ReasoningDelta, TextDelta, Reading
<1>2. pump \in PumpRow BY DEF PumpInv, PumpTypes
<1>3. pump' \in PumpRow /\ pump'.degraded = pump.degraded /\ pump'.cards = pump.cards /\ pump'.emitted
  <2>1. CASE ReasoningDelta BY <1>2, <2>1 DEF ReasoningDelta, PumpRow
  <2>2. ASSUME NEW p \in Parts, TextDelta(p)
        PROVE  pump' \in PumpRow /\ pump'.degraded = pump.degraded /\ pump'.cards = pump.cards
               /\ pump'.emitted
    <3>1. pump.text \cup {p} \in SUBSET Parts BY <1>2 DEF PumpRow
    <3> QED BY <1>2, <2>2, <3>1 DEF TextDelta, PumpRow
  <2> QED BY <2>1, <2>2
<1> QED BY <1>1, <1>3, ReadingKeeps

LEMMA CallBeginsKeeps == ASSUME PumpInv, NEW c \in Calls, CallBegins(c) PROVE PumpInv'
<1>1. /\ UNCHANGED <<asked, pumpAt, sent, ending, kept>> /\ pumpAt = "streaming"
      /\ open' \in Calls \cup {NoCallYet} /\ ~pump.degraded
  BY DEF CallBegins, Reading, Offered
<1>2. pump \in PumpRow BY DEF PumpInv, PumpTypes
<1>3. Append(pump.cards, "pending") \in Seq(CardStates) BY <1>2 DEF PumpRow, CardStates
<1>4. pump' \in PumpRow /\ pump'.degraded = pump.degraded /\ pump'.emitted
  BY <1>2, <1>3 DEF CallBegins, PumpRow
<1> QED BY <1>1, <1>4, ReadingKeeps

LEMMA KindsAre ==
  ASSUME NEW txt \in SUBSET Parts, NEW parked \in BOOLEAN, NEW tooled \in BOOLEAN, NEW wasCut \in BOOLEAN
  PROVE  /\ TerminalKind(txt, parked, tooled, wasCut) \in Kinds \ {"none"}
         /\ TerminalKind(txt, parked, tooled, wasCut) = "salvaged" => ~tooled /\ ~wasCut
         /\ TerminalKind(txt, parked, tooled, wasCut) = "answer" => HasRealAnswer(txt)
<1>1. CASE HasRealAnswer(txt) BY <1>1 DEF TerminalKind, Kinds
<1>2. CASE ~HasRealAnswer(txt) /\ (tooled \/ wasCut) BY <1>2 DEF TerminalKind, Kinds
<1>3. CASE ~HasRealAnswer(txt) /\ ~(tooled \/ wasCut) BY <1>3 DEF TerminalKind, Kinds
<1> QED BY <1>1, <1>2, <1>3

LEMMA CutLoopKeeps ==
  ASSUME PumpInv, pumpAt = "streaming", NEW p \in PumpRow, CutLoop(p), UNCHANGED <<asked, kept>>,
         open' \in Calls \cup {NoCallYet},
         InChat => ~p.degraded
  PROVE  PumpInv'
<1>1. sent \in Seq(Words) /\ Terminal = {} /\ kept = Undecided BY DEF PumpInv, PumpTypes, FrameOK
<1>2. /\ pump' = p /\ pumpAt' = "recording"
      /\ ending' = [by |-> "cap", kind |-> TerminalKind(p.text, p.parked, TRUE, TRUE)]
      /\ sent' = IF InChat THEN sent ELSE sent \o <<"warning", "complete">>
  BY DEF CutLoop, Decide
<1>3. ending' \in Endings /\ ending'.by = "cap" /\ ending'.kind # "salvaged"
  BY <1>2, KindsAre DEF Endings, PumpRow
<1>4. /\ sent' \in Seq(Words)
      /\ InChat => Terminal' = {}
      /\ ~InChat => \E i \in Terminal' : Terminal' = {i} /\ sent'[i] = "complete"
  <2>1. "complete" \in Words \ {"warning"} BY DEF Words
  <2> QED BY <1>1, <1>2, <2>1, WordsSent
<1>5. PumpTypes' BY <1>1, <1>2, <1>3, <1>4, UndecidedIs DEF PumpTypes
<1>6. FrameOK' BY <1>1, <1>2, <1>3, <1>4 DEF FrameOK, ToldGood, InChat
<1>7. ContentOK' BY <1>2, <1>3 DEF ContentOK, InChat
<1> QED BY <1>5, <1>6, <1>7 DEF PumpInv

LEMMA TakeEndKeeps ==
  ASSUME PumpInv, pumpAt = "streaming", NEW p \in PumpRow, TakeEnd(p), UNCHANGED <<asked, kept>>,
         open' \in Calls \cup {NoCallYet}, p.emitted, p.degraded = pump.degraded,
         InChat => ~p.degraded
  PROVE  PumpInv'
<1>1. CASE CutLoop(p) BY <1>1, CutLoopKeeps
<1>2. CASE pump' = p /\ UNCHANGED <<pumpAt, ending, sent>> BY <1>2, ReadingKeeps
<1> QED BY <1>1, <1>2 DEF TakeEnd

LEMMA FoldedIs ==
  ASSUME PumpInv, NEW c \in Calls, NEW ok \in BOOLEAN
  PROVE  Folded(c, ok) \in PumpRow /\ Folded(c, ok).emitted /\ Folded(c, ok).degraded = pump.degraded
<1>1. pump \in PumpRow BY DEF PumpInv, PumpTypes
<1>2. ClosedCards(ok) \in Seq(CardStates)
  <2>1. PICK q : q = IF pump.cards = <<>> THEN <<"pending">> ELSE pump.cards OBVIOUS
  <2>2. q \in Seq(CardStates) /\ q # <<>>
    <3>1. <<"pending">> \in Seq(CardStates) /\ <<"pending">> # <<>> BY DEF CardStates
    <3> QED BY <1>1, <2>1, <3>1 DEF PumpRow
  <2>3. PICK w \in CardStates : w = IF ok THEN "success" ELSE "failure" BY DEF CardStates
  <2>4. ClosedCards(ok) = [q EXCEPT ![Len(q)] = w] BY <2>1, <2>3 DEF ClosedCards
  <2> QED BY <2>2, <2>4
<1>3. PICK l \in Calls \cup {NoCallYet} : l = IF ok /\ InChat THEN c ELSE pump.last
  BY <1>1 DEF PumpRow
<1>4. PICK m \in Nat : m = IF ~(ok /\ InChat) THEN pump.identical
                           ELSE IF c = pump.last THEN pump.identical + 1 ELSE 0
  BY <1>1 DEF PumpRow
<1>5. Folded(c, ok) = [pump EXCEPT !.cards = ClosedCards(ok), !.emitted = TRUE, !.rounds = @ + 1,
                         !.last = l, !.identical = m]
  BY <1>3, <1>4 DEF Folded
<1>6. pump.rounds + 1 \in Nat BY <1>1 DEF PumpRow
<1>7. Folded(c, ok) = [text |-> pump.text, parked |-> pump.parked, cards |-> ClosedCards(ok),
        rounds |-> pump.rounds + 1, last |-> l, identical |-> m, warned |-> pump.warned,
        announced |-> pump.announced, emitted |-> TRUE, degraded |-> pump.degraded]
  BY <1>1, <1>5 DEF PumpRow
<1> QED BY <1>1, <1>2, <1>6, <1>7 DEF PumpRow

LEMMA WarnedIs ==
  ASSUME PumpInv, NEW c \in Calls
  PROVE  /\ Warned(c) \in PumpRow /\ Warned(c).cards = pump.cards
         /\ Warned(c).emitted = pump.emitted /\ Warned(c).degraded = pump.degraded
<1>1. pump \in PumpRow BY DEF PumpInv, PumpTypes
<1>2. pump.warned[c] + 1 \in Nat BY <1>1 DEF PumpRow
<1>3. [pump.warned EXCEPT ![c] = @ + 1] \in [Calls -> Nat] BY <1>1, <1>2 DEF PumpRow
<1>4. [pump EXCEPT !.warned[c] = @ + 1] = [pump EXCEPT !.warned = [pump.warned EXCEPT ![c] = @ + 1]]
  BY <1>1 DEF PumpRow
<1> QED BY <1>1, <1>3, <1>4 DEF Warned, PumpRow

LEMMA CallEndKeepsPump ==
  ASSUME PumpInv,
         \/ \E ok \in BOOLEAN : CallEnds(ok)
         \/ \E c \in Calls, ok \in BOOLEAN : UnannouncedEnd(c, ok)
  PROVE  PumpInv'
<1>1. pumpAt = "streaming" /\ UNCHANGED <<asked, kept>> BY DEF CallEnds, UnannouncedEnd, Reading
<1>2. ASSUME NEW ok \in BOOLEAN, CallEnds(ok) PROVE PumpInv'
  <2>1. open \in Calls /\ open' = NoCallYet BY <1>2 DEF CallEnds, PumpInv, PumpTypes
  <2>2. InChat => ~pump.degraded BY <1>2 DEF CallEnds, PumpInv, ContentOK
  <2>3. CASE CutLoop(Warned(open))
    BY <1>1, <2>1, <2>2, <2>3, WarnedIs, CutLoopKeeps
  <2>4. CASE TakeEnd([Folded(open, ok) EXCEPT !.warned = Warned(open).warned])
    <3>1. PICK p : p = [Folded(open, ok) EXCEPT !.warned = Warned(open).warned] OBVIOUS
    <3>2. PICK q : q = Folded(open, ok) OBVIOUS
    <3>3. PICK w : w = Warned(open).warned OBVIOUS
    <3>4. q \in PumpRow /\ q.emitted /\ q.degraded = pump.degraded BY <2>1, <3>2, FoldedIs
    <3>5. w \in [Calls -> Nat] BY <2>1, <3>3, WarnedIs DEF PumpRow
    <3>6. p = [q EXCEPT !.warned = w] BY <3>1, <3>2, <3>3
    <3>7. p \in PumpRow /\ p.emitted /\ p.degraded = pump.degraded
      BY <3>4, <3>5, <3>6 DEF PumpRow
    <3> QED BY <1>1, <2>1, <2>2, <2>4, <3>1, <3>7, TakeEndKeeps
  <2> QED BY <1>2, <2>3, <2>4 DEF CallEnds
<1>3. ASSUME NEW c \in Calls, NEW ok \in BOOLEAN, UnannouncedEnd(c, ok) PROVE PumpInv'
  <2>1. open' \in Calls \cup {NoCallYet} /\ ~pump.degraded /\ TakeEnd(Folded(c, ok))
    BY <1>3 DEF UnannouncedEnd, Offered, PumpInv, PumpTypes
  <2> QED BY <1>1, <2>1, FoldedIs, TakeEndKeeps
<1> QED BY <1>2, <1>3

LEMMA DegradeKeeps ==
  ASSUME PumpInv, pumpAt \in {"streaming", "probing"}, InChat => ~pump.emitted, Degrade
  PROVE  PumpInv'
<1>1. sent \in Seq(Words) /\ Terminal = {} /\ ending = Undecided /\ kept = Undecided
      /\ pump \in PumpRow
  BY DEF PumpInv, PumpTypes, FrameOK
<1>2. /\ sent' = Append(sent, "warning") /\ pumpAt' = "streaming" /\ open' = NoCallYet
      /\ UNCHANGED <<asked, ending, kept>>
  BY DEF Degrade, Tell
<1>3. sent' \in Seq(Words) /\ Terminal' = {} BY <1>1, <1>2, WordsSent
<1>4. pump' \in PumpRow /\ pump'.cards = pump.cards /\ (InChat => pump'.emitted = pump.emitted)
  BY <1>1 DEF Degrade, PumpRow
<1>5. PumpTypes' BY <1>1, <1>2, <1>3, <1>4, UndecidedIs DEF PumpTypes
<1>6. FrameOK' BY <1>1, <1>2, <1>3 DEF FrameOK
<1>7. InChat => pump.cards = <<>> BY DEF PumpInv, ContentOK
<1>8. ContentOK' BY <1>1, <1>2, <1>4, <1>7, UndecidedIs DEF ContentOK, InChat
<1> QED BY <1>5, <1>6, <1>8 DEF PumpInv

LEMMA EndWithKeeps ==
  ASSUME PumpInv, pumpAt \in {"streaming", "probing"}, EndWith("error") PROVE PumpInv'
<1>1. sent \in Seq(Words) /\ Terminal = {} /\ ending = Undecided /\ kept = Undecided
  BY DEF PumpInv, PumpTypes, FrameOK
<1>2. /\ sent' = Append(sent, "error") /\ pumpAt' = "closed"
      /\ UNCHANGED <<asked, open, pump, ending, kept>>
  BY DEF EndWith, Tell
<1>3. sent' \in Seq(Words) /\ \E i \in Terminal' : Terminal' = {i}
  <2>1. "error" \in Words \ {"warning"} BY DEF Words
  <2> QED BY <1>1, <1>2, <2>1, WordsSent
<1>4. PumpTypes' BY <1>2, <1>3 DEF PumpInv, PumpTypes
<1>5. FrameOK' BY <1>1, <1>2, <1>3 DEF FrameOK, ToldOnce
<1>6. ContentOK' BY <1>2 DEF PumpInv, ContentOK, InChat
<1> QED BY <1>4, <1>5, <1>6 DEF PumpInv

LEMMA CompleteKeeps ==
  ASSUME PumpInv, pumpAt \in {"streaming", "probing"}, ~InChat,
         NEW by \in {"partial", "exhausted", "end"}, NEW kind \in Kinds, Complete(by, kind)
  PROVE  PumpInv'
<1>1. sent \in Seq(Words) /\ Terminal = {} /\ ending = Undecided /\ kept = Undecided
  BY DEF PumpInv, PumpTypes, FrameOK
<1>2. /\ sent' = Append(sent, "complete") /\ pumpAt' = "recording"
      /\ ending' = [by |-> by, kind |-> kind] /\ UNCHANGED <<asked, open, pump, kept>>
  BY DEF Complete, Tell, Decide
<1>3. ending' \in Endings BY <1>2 DEF Endings
<1>4. sent' \in Seq(Words) /\ \E i \in Terminal' : Terminal' = {i} /\ sent'[i] = "complete"
  <2>1. "complete" \in Words \ {"warning"} BY DEF Words
  <2> QED BY <1>1, <1>2, <2>1, WordsSent
<1>5. PumpTypes' BY <1>2, <1>3, <1>4 DEF PumpInv, PumpTypes
<1>6. FrameOK' BY <1>1, <1>2, <1>4 DEF FrameOK, ToldGood, InChat
<1>7. ContentOK' BY <1>2 DEF ContentOK, InChat
<1> QED BY <1>5, <1>6, <1>7 DEF PumpInv

LEMMA ExhaustedKeeps ==
  ASSUME PumpInv, pumpAt \in {"streaming", "probing"}, ~InChat, CompleteExhausted PROVE PumpInv'
<1>1. TerminalKind(pump.text, pump.parked, pump.announced, FALSE) \in Kinds
  BY KindsAre DEF PumpInv, PumpTypes, PumpRow
<1> QED BY <1>1, CompleteKeeps DEF CompleteExhausted

LEMMA AskWhyKeeps == ASSUME PumpInv, pumpAt = "streaming", AskWhy PROVE PumpInv'
<1>1. /\ pumpAt' = "probing" /\ UNCHANGED <<asked, open, pump, sent, ending, kept>>
      /\ Terminal = {} /\ ending = Undecided /\ kept = Undecided
  BY DEF AskWhy, PumpInv, FrameOK
<1>2. Terminal' = {} BY <1>1 DEF Terminal
<1>3. PumpTypes' BY <1>1 DEF PumpInv, PumpTypes
<1>4. FrameOK' BY <1>1, <1>2 DEF FrameOK
<1>5. ContentOK' BY <1>1 DEF PumpInv, ContentOK, InChat
<1> QED BY <1>3, <1>4, <1>5 DEF PumpInv

LEMMA ErrorKeepsPump ==
  ASSUME PumpInv,
         \/ \E d \in {"grammar", "format", "other"} : ErrorInChat(d) \/ ErrorInSub(d)
         \/ \E d \in {"grammar", "other", "nothing"} : ProbeInChat(d) \/ ProbeInSub(d)
         \/ ExhaustedInChat \/ ExhaustedInSub \/ Stall
  PROVE  PumpInv'
<1>1. pumpAt \in {"streaming", "probing"}
  BY DEF ErrorInChat, ErrorInSub, ProbeInChat, ProbeInSub, ExhaustedInChat, ExhaustedInSub, Stall, Reading
<1>2. \/ Degrade /\ (InChat => ~pump.emitted)
      \/ EndWith("error")
      \/ ~InChat /\ Complete("partial", "answer")
      \/ ~InChat /\ CompleteExhausted
      \/ AskWhy /\ pumpAt = "streaming"
  BY DEF ErrorInChat, ErrorInSub, ProbeInChat, ProbeInSub, ExhaustedInChat, ExhaustedInSub, Stall,
         Reading, DegradeEligible
<1>3. "answer" \in Kinds BY DEF Kinds
<1> QED BY <1>1, <1>2, <1>3, DegradeKeeps, EndWithKeeps, CompleteKeeps, ExhaustedKeeps, AskWhyKeeps

LEMMA ChatEndKeeps == ASSUME PumpInv, ChatEndInChat \/ ChatEndInSub PROVE PumpInv'
<1>1. pumpAt = "streaming" /\ sent \in Seq(Words) /\ Terminal = {} /\ kept = Undecided
      /\ pump \in PumpRow
  BY DEF ChatEndInChat, ChatEndInSub, Reading, PumpInv, PumpTypes, FrameOK
<1>2. CASE ChatEndInSub
  <2>1. TerminalKind(pump.text, pump.parked, pump.announced, FALSE) \in Kinds
    BY <1>1, KindsAre DEF PumpRow
  <2> QED BY <1>1, <1>2, <2>1, EndWithKeeps, CompleteKeeps DEF ChatEndInSub
<1>3. CASE ChatEndInChat
  <2> DEFINE tooled == Recovered.cards # <<>> \/ pump.rounds > 0
             kind == TerminalKind(Recovered.text, pump.parked, tooled, FALSE)
  <2>1. /\ sent' = Append(sent, "end") /\ pump' = Recovered /\ pumpAt' = "recording" /\ InChat
        /\ ending' = [by |-> "end", kind |-> kind] /\ UNCHANGED <<asked, open, kept>>
    BY <1>3 DEF ChatEndInChat, Tell, Decide
  <2>2. /\ Recovered \in PumpRow /\ Recovered.emitted = pump.emitted
        /\ Recovered.degraded = pump.degraded /\ "leaked" \notin Recovered.text
        /\ \/ Recovered.cards = pump.cards
           \/ Recovered.cards = Append(pump.cards, "failure") /\ "leaked" \in pump.text
    <3>1. CASE "leaked" \in pump.text
      <4>1. Append(pump.cards, "failure") \in Seq(CardStates) BY <1>1 DEF PumpRow, CardStates
      <4>2. pump.text \ {"leaked"} \in SUBSET Parts BY <1>1 DEF PumpRow
      <4> QED BY <1>1, <3>1, <4>1, <4>2 DEF Recovered, PumpRow
    <3>2. CASE "leaked" \notin pump.text BY <1>1, <3>2 DEF Recovered
    <3> QED BY <3>1, <3>2
  <2>3. Recovered.text \in SUBSET Parts /\ pump.parked \in BOOLEAN /\ tooled \in BOOLEAN
    BY <1>1, <2>2 DEF PumpRow
  <2>4. /\ kind \in Kinds \ {"none"}
        /\ kind = "salvaged" => ~tooled
        /\ kind = "answer" => HasRealAnswer(Recovered.text)
    <3> HIDE DEF tooled
    <3> QED BY <2>3, KindsAre
  <2>5. kind = "answer" => "answer" \in Recovered.text
    BY <2>2, <2>3, <2>4 DEF HasRealAnswer, Parts
  <2>6. kind = "salvaged" => Recovered.cards = <<>> BY <2>4
  <2>7. sent' \in Seq(Words) /\ \E i \in Terminal' : Terminal' = {i} /\ sent'[i] = "end"
    <3>1. "end" \in Words \ {"warning"} BY DEF Words
    <3> QED BY <1>1, <2>1, <3>1, WordsSent
  <2> HIDE DEF kind, tooled
  <2>8. ending' \in Endings /\ ending'.by = "end" /\ ending'.kind = kind BY <2>1, <2>4 DEF Endings
  <2>9. PumpTypes' BY <2>1, <2>2, <2>7, <2>8 DEF PumpInv, PumpTypes
  <2>10. FrameOK' BY <1>1, <2>1, <2>7, <2>8 DEF FrameOK, ToldGood, InChat
  <2>11. ContentOK'
    <3>1. ASSUME pump.degraded, NEW i \in 1 .. Len(Recovered.cards)
          PROVE  open = NoCallYet /\ Recovered.cards[i] = "failure"
      <4>1. open = NoCallYet /\ \A j \in 1 .. Len(pump.cards) : pump.cards[j] = "failure"
        BY <2>1, <3>1 DEF PumpInv, ContentOK
      <4> QED BY <1>1, <2>2, <3>1, <4>1 DEF PumpRow
    <3>2. pump.degraded => open = NoCallYet BY <2>1 DEF PumpInv, ContentOK
    <3> QED BY <2>1, <2>2, <2>5, <2>6, <2>8, <3>1, <3>2 DEF ContentOK, InChat
  <2> QED BY <2>9, <2>10, <2>11 DEF PumpInv
<1> QED BY <1>2, <1>3

LEMMA RecordKeeps == ASSUME PumpInv, NEW ok \in BOOLEAN, Record(ok) PROVE PumpInv'
<1>1. /\ pumpAt = "recording" /\ pumpAt' = "closed" /\ kept' \in {ending, Undecided}
      /\ sent' = IF InChat /\ ending.by = "cap" THEN sent \o <<"warning", "end">> ELSE sent
      /\ UNCHANGED <<asked, open, pump, ending>> /\ sent \in Seq(Words)
  BY DEF Record, PumpInv, FrameOK, PumpTypes
<1>2. sent' \in Seq(Words) /\ \E i \in Terminal' : Terminal' = {i} /\ sent'[i] # "error"
  <2>1. CASE InChat /\ ending.by = "cap"
    <3>1. Terminal = {} /\ sent' = sent \o <<"warning", "end">>
      BY <1>1, <2>1 DEF PumpInv, FrameOK
    <3>2. "end" \in Words \ {"warning"} BY DEF Words
    <3> QED BY <1>1, <3>1, <3>2, WordsSent
  <2>2. CASE ~(InChat /\ ending.by = "cap")
    <3>1. sent' = sent /\ Terminal' = Terminal /\ ToldGood
      BY <1>1, <2>2, WordsSent DEF PumpInv, FrameOK
    <3> QED BY <1>1, <3>1 DEF ToldGood
  <2> QED BY <2>1, <2>2
<1>3. PumpTypes' BY <1>1, <1>2, UndecidedIs DEF PumpInv, PumpTypes
<1>4. FrameOK' BY <1>1, <1>2 DEF FrameOK, ToldOnce
<1>5. ContentOK' BY <1>1 DEF PumpInv, ContentOK, InChat
<1> QED BY <1>3, <1>4, <1>5 DEF PumpInv

LEMMA PumpInvHolds == PumpSpec => []PumpInv
<1>1. PumpInv /\ [PumpNext]_pumpVars => PumpInv'
  <2> SUFFICES ASSUME PumpInv, [PumpNext]_pumpVars PROVE PumpInv' OBVIOUS
  <2>1. CASE ReasoningDelta \/ \E p \in Parts : TextDelta(p) BY <2>1, DeltaKeepsPump
  <2>2. CASE \E c \in Calls : CallBegins(c) BY <2>2, CallBeginsKeeps
  <2>3. CASE \/ \E ok \in BOOLEAN : CallEnds(ok)
             \/ \E c \in Calls : \E ok \in BOOLEAN : UnannouncedEnd(c, ok)
    BY <2>3, CallEndKeepsPump
  <2>4. CASE \E ok \in BOOLEAN : Record(ok) BY <2>4, RecordKeeps
  <2>5. CASE \/ \E d \in {"grammar", "format", "other"} : ErrorInChat(d) \/ ErrorInSub(d)
             \/ \E d \in {"grammar", "other", "nothing"} : ProbeInChat(d) \/ ProbeInSub(d)
             \/ ExhaustedInChat \/ ExhaustedInSub \/ Stall
    BY <2>5, ErrorKeepsPump
  <2>6. CASE ChatEndInChat \/ ChatEndInSub BY <2>6, ChatEndKeeps
  <2>7. CASE UNCHANGED pumpVars
    <3>1. UNCHANGED <<asked, pumpAt, open, pump, sent, ending, kept>> BY <2>7 DEF pumpVars
    <3>2. Terminal' = Terminal BY <3>1 DEF Terminal
    <3>3. PumpTypes' BY <3>1 DEF PumpInv, PumpTypes
    <3>4. FrameOK' BY <3>1, <3>2 DEF PumpInv, FrameOK, ToldGood, ToldOnce, InChat
    <3>5. ContentOK' BY <3>1 DEF PumpInv, ContentOK, InChat
    <3> QED BY <3>3, <3>4, <3>5 DEF PumpInv
  <2> QED BY <2>1, <2>2, <2>3, <2>4, <2>5, <2>6, <2>7 DEF PumpNext
<1> QED BY <1>1, PumpInit_Inv, PTL DEF PumpSpec

(* However the model, its tools and the connection behave, a turn tells its *)
(* client once how it ended, keeps nothing that it called an error, and     *)
(* passes neither reasoning about tools nor leaked markup off as an answer  *)
(* (_run_persist_and_yield, _sub_session_core, resolve_terminal_content).   *)
THEOREM TurnsEndTruthfully == PumpSpec => []EndIsTruthful
<1>1. ASSUME PumpInv PROVE EndIsTruthful
  <2>1. \A i, j \in Terminal : i = j BY <1>1 DEF PumpInv, PumpTypes, FrameOK, ToldGood, ToldOnce
  <2>2. pumpAt = "closed" => Terminal # {} BY <1>1 DEF PumpInv, FrameOK, ToldOnce
  <2>3. kept # Undecided => pumpAt = "closed" /\ kept = ending
    BY <1>1 DEF PumpInv, FrameOK
  <2>4. kept # Undecided => \A i \in Terminal : sent[i] # "error"
    BY <1>1, <2>3 DEF PumpInv, FrameOK, ToldOnce
  <2>5. DOMAIN pump.cards = 1 .. Len(pump.cards)
    BY <1>1 DEF PumpInv, PumpTypes, PumpRow
  <2>6. InChat /\ kept.kind = "salvaged" => pump.cards = <<>>
    BY <1>1, <2>3, UndecidedIs DEF PumpInv, ContentOK
  <2>7. InChat /\ kept.by = "end" /\ kept.kind = "answer" => "answer" \in pump.text
    BY <1>1, <2>3, UndecidedIs DEF PumpInv, ContentOK
  <2> QED BY <1>1, <2>1, <2>2, <2>4, <2>5, <2>6, <2>7 DEF EndIsTruthful, PumpInv, ContentOK
<1> QED BY <1>1, PumpInvHolds, PTL

-----------------------------------------------------------------------------
(* The cut of a tool loop. Inductive: while a stream is read, the counters  *)
(* of the client and of the loop agree with the calls that have ended, and  *)
(* those are not a loop yet.                                                *)
Ends == [call : Calls, ok : BOOLEAN]

CutTypes ==
  /\ ended \in [all : Seq(Ends), seen : Seq(Ends)]
  /\ detector.recent \in Seq(Ends) /\ detector.failures \in [Tools -> Nat]

WindowOK ==
  LET n == Len(ended.seen)
      m == Len(detector.recent)
  IN /\ m = IF n < Lookback THEN n ELSE Lookback
     /\ \A i \in 1 .. m : detector.recent[i] = ended.seen[n - m + i]
FailuresOK == \A t \in Tools : detector.failures[t] = Cardinality(FailingRun(ended.seen, t))
ChatCountsOK ==
  /\ \A c \in Calls : pump.warned[c] = Cardinality(Repetitions(ended.seen, c))
  /\ \A c \in Calls : Cardinality(SameRun(ended.all, c)) =
                        IF c = pump.last THEN pump.identical + 1 ELSE 0
  /\ ~pump.emitted => ended = NoneEnded
CountersOK ==
  /\ pump.rounds = Len(ended.all) /\ WindowOK /\ FailuresOK
  /\ IF InChat THEN ChatCountsOK ELSE pump.identical = 0
BeingRead == pumpAt \in {"streaming", "probing"}
CutInv ==
  /\ CutTypes /\ OnlyLoopsAreCut
  /\ BeingRead => CountersOK /\ ~LoopCut(pump)
  /\ pump.rounds <= RoundsCap + 1 /\ pump.identical <= IdenticalCap
  /\ Len(detector.recent) <= Lookback

LEMMA LimitsAre ==
  /\ Lookback \in Nat \ {0} /\ FailureStreak \in Nat \ {0} /\ RepeatK \in Nat \ {0}
  /\ IdenticalCap \in Nat \ {0} /\ RoundsCap \in Nat \ {0} /\ NoCallYet \notin Calls
BY PumpAssumption

(* The runs of a sequence of ended calls are finite.                        *)
LEMMA RunsAreFinite ==
  ASSUME NEW s \in Seq(Ends)
  PROVE  /\ \A c : /\ Repetitions(s, c) \subseteq 1 .. Len(s) /\ SameRun(s, c) \subseteq 1 .. Len(s)
                   /\ IsFiniteSet(Repetitions(s, c)) /\ IsFiniteSet(SameRun(s, c))
                   /\ Cardinality(Repetitions(s, c)) \in Nat /\ Cardinality(SameRun(s, c)) \in Nat
         /\ \A t : /\ FailingRun(s, t) \subseteq 1 .. Len(s) /\ IsFiniteSet(FailingRun(s, t))
                   /\ Cardinality(FailingRun(s, t)) \in Nat
<1>1. DOMAIN s = 1 .. Len(s) /\ Len(s) \in Nat OBVIOUS
<1>2. IsFiniteSet(1 .. Len(s)) BY <1>1, FS_Interval
<1>3. \A S \in SUBSET (1 .. Len(s)) : IsFiniteSet(S) /\ Cardinality(S) \in Nat
  BY <1>2, FS_Subset, FS_CardinalityType
<1>4. \A c : Repetitions(s, c) \subseteq 1 .. Len(s) /\ SameRun(s, c) \subseteq 1 .. Len(s)
  BY <1>1 DEF Repetitions, SameRun
<1>5. \A t : FailingRun(s, t) \subseteq 1 .. Len(s) BY <1>1 DEF FailingRun
<1> QED BY <1>3, <1>4, <1>5

(* Before the first end there are none.                                     *)
LEMMA NoRunsYet ==
  /\ NoneEnded.all = <<>> /\ NoneEnded.seen = <<>>
  /\ \A c : Cardinality(Repetitions(<<>>, c)) = 0 /\ Cardinality(SameRun(<<>>, c)) = 0
  /\ \A t : Cardinality(FailingRun(<<>>, t)) = 0
<1>1. NoneEnded.all = <<>> /\ NoneEnded.seen = <<>> BY DEF NoneEnded
<1>2. DOMAIN <<>> = {} OBVIOUS
<1>3. \A c : Repetitions(<<>>, c) = {} /\ SameRun(<<>>, c) = {}
  BY <1>2 DEF Repetitions, SameRun
<1>4. \A t : FailingRun(<<>>, t) = {} BY <1>2 DEF FailingRun
<1> QED BY <1>1, <1>3, <1>4, FS_EmptySet

LEMMA WindowIsBounded == ASSUME CutTypes, WindowOK PROVE Len(detector.recent) <= Lookback
<1>1. Len(ended.seen) \in Nat BY DEF CutTypes
<1> QED BY <1>1, LimitsAre DEF WindowOK

(* One more end.                                                            *)
LEMMA OneMore ==
  ASSUME NEW s \in Seq(Ends), NEW e \in Ends
  PROVE  /\ Append(s, e) \in Seq(Ends) /\ Len(Append(s, e)) = Len(s) + 1
         /\ DOMAIN s = 1 .. Len(s) /\ DOMAIN Append(s, e) = 1 .. Len(s) + 1
         /\ \A i : i \in 1 .. Len(s) + 1 <=> i \in 1 .. Len(s) \/ i = Len(s) + 1
         /\ \A i \in 1 .. Len(s) : Append(s, e)[i] = s[i]
         /\ Append(s, e)[Len(s) + 1] = e
         /\ Len(s) \in Nat /\ Len(s) + 1 \notin 1 .. Len(s)
<1>1. Append(s, e) \in Seq(Ends) /\ Len(Append(s, e)) = Len(s) + 1 /\ Len(s) \in Nat OBVIOUS
<1>2. DOMAIN s = 1 .. Len(s) /\ DOMAIN Append(s, e) = 1 .. Len(s) + 1 BY <1>1
<1>3. \A i : i \in 1 .. Len(s) + 1 <=> i \in 1 .. Len(s) \/ i = Len(s) + 1 BY <1>1
<1>4. Append(s, e)[Len(s) + 1] = e /\ \A i \in 1 .. Len(s) : Append(s, e)[i] = s[i] OBVIOUS
<1>5. Len(s) + 1 \notin 1 .. Len(s) BY <1>1
<1> QED BY <1>1, <1>2, <1>3, <1>4, <1>5

LEMMA FailingRunGrows ==
  ASSUME NEW s \in Seq(Ends), NEW e \in Ends, NEW t \in Tools
  PROVE  Cardinality(FailingRun(Append(s, e), t)) =
           IF e.call.tool # t THEN Cardinality(FailingRun(s, t))
           ELSE IF e.ok THEN 0 ELSE Cardinality(FailingRun(s, t)) + 1
<1> DEFINE n == Len(s)
           w == Append(s, e)
<1>1. /\ DOMAIN s = 1 .. n /\ DOMAIN w = 1 .. n + 1 /\ Len(w) = n + 1 /\ n \in Nat
      /\ \A i \in 1 .. n : w[i] = s[i]
      /\ w[n + 1] = e
      /\ n + 1 \notin 1 .. n
  BY OneMore
<1>2. IsFiniteSet(FailingRun(s, t)) /\ FailingRun(s, t) \subseteq 1 .. n BY RunsAreFinite
<1> HIDE DEF n, w
<1>3. \A i \in 1 .. n : \A j : j \in i .. n + 1 <=> j \in i .. n \/ j = n + 1 BY <1>1
<1>4. \A i \in 1 .. n : \A j : j \in i .. n => j \in 1 .. n BY <1>1
<1>5. \A i : i \in 1 .. n + 1 <=> i \in 1 .. n \/ i = n + 1 BY <1>1
<1>6. \A j : j \in n + 1 .. n + 1 <=> j = n + 1 BY <1>1
<1>7. CASE e.call.tool # t
  <2>1. \A i : i \in FailingRun(w, t) <=> i \in FailingRun(s, t)
    BY <1>1, <1>3, <1>4, <1>5, <1>6, <1>7 DEF n, FailingRun
  <2>2. FailingRun(w, t) = FailingRun(s, t) BY <2>1
  <2> QED BY <1>7, <2>2 DEF w
<1>8. CASE e.call.tool = t /\ e.ok
  <2>1. FailingRun(w, t) = {}
    BY <1>1, <1>3, <1>4, <1>5, <1>6, <1>8 DEF FailingRun
  <2> QED BY <1>8, <2>1, FS_EmptySet DEF w
<1>9. CASE e.call.tool = t /\ ~e.ok
  <2>1. \A i : i \in FailingRun(w, t) <=> i \in FailingRun(s, t) \/ i = n + 1
    BY <1>1, <1>3, <1>4, <1>5, <1>6, <1>9 DEF n, FailingRun
  <2>2. FailingRun(w, t) = FailingRun(s, t) \cup {n + 1} BY <2>1
  <2>3. n + 1 \notin FailingRun(s, t) BY <1>1, <1>2
  <2>4. Cardinality(FailingRun(s, t) \cup {n + 1}) = Cardinality(FailingRun(s, t)) + 1
    BY <1>2, <2>3, FS_AddElement
  <2> QED BY <1>9, <2>2, <2>4 DEF w
<1> QED BY <1>7, <1>8, <1>9

LEMMA SameRunGrows ==
  ASSUME NEW s \in Seq(Ends), NEW e \in Ends, NEW c \in Calls
  PROVE  Cardinality(SameRun(Append(s, e), c)) =
           IF ~e.ok THEN Cardinality(SameRun(s, c))
           ELSE IF e.call # c THEN 0 ELSE Cardinality(SameRun(s, c)) + 1
<1> DEFINE n == Len(s)
           w == Append(s, e)
<1>1. /\ DOMAIN s = 1 .. n /\ DOMAIN w = 1 .. n + 1 /\ Len(w) = n + 1 /\ n \in Nat
      /\ \A i \in 1 .. n : w[i] = s[i]
      /\ w[n + 1] = e
      /\ n + 1 \notin 1 .. n
  BY OneMore
<1>2. IsFiniteSet(SameRun(s, c)) /\ SameRun(s, c) \subseteq 1 .. n BY RunsAreFinite
<1> HIDE DEF n, w
<1>3. \A i \in 1 .. n : \A j : j \in i .. n + 1 <=> j \in i .. n \/ j = n + 1 BY <1>1
<1>4. \A i \in 1 .. n : \A j : j \in i .. n => j \in 1 .. n BY <1>1
<1>5. \A i : i \in 1 .. n + 1 <=> i \in 1 .. n \/ i = n + 1 BY <1>1
<1>6. \A j : j \in n + 1 .. n + 1 <=> j = n + 1 BY <1>1
<1>7. CASE ~e.ok
  <2>1. \A i : i \in SameRun(w, c) <=> i \in SameRun(s, c)
    BY <1>1, <1>3, <1>4, <1>5, <1>6, <1>7 DEF n, SameRun
  <2>2. SameRun(w, c) = SameRun(s, c) BY <2>1
  <2> QED BY <1>7, <2>2 DEF w
<1>8. CASE e.ok /\ e.call # c
  <2>1. SameRun(w, c) = {} BY <1>1, <1>3, <1>4, <1>5, <1>6, <1>8 DEF SameRun
  <2> QED BY <1>8, <2>1, FS_EmptySet DEF w
<1>9. CASE e.ok /\ e.call = c
  <2>1. \A i : i \in SameRun(w, c) <=> i \in SameRun(s, c) \/ i = n + 1
    BY <1>1, <1>3, <1>4, <1>5, <1>6, <1>9 DEF n, SameRun
  <2>2. SameRun(w, c) = SameRun(s, c) \cup {n + 1} BY <2>1
  <2>3. n + 1 \notin SameRun(s, c) BY <1>1, <1>2
  <2>4. Cardinality(SameRun(s, c) \cup {n + 1}) = Cardinality(SameRun(s, c)) + 1
    BY <1>2, <2>3, FS_AddElement
  <2> QED BY <1>9, <2>2, <2>4 DEF w
<1> QED BY <1>7, <1>8, <1>9

RecentlyDone(s, c) == \E j \in 1 .. Len(s) : Len(s) + 1 - j <= Lookback /\ s[j] = [call |-> c, ok |-> TRUE]

LEMMA RepetitionsGrow ==
  ASSUME NEW s \in Seq(Ends), NEW e \in Ends, NEW c \in Calls
  PROVE  Cardinality(Repetitions(Append(s, e), c)) =
           Cardinality(Repetitions(s, c)) + IF e.call = c /\ RecentlyDone(s, c) THEN 1 ELSE 0
<1> DEFINE n == Len(s)
           w == Append(s, e)
<1>1. /\ DOMAIN s = 1 .. n /\ DOMAIN w = 1 .. n + 1 /\ Len(w) = n + 1 /\ n \in Nat
      /\ \A i \in 1 .. n : w[i] = s[i]
      /\ w[n + 1] = e
      /\ n + 1 \notin 1 .. n
  BY OneMore
<1>2. /\ IsFiniteSet(Repetitions(s, c)) /\ Repetitions(s, c) \subseteq 1 .. n
      /\ Cardinality(Repetitions(s, c)) \in Nat
  BY RunsAreFinite
<1>3. RecentlyDone(s, c) <=> \E j \in 1 .. n : n + 1 - j <= Lookback /\ s[j] = [call |-> c, ok |-> TRUE]
  BY DEF RecentlyDone
<1> HIDE DEF n, w
<1>4. \A i \in 1 .. n : \A j : j \in 1 .. i - 1 => j \in 1 .. n BY <1>1
<1>5. \A i : i \in 1 .. n + 1 <=> i \in 1 .. n \/ i = n + 1 BY <1>1
<1>6. \A i \in 1 .. n : i \in Repetitions(w, c) <=> i \in Repetitions(s, c)
  BY <1>1, <1>4, <1>5 DEF Repetitions
<1>7. n + 1 \in Repetitions(w, c) <=> e.call = c /\ RecentlyDone(s, c)
  <2>1. PICK m \in Nat : m = n + 1 BY <1>1
  <2>2. m \in Repetitions(w, c) <=>
          /\ m \in DOMAIN w /\ w[m].call = c
          /\ \E j \in 1 .. m - 1 : m - j <= Lookback /\ w[j] = [call |-> c, ok |-> TRUE]
    BY Zenon DEF Repetitions
  <2>3. (\E j \in 1 .. m - 1 : m - j <= Lookback /\ w[j] = [call |-> c, ok |-> TRUE])
          <=> RecentlyDone(s, c)
    <3>1. 1 .. m - 1 = 1 .. n /\ \A j \in 1 .. n : n + 1 - j = m - j /\ w[j] = s[j] BY <1>1, <2>1
    <3> QED BY <1>3, <3>1
  <2>4. m \in DOMAIN w /\ w[m] = e BY <1>1, <1>5, <2>1
  <2> QED BY <2>1, <2>2, <2>3, <2>4
<1>8. Repetitions(w, c) \subseteq 1 .. n + 1 BY <1>1 DEF Repetitions
<1>9. CASE e.call = c /\ RecentlyDone(s, c)
  <2>1. Repetitions(w, c) = Repetitions(s, c) \cup {n + 1}
    BY <1>2, <1>5, <1>6, <1>7, <1>8, <1>9
  <2>2. n + 1 \notin Repetitions(s, c) BY <1>1, <1>2
  <2> QED BY <1>2, <1>9, <2>1, <2>2, FS_AddElement DEF w
<1>10. CASE ~(e.call = c /\ RecentlyDone(s, c))
  <2>1. Repetitions(w, c) = Repetitions(s, c) BY <1>2, <1>5, <1>6, <1>7, <1>8, <1>10
  <2> QED BY <1>2, <1>10, <2>1 DEF w
<1> QED BY <1>9, <1>10

(* What the client remembers is what ended last.                            *)
LEMMA WindowMoves ==
  ASSUME CutTypes, WindowOK, NEW c \in Calls, NEW ok \in BOOLEAN, Remember(c, ok),
         ended'.seen = Append(ended.seen, [call |-> c, ok |-> ok])
  PROVE  WindowOK' /\ detector'.recent \in Seq(Ends) /\ detector'.failures \in [Tools -> Nat]
<1> DEFINE e == [call |-> c, ok |-> ok]
           seen == ended.seen
           recent == detector.recent
           all == Append(recent, e)
           n == Len(seen)
           m == Len(recent)
<1>1. e \in Ends /\ seen \in Seq(Ends) /\ recent \in Seq(Ends) /\ c.tool \in Tools
  BY DEF CutTypes, Ends, Calls
<1>2. detector' = [recent |-> IF Len(all) > Lookback THEN Tail(all) ELSE all,
                   failures |-> [detector.failures EXCEPT ![c.tool] = IF ok THEN 0 ELSE @ + 1]]
  BY DEF Remember
<1>3. detector'.failures \in [Tools -> Nat]
  <2>1. detector.failures \in [Tools -> Nat] BY DEF CutTypes
  <2>2. PICK k \in Nat : k = IF ok THEN 0 ELSE detector.failures[c.tool] + 1 BY <1>1, <2>1
  <2>3. detector'.failures = [detector.failures EXCEPT ![c.tool] = k] BY <1>2, <2>2
  <2> QED BY <1>1, <2>1, <2>3
<1>4. /\ n \in Nat /\ m \in Nat /\ Lookback \in Nat \ {0}
      /\ m = IF n < Lookback THEN n ELSE Lookback
      /\ \A i \in 1 .. m : recent[i] = seen[n - m + i]
  BY <1>1, LimitsAre DEF WindowOK
<1>5. /\ all \in Seq(Ends) /\ Len(all) = m + 1 /\ all[m + 1] = e
      /\ \A i \in 1 .. m : all[i] = recent[i]
  BY <1>1, OneMore
<1>6. /\ Len(ended'.seen) = n + 1 /\ ended'.seen[n + 1] = e
      /\ \A i \in 1 .. n : ended'.seen[i] = seen[i]
  BY <1>1, OneMore
<1> HIDE DEF e, seen, recent, n, m
<1>7. \A i \in 1 .. m + 1 : all[i] = ended'.seen[n - m + i]
  <2> SUFFICES ASSUME NEW i \in 1 .. m + 1 PROVE all[i] = ended'.seen[n - m + i] OBVIOUS
  <2>1. CASE i = m + 1
    <3>1. n - m + i = n + 1 BY <1>4, <2>1
    <3> QED BY <1>5, <1>6, <2>1, <3>1
  <2>2. CASE i # m + 1
    <3>1. i \in 1 .. m /\ n - m + i \in 1 .. n BY <1>4, <2>2
    <3> QED BY <1>4, <1>5, <1>6, <3>1
  <2> QED BY <2>1, <2>2
<1> HIDE DEF all
<1>8. CASE Len(all) > Lookback
  <2>1. m = Lookback /\ n >= Lookback BY <1>4, <1>5, <1>8
  <2>2. detector'.recent = Tail(all) BY <1>2, <1>8
  <2>3. /\ Tail(all) \in Seq(Ends) /\ Len(Tail(all)) = m
        /\ \A i \in 1 .. m : Tail(all)[i] = all[i + 1]
    BY <1>4, <1>5, <2>1
  <2>4. \A i \in 1 .. m : i + 1 \in 1 .. m + 1 /\ n - m + (i + 1) = n + 1 - m + i BY <1>4
  <2>5. \A i \in 1 .. m : detector'.recent[i] = ended'.seen[n + 1 - m + i]
    <3> TAKE i \in 1 .. m
    <3>1. i + 1 \in 1 .. m + 1 /\ n - m + (i + 1) = n + 1 - m + i BY <2>4
    <3>2. all[i + 1] = ended'.seen[n - m + (i + 1)] BY <1>7, <3>1
    <3> QED BY <2>2, <2>3, <3>1, <3>2
  <2>6. Len(detector'.recent) = m /\ ~(n + 1 < Lookback) BY <1>4, <2>1, <2>2, <2>3
  <2>7. WindowOK'
    <3>1. Len(detector'.recent) = IF Len(ended'.seen) < Lookback THEN Len(ended'.seen) ELSE Lookback
      BY <1>4, <1>6, <2>1, <2>6
    <3>2. \A i \in 1 .. Len(detector'.recent) :
            detector'.recent[i] = ended'.seen[Len(ended'.seen) - Len(detector'.recent) + i]
      <4>1. \A i \in 1 .. m : n + 1 - m + i = (n + 1) - m + i BY <1>4
      <4>2. Len(ended'.seen) = n + 1 /\ Len(detector'.recent) = m BY <1>6, <2>6
      <4> QED BY <2>5, <4>1, <4>2
    <3> QED BY <3>1, <3>2 DEF WindowOK
  <2> QED BY <1>3, <2>2, <2>3, <2>7
<1>9. CASE ~(Len(all) > Lookback)
  <2>1. m = n /\ n + 1 <= Lookback BY <1>4, <1>5, <1>9
  <2>2. detector'.recent = all BY <1>2, <1>9
  <2>3. \A i \in 1 .. m + 1 : n - m + i = n + 1 - (m + 1) + i BY <1>4
  <2>4. m + 1 = IF n + 1 < Lookback THEN n + 1 ELSE Lookback BY <1>4, <2>1
  <2>5. \A i \in 1 .. m + 1 : detector'.recent[i] = ended'.seen[n + 1 - (m + 1) + i]
    BY <1>7, <2>2, <2>3
  <2>6. WindowOK'
    <3>1. Len(detector'.recent) = IF Len(ended'.seen) < Lookback THEN Len(ended'.seen) ELSE Lookback
      BY <1>5, <1>6, <2>2, <2>4
    <3>2. \A i \in 1 .. Len(detector'.recent) :
            detector'.recent[i] = ended'.seen[Len(ended'.seen) - Len(detector'.recent) + i]
      <4>1. \A i \in 1 .. m + 1 : n + 1 - (m + 1) + i = (n + 1) - (m + 1) + i BY <1>4
      <4>2. Len(ended'.seen) = n + 1 /\ Len(detector'.recent) = m + 1 BY <1>5, <1>6, <2>2
      <4> QED BY <2>5, <4>1, <4>2
    <3> QED BY <3>1, <3>2 DEF WindowOK
  <2> QED BY <1>3, <1>5, <2>2, <2>6
<1> QED BY <1>8, <1>9

(* The client sees a repetition where there is one.                         *)
LEMMA RepeatedIs ==
  ASSUME CutTypes, WindowOK, NEW c \in Calls
  PROVE  Repeated(c) <=> RecentlyDone(ended.seen, c)
<1> DEFINE seen == ended.seen
           recent == detector.recent
           n == Len(seen)
           m == Len(recent)
           e == [call |-> c, ok |-> TRUE]
<1>1. /\ n \in Nat /\ m \in Nat /\ Lookback \in Nat \ {0}
      /\ m = IF n < Lookback THEN n ELSE Lookback
      /\ \A i \in 1 .. m : recent[i] = seen[n - m + i]
      /\ DOMAIN recent = 1 .. m
  <2>1. recent \in Seq(Ends) /\ seen \in Seq(Ends) BY DEF CutTypes
  <2>2. n \in Nat /\ m \in Nat /\ DOMAIN recent = 1 .. m BY <2>1
  <2>3. /\ m = IF n < Lookback THEN n ELSE Lookback
        /\ \A i \in 1 .. m : recent[i] = seen[n - m + i]
    BY DEF WindowOK
  <2> QED BY <2>2, <2>3, LimitsAre
<1>2. Repeated(c) <=> \E i \in 1 .. m : recent[i] = e BY <1>1 DEF Repeated
<1>3. RecentlyDone(seen, c) <=> \E j \in 1 .. n : n + 1 - j <= Lookback /\ seen[j] = e
  BY DEF RecentlyDone
<1> HIDE DEF seen, recent, n, m, e
<1>4. ASSUME NEW i \in 1 .. m, recent[i] = e PROVE RecentlyDone(seen, c)
  <2>1. n - m + i \in 1 .. n /\ n + 1 - (n - m + i) <= Lookback BY <1>1
  <2>2. seen[n - m + i] = e BY <1>1, <1>4
  <2> QED BY <1>3, <2>1, <2>2
<1>5. ASSUME NEW j \in 1 .. n, n + 1 - j <= Lookback, seen[j] = e PROVE Repeated(c)
  <2>1. j - (n - m) \in 1 .. m /\ n - m + (j - (n - m)) = j BY <1>1, <1>5
  <2>2. recent[j - (n - m)] = e BY <1>1, <1>5, <2>1
  <2> QED BY <1>2, <2>1, <2>2
<1> QED BY <1>2, <1>3, <1>4, <1>5 DEF seen

LEMMA CutInit_Inv == PumpInit => CutInv
<1> SUFFICES ASSUME PumpInit PROVE CutInv OBVIOUS
<1>1. /\ ended.all = <<>> /\ ended.seen = <<>> /\ ended = NoneEnded
      /\ detector.recent = <<>> /\ detector.failures = [t \in Tools |-> 0]
      /\ pump.rounds = 0 /\ pump.last = NoCallYet /\ pump.identical = 0
      /\ pump.warned = [c \in Calls |-> 0] /\ ending.by = "none"
  BY NoRunsYet, UndecidedIs DEF PumpInit, FreshDetector
<1>2. <<>> \in Seq(Ends) /\ Len(<<>>) = 0 OBVIOUS
<1>3. CutTypes BY <1>1, <1>2 DEF CutTypes, NoneEnded
<1>4. WindowOK
  <2>1. 0 = IF 0 < Lookback THEN 0 ELSE Lookback BY LimitsAre
  <2> QED BY <1>1, <1>2, <2>1 DEF WindowOK
<1>5. FailuresOK BY <1>1, NoRunsYet DEF FailuresOK
<1>6. ChatCountsOK BY <1>1, NoRunsYet, LimitsAre DEF ChatCountsOK
<1>7. CountersOK BY <1>1, <1>2, <1>4, <1>5, <1>6 DEF CountersOK
<1>8. ~LoopCut(pump) /\ pump.rounds <= RoundsCap + 1 /\ pump.identical <= IdenticalCap
  BY <1>1, LimitsAre DEF LoopCut
<1>9. ~IsLoop BY <1>1, <1>2, NoRunsYet, LimitsAre DEF IsLoop
<1>10. Len(detector.recent) <= Lookback BY <1>3, <1>4, WindowIsBounded
<1> QED BY <1>1, <1>3, <1>7, <1>8, <1>9, <1>10 DEF CutInv, OnlyLoopsAreCut

LEMMA NotALoopYet == ASSUME CutInv, PumpInv, BeingRead PROVE ~IsLoop /\ ending.by = "none"
<1>1. ending = Undecided BY DEF PumpInv, FrameOK, BeingRead
<1> QED BY <1>1, UndecidedIs DEF CutInv, OnlyLoopsAreCut

(* Nothing ends, and no end is decided but of a stream that is being read.  *)
LEMMA NoEndKeepsCut ==
  ASSUME CutInv, PumpInv, UNCHANGED <<asked, detector, ended>>,
         UNCHANGED <<pump.rounds, pump.last, pump.identical, pump.warned>>,
         pump'.emitted \/ ~pump.emitted, BeingRead' => BeingRead,
         ending' = ending \/ (BeingRead /\ ending'.by # "cap")
  PROVE  CutInv'
<1>1. CutTypes' BY DEF CutInv, CutTypes
<1>2. IsLoop' <=> IsLoop BY DEF IsLoop, InChat
<1>3. OnlyLoopsAreCut' BY <1>2, NotALoopYet DEF CutInv, OnlyLoopsAreCut
<1>4. ASSUME BeingRead PROVE CountersOK' /\ ~LoopCut(pump)'
  <2>1. CountersOK /\ ~LoopCut(pump) BY <1>4 DEF CutInv
  <2>2. WindowOK' /\ FailuresOK' BY <2>1 DEF CountersOK, WindowOK, FailuresOK
  <2>3. InChat => ChatCountsOK' BY <2>1 DEF CountersOK, ChatCountsOK
  <2> QED BY <2>1, <2>2, <2>3 DEF CountersOK, LoopCut, InChat
<1> QED BY <1>1, <1>3, <1>4 DEF CutInv

(* The turn is tried again without tools.                                   *)
LEMMA DegradeKeepsCut ==
  ASSUME CutInv, PumpInv, BeingRead, InChat => ~pump.emitted, Degrade
  PROVE  CutInv'
<1>1. /\ ended' = NoneEnded /\ ended'.all = <<>> /\ ended'.seen = <<>>
      /\ detector'.recent = <<>> /\ detector'.failures = [t \in Tools |-> 0]
      /\ UNCHANGED <<asked, ending>>
  BY NoRunsYet DEF Degrade, FreshDetector
<1>2. <<>> \in Seq(Ends) /\ Len(<<>>) = 0 OBVIOUS
<1>3. CountersOK /\ ~LoopCut(pump) /\ pump \in PumpRow BY DEF CutInv, PumpInv, PumpTypes
<1>4. /\ pump'.last = pump.last /\ pump'.identical = pump.identical /\ pump'.warned = pump.warned
      /\ InChat => pump'.rounds = pump.rounds /\ pump'.emitted = pump.emitted
      /\ ~InChat => pump'.rounds = 0
  BY <1>3 DEF Degrade, PumpRow
<1>5. InChat => ended = NoneEnded BY <1>3 DEF CountersOK, ChatCountsOK
<1>6. pump'.rounds = 0 BY <1>1, <1>2, <1>3, <1>4, <1>5 DEF CountersOK
<1>7. CutTypes' BY <1>1, <1>2 DEF CutTypes, NoneEnded
<1>8. WindowOK'
  <2>1. 0 = IF 0 < Lookback THEN 0 ELSE Lookback BY LimitsAre
  <2> QED BY <1>1, <1>2, <2>1 DEF WindowOK
<1>9. FailuresOK' BY <1>1, NoRunsYet DEF FailuresOK
<1>10. InChat => ChatCountsOK' BY <1>1, <1>3, <1>4, <1>5 DEF CountersOK, ChatCountsOK
<1>11. CountersOK'
  BY <1>1, <1>2, <1>3, <1>4, <1>6, <1>8, <1>9, <1>10 DEF CountersOK, InChat
<1>12. ~LoopCut(pump)' BY <1>3, <1>4, <1>6, LimitsAre DEF LoopCut
<1>13. pump'.rounds <= RoundsCap + 1 /\ pump'.identical <= IdenticalCap
  BY <1>4, <1>6, LimitsAre DEF CutInv
<1>14. ~IsLoop' BY <1>1, <1>2, NoRunsYet, LimitsAre DEF IsLoop
<1>15. OnlyLoopsAreCut' BY <1>1, <1>14, NotALoopYet DEF OnlyLoopsAreCut
<1>16. Len(detector'.recent) <= Lookback BY <1>1, <1>2, LimitsAre
<1> QED BY <1>7, <1>11, <1>12, <1>13, <1>15, <1>16 DEF CutInv

(* The loop takes in the end of a call that its detectors let pass.         *)
LEMMA TakeEndKeepsCut ==
  ASSUME CutInv, PumpInv, pumpAt = "streaming", UNCHANGED asked,
         NEW c \in Calls, NEW ok \in BOOLEAN, NEW p \in PumpRow, TakeEnd(p),
         ended'.all = Append(ended.all, [call |-> c, ok |-> ok]),
         CutTypes', WindowOK', FailuresOK',
         p.rounds = pump.rounds + 1, p.emitted,
         p.last = IF ok /\ InChat THEN c ELSE pump.last,
         p.identical = IF ~(ok /\ InChat) THEN pump.identical
                       ELSE IF c = pump.last THEN pump.identical + 1 ELSE 0,
         InChat => \A d \in Calls : /\ p.warned[d] = Cardinality(Repetitions(ended'.seen, d))
                                    /\ ~(p.warned[d] >= RepeatK),
         InChat => \A t \in Tools : ~(Cardinality(FailingRun(ended'.seen, t)) >= FailureStreak)
  PROVE  CutInv'
<1> DEFINE e == [call |-> c, ok |-> ok]
<1>1. /\ BeingRead /\ CountersOK /\ ~LoopCut(pump) /\ pump \in PumpRow /\ e \in Ends
      /\ ended.all \in Seq(Ends)
  BY DEF CutInv, BeingRead, PumpInv, PumpTypes, Ends, CutTypes
<1>2. /\ pump.rounds \in Nat /\ pump.identical \in Nat /\ pump.rounds <= RoundsCap
      /\ pump.identical < IdenticalCap /\ p.rounds \in Nat /\ p.identical \in Nat
  BY <1>1, LimitsAre DEF LoopCut, PumpRow
<1>3. pump' = p /\ p.rounds = Len(ended'.all)
  <2>1. pump' = p BY DEF TakeEnd, CutLoop
  <2>2. Len(ended'.all) = Len(ended.all) + 1 BY <1>1, OneMore
  <2>3. pump.rounds = Len(ended.all) BY <1>1 DEF CountersOK
  <2> QED BY <2>1, <2>2, <2>3
<1>4. ASSUME InChat, NEW d \in Calls
      PROVE  /\ Cardinality(SameRun(ended'.all, d)) = IF d = p.last THEN p.identical + 1 ELSE 0
  <2>1. Cardinality(SameRun(ended.all, d)) = IF d = pump.last THEN pump.identical + 1 ELSE 0
    BY <1>1, <1>4 DEF CountersOK, ChatCountsOK
  <2>2. Cardinality(SameRun(ended'.all, d)) =
          IF ~ok THEN Cardinality(SameRun(ended.all, d))
          ELSE IF c # d THEN 0 ELSE Cardinality(SameRun(ended.all, d)) + 1
    BY <1>1, SameRunGrows
  <2>3. CASE ~ok BY <2>1, <2>2, <2>3
  <2>4. CASE ok /\ c # d BY <1>4, <2>2, <2>4
  <2>5. CASE ok /\ c = d
    <3>1. CASE c = pump.last BY <1>2, <1>4, <2>1, <2>2, <2>5, <3>1
    <3>2. CASE c # pump.last BY <1>2, <1>4, <2>1, <2>2, <2>5, <3>2
    <3> QED BY <3>1, <3>2
  <2> QED BY <2>3, <2>4, <2>5
<1>5. p.identical <= IdenticalCap /\ p.rounds <= RoundsCap + 1 BY <1>2, LimitsAre
<1>6. ~InChat => p.identical = 0 BY <1>1 DEF CountersOK
<1>7. IsLoop' <=> LoopCut(p)
  <2>1. Len(ended'.all) > RoundsCap <=> p.rounds > RoundsCap BY <1>3
  <2>2. CASE ~InChat
    <3>1. ~(p.identical >= IdenticalCap) BY <1>6, <2>2, LimitsAre
    <3> QED BY <2>1, <2>2, <3>1 DEF IsLoop, LoopCut, InChat
  <2>3. CASE InChat
    <3>1. (\E d \in Calls : Cardinality(SameRun(ended'.all, d)) > IdenticalCap)
            <=> p.identical >= IdenticalCap
      <4>1. ASSUME NEW d \in Calls, Cardinality(SameRun(ended'.all, d)) > IdenticalCap
            PROVE  p.identical >= IdenticalCap
        BY <1>2, <1>4, <2>3, <4>1, LimitsAre
      <4>2. ASSUME p.identical >= IdenticalCap
            PROVE  \E d \in Calls : Cardinality(SameRun(ended'.all, d)) > IdenticalCap
        <5>1. p.last = c /\ c \in Calls BY <1>2, <4>2, LimitsAre
        <5>2. Cardinality(SameRun(ended'.all, c)) = p.identical + 1 BY <1>4, <2>3, <5>1
        <5>3. p.identical + 1 > IdenticalCap BY <1>2, <4>2, LimitsAre
        <5> QED BY <5>2, <5>3
      <4> QED BY <4>1, <4>2
    <3>2. \A d \in Calls : ~(Cardinality(Repetitions(ended'.seen, d)) >= RepeatK) BY <2>3
    <3>3. InChat' BY <2>3 DEF InChat
    <3> QED BY <2>1, <2>3, <3>1, <3>2, <3>3 DEF IsLoop, LoopCut
  <2> QED BY <2>2, <2>3
<1>8. OnlyLoopsAreCut'
  <2>1. CASE LoopCut(p)
    <3>1. ending'.by = "cap" BY <2>1 DEF TakeEnd, CutLoop, Decide
    <3> QED BY <1>7, <2>1, <3>1 DEF OnlyLoopsAreCut
  <2>2. CASE ~LoopCut(p)
    <3>1. ending' = ending /\ ending.by = "none" BY <1>1, <2>2, NotALoopYet DEF TakeEnd
    <3> QED BY <1>7, <2>2, <3>1 DEF OnlyLoopsAreCut
  <2> QED BY <2>1, <2>2
<1>9. BeingRead' => ~LoopCut(pump)'
  <2>1. CASE LoopCut(p) BY <2>1 DEF TakeEnd, CutLoop, BeingRead
  <2>2. CASE ~LoopCut(p) BY <1>3, <2>2 DEF LoopCut
  <2> QED BY <2>1, <2>2
<1>10. InChat => ChatCountsOK' BY <1>3, <1>4 DEF ChatCountsOK
<1>11. CountersOK' BY <1>3, <1>6, <1>10 DEF CountersOK, InChat
<1>12. Len(detector'.recent) <= Lookback
  <2>1. Len(ended'.seen) \in Nat BY DEF CutTypes
  <2> QED BY <2>1, LimitsAre DEF WindowOK
<1> QED BY <1>3, <1>5, <1>8, <1>9, <1>11, <1>12 DEF CutInv

LEMMA FoldedCounts ==
  ASSUME PumpInv, NEW c \in Calls, NEW ok \in BOOLEAN
  PROVE  /\ Folded(c, ok).rounds = pump.rounds + 1 /\ Folded(c, ok).warned = pump.warned
         /\ Folded(c, ok).last = IF ok /\ InChat THEN c ELSE pump.last
         /\ Folded(c, ok).identical = IF ~(ok /\ InChat) THEN pump.identical
                                      ELSE IF c = pump.last THEN pump.identical + 1 ELSE 0
BY DEF Folded, PumpInv, PumpTypes, PumpRow

(* An end that was not announced: the client's detectors do not see it.     *)
LEMMA UnannouncedEndKeepsCut ==
  ASSUME CutInv, PumpInv, NEW c \in Calls, NEW ok \in BOOLEAN, UnannouncedEnd(c, ok)
  PROVE  CutInv'
<1> DEFINE e == [call |-> c, ok |-> ok]
           all == Append(ended.all, e)
<1>1. pumpAt = "streaming" /\ UNCHANGED <<asked, detector>> /\ TakeEnd(Folded(c, ok))
  BY DEF UnannouncedEnd, Reading
<1>2. BeingRead /\ CountersOK /\ CutTypes /\ ~IsLoop
  BY <1>1, NotALoopYet DEF CutInv, BeingRead
<1>3. e \in Ends /\ ended.all \in Seq(Ends) BY <1>2 DEF CutTypes, Ends
<1>4. all \in Seq(Ends) BY <1>3
<1>5. ended' = [ended EXCEPT !.all = all] BY DEF UnannouncedEnd
<1>6. ended'.all = all /\ ended'.seen = ended.seen /\ CutTypes'
  BY <1>1, <1>2, <1>4, <1>5 DEF CutTypes
<1>7. WindowOK' /\ FailuresOK' BY <1>1, <1>2, <1>6 DEF CountersOK, WindowOK, FailuresOK
<1>8. ASSUME InChat
      PROVE  /\ \A d \in Calls : /\ pump.warned[d] = Cardinality(Repetitions(ended'.seen, d))
                                 /\ ~(pump.warned[d] >= RepeatK)
             /\ \A t \in Tools : ~(Cardinality(FailingRun(ended'.seen, t)) >= FailureStreak)
  BY <1>2, <1>6, <1>8 DEF CountersOK, ChatCountsOK, IsLoop
<1> HIDE DEF e, all
<1> QED BY <1>1, <1>6, <1>7, <1>8, FoldedIs, FoldedCounts, TakeEndKeepsCut DEF e, all

(* An end that was announced.                                               *)
LEMMA CallEndsKeepsCut == ASSUME CutInv, PumpInv, NEW ok \in BOOLEAN, CallEnds(ok) PROVE CutInv'
<1> DEFINE c == open
           e == [call |-> c, ok |-> ok]
<1>1. /\ pumpAt = "streaming" /\ c \in Calls /\ UNCHANGED <<asked, kept>> /\ Remember(c, ok)
      /\ ended' = [all |-> Append(ended.all, e), seen |-> Append(ended.seen, e)]
      /\ \/ InChat /\ CutEarly(c, ok) /\ CutLoop(Warned(c))
         \/ /\ ~(InChat /\ CutEarly(c, ok))
            /\ TakeEnd([Folded(c, ok) EXCEPT !.warned = Warned(c).warned])
  BY DEF CallEnds, Reading, PumpInv, PumpTypes
<1> HIDE DEF c
<1>2. BeingRead /\ CountersOK /\ CutTypes /\ ~IsLoop /\ ~LoopCut(pump) /\ pump \in PumpRow
  BY <1>1, NotALoopYet DEF CutInv, BeingRead, PumpInv, PumpTypes
<1>3. e \in Ends /\ ended.all \in Seq(Ends) /\ ended.seen \in Seq(Ends) /\ c.tool \in Tools
  BY <1>1, <1>2 DEF CutTypes, Ends, Calls
<1>4. /\ ended'.all = Append(ended.all, e) /\ ended'.seen = Append(ended.seen, e)
      /\ ended' \in [all : Seq(Ends), seen : Seq(Ends)]
  BY <1>1, <1>3
<1>5. WindowOK /\ FailuresOK BY <1>2 DEF CountersOK
<1>6. /\ WindowOK' /\ CutTypes'
      /\ Repeated(c) <=> RecentlyDone(ended.seen, c)
  BY <1>1, <1>2, <1>4, <1>5, WindowMoves, RepeatedIs DEF CutTypes
<1>7. \A t \in Tools : Cardinality(FailingRun(ended'.seen, t)) =
                         IF c.tool # t THEN detector.failures[t]
                         ELSE IF ok THEN 0 ELSE detector.failures[t] + 1
  BY <1>3, <1>4, <1>5, FailingRunGrows DEF FailuresOK
<1>8. FailuresOK'
  <2>1. detector'.failures = [detector.failures EXCEPT ![c.tool] = IF ok THEN 0 ELSE @ + 1]
    BY <1>1 DEF Remember
  <2>2. detector.failures \in [Tools -> Nat] BY <1>2 DEF CutTypes
  <2>3. \A t \in Tools : detector'.failures[t] = IF c.tool # t THEN detector.failures[t]
                                                 ELSE IF ok THEN 0 ELSE detector.failures[t] + 1
    BY <2>1, <2>2
  <2> QED BY <1>7, <2>3 DEF FailuresOK
<1>9. \A d \in Calls : Cardinality(Repetitions(ended'.seen, d)) =
         Cardinality(Repetitions(ended.seen, d)) + IF d = c /\ Repeated(c) THEN 1 ELSE 0
  <2> SUFFICES ASSUME NEW d \in Calls
               PROVE  Cardinality(Repetitions(ended'.seen, d)) =
                        Cardinality(Repetitions(ended.seen, d)) + IF d = c /\ Repeated(c) THEN 1 ELSE 0
    OBVIOUS
  <2>1. Cardinality(Repetitions(ended'.seen, d)) =
          Cardinality(Repetitions(ended.seen, d)) + IF e.call = d /\ RecentlyDone(ended.seen, d) THEN 1 ELSE 0
    BY <1>3, <1>4, RepetitionsGrow
  <2> QED BY <1>6, <2>1
<1>10. /\ Warned(c) \in PumpRow /\ Warned(c).rounds = pump.rounds
       /\ Warned(c).identical = pump.identical
       /\ \A d \in Calls : Warned(c).warned[d] = pump.warned[d] + IF d = c /\ Repeated(c) THEN 1 ELSE 0
  <2>1. Warned(c) \in PumpRow BY <1>1, WarnedIs
  <2>2. pump.warned \in [Calls -> Nat] BY <1>2 DEF PumpRow
  <2>3. CASE Repeated(c)
    <3>1. Warned(c) = [pump EXCEPT !.warned[c] = @ + 1] BY <2>3 DEF Warned
    <3>2. /\ Warned(c).rounds = pump.rounds /\ Warned(c).identical = pump.identical
          /\ Warned(c).warned = [pump.warned EXCEPT ![c] = @ + 1]
      BY <1>2, <3>1 DEF PumpRow
    <3>3. \A d \in Calls : Warned(c).warned[d] = pump.warned[d] + IF d = c THEN 1 ELSE 0
      BY <2>2, <3>2
    <3> QED BY <2>1, <2>3, <3>2, <3>3
  <2>4. CASE ~Repeated(c)
    <3>1. Warned(c) = pump BY <2>4 DEF Warned
    <3> QED BY <2>1, <2>2, <2>4, <3>1
  <2> QED BY <2>3, <2>4
<1>11. ASSUME InChat
       PROVE  \A d \in Calls : /\ Warned(c).warned[d] = Cardinality(Repetitions(ended'.seen, d))
                               /\ ~(pump.warned[d] >= RepeatK)
  BY <1>2, <1>9, <1>10, <1>11 DEF CountersOK, ChatCountsOK, IsLoop
<1>12. CASE InChat /\ CutEarly(c, ok) /\ CutLoop(Warned(c))
  <2>1. InChat' /\ ending'.by = "cap" /\ pump' = Warned(c) /\ pumpAt' = "recording"
    BY <1>1, <1>12 DEF CutLoop, Decide, InChat
  <2>2. IsLoop'
    <3>1. CASE Repeated(c) /\ Warned(c).warned[c] >= RepeatK
      BY <1>1, <1>11, <1>12, <2>1, <3>1 DEF IsLoop
    <3>2. CASE ~ok /\ detector.failures[c.tool] + 1 >= FailureStreak
      BY <1>3, <1>7, <2>1, <3>2 DEF IsLoop
    <3> QED BY <1>12, <3>1, <3>2 DEF CutEarly
  <2>3. OnlyLoopsAreCut' BY <2>1, <2>2 DEF OnlyLoopsAreCut
  <2>4. ~BeingRead' BY <2>1 DEF BeingRead
  <2>5. pump'.rounds <= RoundsCap + 1 /\ pump'.identical <= IdenticalCap
    BY <1>10, <2>1 DEF CutInv
  <2>6. Len(detector'.recent) <= Lookback
    <3>1. Len(ended'.seen) \in Nat BY <1>6 DEF CutTypes
    <3> QED BY <1>6, <3>1, LimitsAre DEF WindowOK
  <2> QED BY <1>6, <2>3, <2>4, <2>5, <2>6 DEF CutInv
<1>13. CASE /\ ~(InChat /\ CutEarly(c, ok))
            /\ TakeEnd([Folded(c, ok) EXCEPT !.warned = Warned(c).warned])
  <2>1. PICK w : w = Warned(c).warned OBVIOUS
  <2>2. PICK q : q = Folded(c, ok) OBVIOUS
  <2>3. PICK p : p = [q EXCEPT !.warned = w] OBVIOUS
  <2>4. TakeEnd(p) BY <1>13, <2>1, <2>2, <2>3
  <2>5. q \in PumpRow /\ q.emitted BY <1>1, <2>2, FoldedIs
  <2>6. w \in [Calls -> Nat] BY <1>10, <2>1 DEF PumpRow
  <2>7. p \in PumpRow /\ p.emitted /\ p.warned = w /\ p.rounds = q.rounds /\ p.last = q.last
        /\ p.identical = q.identical
    BY <2>3, <2>5, <2>6 DEF PumpRow
  <2>8. /\ q.rounds = pump.rounds + 1
        /\ q.last = IF ok /\ InChat THEN c ELSE pump.last
        /\ q.identical = IF ~(ok /\ InChat) THEN pump.identical
                         ELSE IF c = pump.last THEN pump.identical + 1 ELSE 0
    BY <1>1, <2>2, FoldedCounts
  <2>9. ASSUME InChat
        PROVE  /\ \A d \in Calls : /\ p.warned[d] = Cardinality(Repetitions(ended'.seen, d))
                                   /\ ~(p.warned[d] >= RepeatK)
               /\ \A t \in Tools : ~(Cardinality(FailingRun(ended'.seen, t)) >= FailureStreak)
    <3>1. ~CutEarly(c, ok) BY <1>13, <2>9
    <3>2. \A d \in Calls : ~(p.warned[d] >= RepeatK)
      <4> SUFFICES ASSUME NEW d \in Calls PROVE ~(p.warned[d] >= RepeatK) OBVIOUS
      <4>1. CASE d = c /\ Repeated(c) BY <2>1, <2>7, <3>1, <4>1 DEF CutEarly
      <4>2. CASE ~(d = c /\ Repeated(c))
        <5>1. p.warned[d] = pump.warned[d] + 0 BY <1>10, <2>1, <2>7, <4>2
        <5>2. pump.warned[d] \in Nat BY <1>2 DEF PumpRow
        <5> QED BY <1>11, <2>9, <5>1, <5>2
      <4> QED BY <4>1, <4>2
    <3>3. \A t \in Tools : ~(Cardinality(FailingRun(ended'.seen, t)) >= FailureStreak)
      <4>1. \A t \in Tools : ~(detector.failures[t] >= FailureStreak)
        BY <1>2, <1>5, <2>9 DEF IsLoop, FailuresOK
      <4>2. ~(0 >= FailureStreak) BY LimitsAre
      <4> QED BY <1>7, <3>1, <4>1, <4>2 DEF CutEarly
    <3> QED BY <1>11, <2>1, <2>7, <2>9, <3>2, <3>3
  <2>10. p.rounds = pump.rounds + 1 BY <2>7, <2>8
  <2> HIDE DEF e
  <2> QED BY <1>1, <1>4, <1>6, <1>8, <2>4, <2>7, <2>8, <2>9, <2>10, TakeEndKeepsCut DEF e
<1> QED BY <1>1, <1>12, <1>13

LEMMA OtherStepsKeepCut ==
  ASSUME CutInv, PumpInv,
         \/ ReasoningDelta \/ \E p \in Parts : TextDelta(p)
         \/ \E c \in Calls : CallBegins(c)
         \/ \E ok \in BOOLEAN : Record(ok)
         \/ ChatEndInChat
         \/ UNCHANGED pumpVars
  PROVE  CutInv'
<1>1. pump \in PumpRow BY DEF PumpInv, PumpTypes
<1>2. UNCHANGED <<asked, detector, ended>>
  BY DEF ReasoningDelta, TextDelta, CallBegins, Record, ChatEndInChat, pumpVars
<1>3. UNCHANGED <<pump.rounds, pump.last, pump.identical, pump.warned>>
      /\ (pump'.emitted \/ ~pump.emitted)
  <2>1. CASE ReasoningDelta \/ \E p \in Parts : TextDelta(p)
    BY <1>1, <2>1 DEF ReasoningDelta, TextDelta, PumpRow
  <2>2. CASE \E c \in Calls : CallBegins(c) BY <1>1, <2>2 DEF CallBegins, PumpRow
  <2>3. CASE (\E ok \in BOOLEAN : Record(ok)) \/ UNCHANGED pumpVars
    BY <1>1, <2>3 DEF Record, pumpVars, PumpRow
  <2>4. CASE ChatEndInChat BY <1>1, <2>4 DEF ChatEndInChat, Recovered, PumpRow
  <2> QED BY <2>1, <2>2, <2>3, <2>4
<1>4. /\ BeingRead' => BeingRead
      /\ ending' = ending \/ (BeingRead /\ ending'.by # "cap")
  <2>1. CASE \/ ReasoningDelta \/ \E p \in Parts : TextDelta(p)
             \/ \E c \in Calls : CallBegins(c)
             \/ UNCHANGED pumpVars
    BY <2>1 DEF ReasoningDelta, TextDelta, CallBegins, pumpVars, BeingRead
  <2>2. CASE \E ok \in BOOLEAN : Record(ok) BY <2>2 DEF Record, BeingRead
  <2>3. CASE ChatEndInChat
    <3>1. PICK kind : ending' = [by |-> "end", kind |-> kind] BY <2>3 DEF ChatEndInChat, Decide
    <3> QED BY <2>3, <3>1 DEF ChatEndInChat, BeingRead, Reading
  <2> QED BY <2>1, <2>2, <2>3
<1> QED BY <1>2, <1>3, <1>4, NoEndKeepsCut

LEMMA EndOfStreamKeepsCut ==
  ASSUME CutInv, PumpInv,
         \/ \E d \in {"grammar", "format", "other"} : ErrorInChat(d) \/ ErrorInSub(d)
         \/ \E d \in {"grammar", "other", "nothing"} : ProbeInChat(d) \/ ProbeInSub(d)
         \/ ExhaustedInChat \/ ExhaustedInSub \/ ChatEndInSub \/ Stall
  PROVE  CutInv'
<1>1. BeingRead
  BY DEF ErrorInChat, ErrorInSub, ProbeInChat, ProbeInSub, ExhaustedInChat, ExhaustedInSub, Stall, Reading,
         BeingRead, ChatEndInSub
<1>2. \/ Degrade /\ (InChat => ~pump.emitted)
      \/ EndWith("error")
      \/ \E by \in {"partial", "exhausted", "end"} : \E kind : Complete(by, kind)
      \/ AskWhy
  BY DEF ErrorInChat, ErrorInSub, ProbeInChat, ProbeInSub, ExhaustedInChat, ExhaustedInSub, Stall, Reading,
         DegradeEligible, ChatEndInSub, CompleteExhausted
<1>3. CASE Degrade /\ (InChat => ~pump.emitted) BY <1>1, <1>3, DegradeKeepsCut
<1>4. CASE EndWith("error") \/ AskWhy \/ \E by \in {"partial", "exhausted", "end"} : \E kind : Complete(by, kind)
  <2>1. UNCHANGED <<asked, detector, ended, pump>> BY <1>4 DEF EndWith, AskWhy, Complete
  <2>2. ending' = ending \/ ending'.by # "cap" BY <1>4 DEF EndWith, AskWhy, Complete, Decide
  <2> QED BY <1>1, <2>1, <2>2, NoEndKeepsCut
<1> QED BY <1>2, <1>3, <1>4

LEMMA CutInvHolds == PumpSpec => []CutInv
<1>1. CutInv /\ PumpInv /\ [PumpNext]_pumpVars => CutInv'
  <2> SUFFICES ASSUME CutInv, PumpInv, [PumpNext]_pumpVars PROVE CutInv' OBVIOUS
  <2>1. CASE \/ ReasoningDelta \/ \E p \in Parts : TextDelta(p)
             \/ \E c \in Calls : CallBegins(c)
             \/ \E ok \in BOOLEAN : Record(ok)
             \/ ChatEndInChat
             \/ UNCHANGED pumpVars
    BY <2>1, OtherStepsKeepCut
  <2>2. CASE \E c \in Calls : \E ok \in BOOLEAN : UnannouncedEnd(c, ok)
    BY <2>2, UnannouncedEndKeepsCut
  <2>3. CASE \E ok \in BOOLEAN : CallEnds(ok) BY <2>3, CallEndsKeepsCut
  <2>4. CASE \/ \E d \in {"grammar", "format", "other"} : ErrorInChat(d) \/ ErrorInSub(d)
             \/ \E d \in {"grammar", "other", "nothing"} : ProbeInChat(d) \/ ProbeInSub(d)
             \/ ExhaustedInChat \/ ExhaustedInSub \/ ChatEndInSub \/ Stall
    BY <2>4, EndOfStreamKeepsCut
  <2> QED BY <2>1, <2>2, <2>3, <2>4 DEF PumpNext
<1> QED BY <1>1, CutInit_Inv, PumpInvHolds, PTL DEF PumpSpec

(* However calls succeed, fail, repeat and go unannounced, a tool loop is   *)
(* cut at the call that makes it one, and nothing else is cut               *)
(* (_track_loop_cut_signals, _decide_loop_cut, LmstudioStreamingClient).    *)
THEOREM LoopsAreCutAtOnce == PumpSpec => []OnlyLoopsAreCut
<1>1. CutInv => OnlyLoopsAreCut BY DEF CutInv
<1> QED BY <1>1, CutInvHolds, PTL

-----------------------------------------------------------------------------
(* The types of the five, and the five together.                            *)

LEMMA PumpTypesHold == PumpSpec => []PumpTypeOK
<1>1. ASSUME PumpInv, CutInv PROVE PumpTypeOK
  <2>1. pump \in PumpRow /\ sent \in Seq(Words) BY <1>1 DEF PumpInv, PumpTypes
  <2>2. pump.rounds \in 0 .. RoundsCap + 1 /\ pump.identical \in 0 .. IdenticalCap
    BY <1>1, <2>1, LimitsAre DEF CutInv, PumpRow
  <2>3. pump.text \subseteq Parts /\ pump.cards \in Seq({"pending", "success", "failure"})
    BY <2>1 DEF PumpRow, CardStates
  <2>4. Len(detector.recent) <= Lookback /\ detector.failures \in [Tools -> Nat]
    BY <1>1 DEF CutInv, CutTypes
  <2> QED BY <1>1, <2>1, <2>2, <2>3, <2>4 DEF PumpTypeOK, PumpInv, PumpTypes, Words
<1> QED BY <1>1, PumpInvHolds, CutInvHolds, PTL

CutsBounded == cut \in 0 .. MaxCut

LEMMA LoopTypesHold == LoopSpec => []LoopTypeOK
<1>1. LoopInit => CutsBounded BY LoopAssumption DEF LoopInit, CutsBounded
<1>2. CutsBounded /\ [LoopNext]_loopVars => CutsBounded'
  <2> SUFFICES ASSUME CutsBounded, [LoopNext]_loopVars PROVE CutsBounded' OBVIOUS
  <2>1. CASE \E s \in Slots : CutPayload(s)
    BY <2>1, LoopAssumption DEF CutPayload, CutsBounded
  <2>2. CASE cut' = cut BY <2>2 DEF CutsBounded
  <2>3. (\E s \in Slots : CutPayload(s)) \/ cut' = cut
    BY DEF LoopNext, LoopStep, Reasoning, Content, FinishToolCalls, ResponseEnds, UpstreamError, InnerRaises,
           ExecuteCall, NextRound, ToolName, ToolArguments, TurnCancelled, Whole, loopVars
  <2> QED BY <2>1, <2>2, <2>3
<1>3. LoopInv /\ CutsBounded => LoopTypeOK
  BY DEF LoopInv, LoopTypes, LoopTypeOK, CutsBounded, Decoders, BufStates, FinalOK
<1> QED BY <1>1, <1>2, <1>3, LoopInvHolds, PTL DEF LoopSpec

LEMMA AdapterTypesHold == AdapterSpec => []AdapterTypeOK
<1>1. AdapterInv => AdapterTypeOK
  BY DEF AdapterInv, AdapterTypes, TurnRow, RefusedOK, AdapterTypeOK
<1> QED BY <1>1, AdapterInvHolds, PTL

StoreTypes ==
  row \in [Servers -> {"on", "off", "absent"}] /\ configs \subseteq Servers /\ failure \subseteq Servers

CallersOK == \A c \in Clients : client[c].at = "calling" => client[c].sess \in Sessions

LEMMA CallersHold == McpSpec => []CallersOK
<1>1. McpInit => CallersOK BY DEF McpInit, CallersOK, Idle
<1>2. McpInv /\ CallersOK /\ [McpNext]_mcpVars => CallersOK'
  <2> SUFFICES ASSUME McpInv, CallersOK, [McpNext]_mcpVars, NEW d \in Clients, client'[d].at = "calling"
               PROVE  client'[d].sess \in Sessions
    BY DEF CallersOK
  <2>1. client \in [Clients -> ClientRow] /\ pool \in [Servers -> 0 .. MaxSessions]
        /\ \A c \in Clients : client[c].at # "idle" => client[c].srv \in Servers
    BY DEF McpInv, McpTypes
  <2>2. CASE client'[d] = client[d] BY <2>2 DEF CallersOK
  <2>3. CASE CallTool(d) /\ client'[d] # client[d]
    <3>1. pool[client[d].srv] # 0 /\ client[d].srv \in Servers
      BY <2>1, <2>3 DEF CallTool, Move, ClientAt, ClientRow
    <3>2. client'[d].sess = pool[client[d].srv] BY <2>1, <2>3, <3>1 DEF CallTool, ClientRow
    <3> QED BY <2>1, <3>1, <3>2, SessionsAreNumbers DEF Sessions
  <2>4. CASE client'[d] # client[d] /\ ~CallTool(d)
    <3>1. ASSUME NEW c \in Clients, CallTool(c) PROVE FALSE
      BY <2>1, <2>4, <3>1 DEF CallTool, Move, ClientRow
    <3>2. ASSUME NEW c \in Clients, NEW at \in ClientSteps \ {"calling"}, Move(c, at) PROVE FALSE
      BY <2>1, <2>4, <3>2 DEF Move, ClientRow
    <3>3. ASSUME NEW c \in Clients, StartHandshake(c) PROVE FALSE
      BY <2>1, <2>4, <3>3 DEF StartHandshake, ClientRow
    <3>4. ASSUME NEW c \in Clients, ClientStep(c) \/ ClientCancelled(c) PROVE FALSE
      BY <3>1, <3>2, <3>3, <3>4 DEF ClientStep, ClientCancelled, LockAndRecheck, PoolConnection, HandshakeRefused,
         HandshakeTimesOut, AbortTask, CallReturns, CallTimesOut, GiveUp, ClientSteps
    <3>5. ASSUME NEW c \in Clients, NEW s \in Servers, Connect(c, s) PROVE FALSE
      BY <2>1, <2>4, <3>5 DEF Connect, ClientRow
    <3>6. CASE Reboot BY <2>1, <2>4, <3>6 DEF Reboot, Idle, ClientRow
    <3>7. CASE client' = client BY <2>4, <3>7
    <3>8. client' = client \/ Reboot
          \/ \E c \in Clients : ClientStep(c) \/ ClientCancelled(c) \/ \E s \in Servers : Connect(c, s)
      BY DEF McpNext, SessionStep, ServerDies, HandshakeDone, HandshakeFails, TakeRequest, Closed, Answer,
         SessionOnly, AdminStep, Disconnect, ReapSession, DeleteServerRow, Install, Enable, BeginAdmin,
         AdminOnly, mcpVars
    <3> QED BY <3>4, <3>5, <3>6, <3>7, <3>8
  <2> QED BY <2>2, <2>3, <2>4
<1> QED BY <1>1, <1>2, McpInvHolds, PTL DEF McpSpec

LEMMA StoreTypesHold == McpSpec => []StoreTypes
<1>1. McpInit => StoreTypes BY DEF McpInit, StoreTypes
<1>2. McpInv /\ StoreTypes /\ [McpNext]_mcpVars => StoreTypes'
  <2> SUFFICES ASSUME McpInv, StoreTypes, [McpNext]_mcpVars PROVE StoreTypes' OBVIOUS
  <2>1. \A c \in Clients : client[c].at # "idle" => client[c].srv \in Servers
    BY DEF McpInv, McpTypes
  <2>2. ASSUME NEW c \in Clients, ClientStep(c) PROVE StoreTypes'
    <3>1. failure' \in {failure, failure \cup {client[c].srv}} /\ UNCHANGED <<row, configs>>
      BY <2>2 DEF ClientStep, LockAndRecheck, PoolConnection, HandshakeRefused, HandshakeTimesOut, AbortTask,
         CallTool, CallReturns, CallTimesOut
    <3>2. CASE client[c].srv \in Servers BY <3>1, <3>2 DEF StoreTypes
    <3>3. CASE client[c].at = "idle"
      BY <2>2, <3>3 DEF ClientStep, LockAndRecheck, PoolConnection, HandshakeRefused, HandshakeTimesOut,
         AbortTask, CallTool, CallReturns, CallTimesOut, ClientAt
    <3> QED BY <2>1, <3>2, <3>3
  <2>3. ASSUME NEW c \in Clients, ClientCancelled(c) \/ \E s \in Servers : Connect(c, s)
        PROVE  StoreTypes'
    BY <2>3 DEF ClientCancelled, Connect, StoreTypes
  <2>4. ASSUME NEW i \in Sessions, SessionStep(i) \/ ServerDies(i) PROVE StoreTypes'
    <3>1. /\ failure' \in {failure, failure \cup {session[i].srv}, failure \ {session[i].srv}}
          /\ UNCHANGED <<row, configs>>
      BY <2>4 DEF SessionStep, ServerDies, HandshakeDone, HandshakeFails, TakeRequest, Closed, Answer,
         SessionOnly
    <3>2. CASE session[i].srv \in Servers BY <3>1, <3>2 DEF StoreTypes
    <3>3. Alive(i) \/ failure' = failure
      BY <2>4 DEF SessionStep, ServerDies, HandshakeDone, HandshakeFails, TakeRequest, Closed, Answer, Alive
    <3>4. CASE failure' = failure BY <3>1, <3>4 DEF StoreTypes
    <3> QED BY <3>2, <3>3, <3>4 DEF McpInv, TaskOK
  <2>5. ASSUME NEW a \in Admins, AdminStep(a) PROVE StoreTypes'
    <3>1. /\ failure' = failure /\ configs' \subseteq configs
          /\ row' \in {row, [row EXCEPT ![admin[a].srv] = "absent"]}
      BY <2>5 DEF AdminStep, Disconnect, ReapSession, DeleteServerRow, Disconnected, AdminOnly
    <3>2. [row EXCEPT ![admin[a].srv] = "absent"] \in [Servers -> {"on", "off", "absent"}]
      BY DEF StoreTypes
    <3> QED BY <3>1, <3>2 DEF StoreTypes
  <2>6. ASSUME NEW s \in Servers, Install(s) \/ Enable(s) PROVE StoreTypes'
    BY <2>6 DEF Install, Enable, AdminOnly, StoreTypes
  <2>7. ASSUME NEW a \in Admins, NEW s \in Servers, NEW op \in {"disable", "delete"}, BeginAdmin(a, op, s)
        PROVE  StoreTypes'
    BY <2>7 DEF BeginAdmin, AdminOnly, StoreTypes
  <2>8. CASE Reboot BY <2>8 DEF Reboot, StoreTypes
  <2>9. CASE UNCHANGED mcpVars BY <2>9 DEF mcpVars, StoreTypes
  <2> QED BY <2>2, <2>3, <2>4, <2>5, <2>6, <2>7, <2>8, <2>9 DEF McpNext
<1> QED BY <1>1, <1>2, McpInvHolds, PTL DEF McpSpec

LEMMA McpTypesHold == McpSpec => []McpTypeOK
<1>1. ASSUME McpInv, StoreTypes, CallersOK PROVE McpTypeOK
  <2>1. McpTypes BY <1>1 DEF McpInv
  <2>2. \A i \in Sessions : session[i] \in TaskRow BY <2>1 DEF McpTypes
  <2>3. Requests = Clients \cup {Stop} BY DEF Requests
  <2>4. client \in [Clients -> [at : {"idle", "locking", "handshake", "aborting", "connected", "calling",
                                      "done"}, srv : Servers \cup {NoServer}, sess : 0 .. MaxSessions]]
    BY <2>1 DEF McpTypes, ClientRow, ClientSteps
  <2>5. \A i \in Sessions :
          /\ session[i].srv \in Servers \cup {NoServer}
          /\ session[i].at \in {"unborn", "opening", "serving", "closing", "ended"}
          /\ session[i].ready \in {"none", "pending", "listed", "failed", "cancelled", "abandoned"}
          /\ session[i].queue \in Seq(Clients \cup {Stop})
          /\ session[i].serving \in Clients \cup {NoClient}
          /\ session[i].killed \in BOOLEAN
    BY <2>2, <2>3 DEF TaskRow, TaskSteps, ReadyStates
  <2>6. pool \in [Servers -> 0 .. MaxSessions] /\ connLock \in [Servers -> Clients \cup {NoClient}]
    BY <2>1 DEF McpTypes
  <2>7. /\ row \in [Servers -> {"on", "off", "absent"}] /\ configs \subseteq Servers
        /\ failure \subseteq Servers
    BY <1>1 DEF StoreTypes
  <2>8. /\ answer \in [Clients -> {"none", "pending", "result", "failed", "cancelled"}]
        /\ admin \in [Admins -> [at : {"idle", "disconnect", "grace", "deleting"},
                                 op : {"none", "disable", "delete"},
                                 srv : Servers \cup {NoServer}, sess : 0 .. MaxSessions]]
    BY <2>1 DEF McpTypes, AdminRow
  <2>9. \A c \in Clients : client[c].at \in {"handshake", "aborting", "calling"} =>
          client[c].sess \in Sessions
    BY <1>1 DEF McpInv, LockOK, HoldsLock, CallersOK
  <2> QED BY <2>4, <2>5, <2>6, <2>7, <2>8, <2>9 DEF McpTypeOK
<1> QED BY <1>1, McpInvHolds, StoreTypesHold, CallersHold, PTL

FlagTypes ==
  /\ cacheLock \in Probers \cup {NoOne} /\ cache \in Made \cup {NoOne} /\ flag \in Made \cup {NoOne}
  /\ mirror \in BOOLEAN /\ inFlight \in BOOLEAN

LEMMA FlagTypesHold == CatalogSpec => []FlagTypes
<1>1. CatalogInit => FlagTypes BY DEF CatalogInit, FlagTypes
<1>2. CatalogInv /\ FlagTypes /\ [CatalogNext]_catalogVars => FlagTypes'
  <2> SUFFICES ASSUME CatalogInv, FlagTypes, [CatalogNext]_catalogVars PROVE FlagTypes' OBVIOUS
  <2>1. CASE BeginRegistryRefresh \/ EndRegistryRefresh
    BY <2>1 DEF BeginRegistryRefresh, EndRegistryRefresh, probeVars, FlagTypes
  <2>2. ASSUME NEW s \in Saves, SaveStep(s) PROVE FlagTypes'
    <3>1. \/ UNCHANGED <<cacheLock, cache, flag, mirror, inFlight>>
          \/ cache' = NoOne /\ flag' = NoOne /\ mirror' = FALSE /\ UNCHANGED <<cacheLock, inFlight>>
      BY <2>2 DEF SaveStep, BeginSave, ProbeNew, FetchRow, WriteRow, ReadStored, EnterRewire, Swap, Rebind,
         Invalidate, probeVars
    <3> QED BY <3>1, Zenon DEF FlagTypes
  <2>3. ASSUME NEW p \in Probers, Prober(p) PROVE FlagTypes'
    <3>1. probe[p].client \in Made BY DEF CatalogInv, CatalogTypes
    <3>2. CASE BeginRefresh(p) \/ SkipRefresh(p) BY <3>2 DEF BeginRefresh, SkipRefresh, FlagTypes
    <3>3. CASE BeginForced(p) BY <3>3 DEF BeginForced, FlagTypes
    <3>4. CASE Ask(p) BY <3>4 DEF Ask, FlagTypes
    <3>5. CASE AnswerProbe(p)
      <4>1. cacheLock' = NoOne /\ inFlight' = (inFlight /\ p \notin Forcers)
        BY <3>5 DEF AnswerProbe, EndProbe
      <4>2. cache' \in {cache, probe[p].client} /\ flag' \in {flag, NoOne, probe[p].client}
        BY <3>5 DEF AnswerProbe
      <4>3. mirror' = mirror \/ mirror' = (mirror /\ p \notin Forcers)
        BY <3>5, Zenon DEF AnswerProbe
      <4>4. inFlight' \in BOOLEAN /\ mirror' \in BOOLEAN BY <4>1, <4>3, Zenon DEF FlagTypes
      <4> QED BY <3>1, <4>1, <4>2, <4>4 DEF FlagTypes
    <3>6. CASE SyncMirror(p) BY <3>6 DEF SyncMirror, FlagTypes
    <3> QED BY <2>3, <3>2, <3>3, <3>4, <3>5, <3>6 DEF Prober
  <2>4. CASE UNCHANGED catalogVars BY <2>4 DEF catalogVars, FlagTypes
  <2> QED BY <2>1, <2>2, <2>3, <2>4 DEF CatalogNext
<1> QED BY <1>1, <1>2, CatalogInvHolds, PTL DEF CatalogSpec

LEMMA CatalogTypesHold == CatalogSpec => []CatalogTypeOK
<1>1. ASSUME CatalogInv, FlagTypes PROVE CatalogTypeOK
  <2>1. CatalogTypes BY <1>1 DEF CatalogInv
  <2>2. \A f : f \in Settings => f \in [url : Made, key : Made]
    BY DEF Settings
  <2>3. closing \subseteq Made BY <1>1 DEF CatalogInv, ClientsOK, Live, Made
  <2>4. \A s \in Saves : save[s] \in SaveRow BY <2>1 DEF CatalogTypes
  <2>5. \A p \in Probers : probe[p].at \in {"idle", "wait", "asked", "sync", "done"}
    BY <2>1 DEF CatalogTypes
  <2>6. \A s \in Saves :
          /\ save[s].at \in {"idle", "probe", "fetch", "write", "read", "enter", "lock",
                             "registry", "invalidate", "done", "refused"}
          /\ save[s].sets \subseteq {"url", "key"}
          /\ save[s].row \in [url : Made, key : Made] /\ save[s].old \in Made
    BY <2>2, <2>4 DEF SaveRow, SaveSteps
  <2>7. stored \in [url : Made, key : Made] BY <2>1, <2>2 DEF CatalogTypes
  <2> QED BY <1>1, <2>1, <2>3, <2>5, <2>6, <2>7 DEF CatalogTypes, CatalogTypeOK, FlagTypes
<1> QED BY <1>1, CatalogInvHolds, FlagTypesHold, PTL

(* Each of the five runs in the composition as it does alone.               *)
LEMMA FiveTogether ==
  UpstreamSpec => PumpSpec /\ LoopSpec /\ AdapterSpec /\ McpSpec /\ CatalogSpec
<1>1. UpstreamInit => PumpInit /\ LoopInit /\ AdapterInit /\ McpInit /\ CatalogInit BY DEF UpstreamInit
<1>2. [UpstreamNext]_upstreamVars =>
        /\ [PumpNext]_pumpVars /\ [LoopNext]_loopVars /\ [AdapterNext]_adapterVars
        /\ [McpNext]_mcpVars /\ [CatalogNext]_catalogVars
  BY DEF UpstreamNext, upstreamVars
<1> QED BY <1>1, <1>2, PTL DEF UpstreamSpec, PumpSpec, LoopSpec, AdapterSpec, McpSpec, CatalogSpec

(* Nothing on the way to models and tools ever leaves its type: a turn, a   *)
(* tool loop, a request, an MCP session and a save of the connection keep   *)
(* between two awaits what the code takes for granted after them, such as   *)
(* that no call is being built in the final pass.                           *)
THEOREM UpstreamTypesHold == UpstreamSpec => []UpstreamTypesOK
<1>1. PumpTypeOK /\ LoopTypeOK /\ AdapterTypeOK /\ McpTypeOK /\ CatalogTypeOK => UpstreamTypesOK
  BY DEF UpstreamTypesOK
<1> QED BY <1>1, FiveTogether, PumpTypesHold, LoopTypesHold, AdapterTypesHold, McpTypesHold, CatalogTypesHold,
        PTL
=============================================================================
