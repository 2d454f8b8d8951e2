------------------------------- MODULE Adapter -------------------------------
(***************************************************************************)
(* LmstudioAdapter.stream_chat (services/lmstudio_adapter.py) with the     *)
(* cache of rejected parameters (services/params_service.py): the POST of  *)
(* a turn, the retry without a parameter the model refuses, and the        *)
(* degraded retries without integrations LM Studio denies or cannot reach. *)
(*                                                                         *)
(* LM Studio is consistent within a turn: what the model does not support  *)
(* is a constant, which plugins are denied or dead is settled as the turn  *)
(* starts; how and when LM Studio says so is a choice.                     *)
(***************************************************************************)
EXTENDS Naturals, FiniteSets

CONSTANTS
  Turns,        \* concurrent turns of one model
  Params,       \* optional parameters, all of them set in a request
  Plugins,      \* integrations, all of them requested
  Unsupported,  \* parameters the model refuses
  Denied,       \* plugins LM Studio may deny
  Dead,         \* plugins LM Studio may be unable to serve
  MaxForgets    \* bound: times the cache forgets (TTL, reload, invalidation)

ASSUME AdapterAssumption ==
  /\ Unsupported \subseteq Params /\ Denied \subseteq Plugins /\ Dead \subseteq Plugins
  /\ MaxForgets \in Nat

VARIABLES
  turn,      \* each turn: where it is, what it sends, what came of it
  rejected,  \* ParamsService._cache of the model
  forgets

adapterVars == <<turn, rejected, forgets>>

(* why: what the current attempt is; body and plugins: what it sends;      *)
(* refused: the parameters this turn was told of (history).                *)
NewTurn == [at |-> "idle", why |-> "first", denied |-> {}, dead |-> {},
            body |-> {}, plugins |-> {}, degraded |-> FALSE,
            shown |-> FALSE, end |-> "none",
            refused |-> {}]

AdapterInit ==
  /\ turn = [t \in Turns |-> NewTurn]
  /\ rejected = {}
  /\ forgets = 0

(* strip_rejected.                                                         *)
StripRejected(body) == body \ rejected

Set(t, new) == turn' = [turn EXCEPT ![t] = new]
End(t, how) == Set(t, [turn[t] EXCEPT !.at = "done", !.end = how])

-----------------------------------------------------------------------------
(* The first POST. Without plugins or tools, or with plugins, it goes to   *)
(* the native surface, which is the one that knows plugins.                *)

StartTurn(t, denied, dead) ==
  /\ turn[t].at = "idle"
  /\ Set(t, [turn[t] EXCEPT !.at = "posted", !.plugins = Plugins,
             !.denied = denied, !.dead = dead, !.body = StripRejected(Params)])
  /\ UNCHANGED <<rejected, forgets>>

(* _build_degraded_request starts from the request as it came. With no     *)
(* plugin left another surface may take it; it answers in the same way.    *)
DegradedRequest(t, gone) ==
  [turn[t] EXCEPT !.plugins = Plugins \ gone, !.body = StripRejected(Params)]

-----------------------------------------------------------------------------
(* The answers.                                                            *)

(* An error names some of the plugins it is about.                         *)
Named(plugins) == (SUBSET plugins) \ {{}}

Refused(t) == turn[t].body \cap Unsupported

(* Faulty: the parameter is learnt, the body stays as it is.               *)
RetryUnchanged(t, p) == turn[t].body

(* record_rejection and strip_rejected run without an await in between.    *)
RetryBody(t, p) == turn[t].body \ (rejected \cup {p})

(* 400: the first attempt learns the parameter and is repeated once.       *)
ParamRefused(t) ==
  /\ turn[t].at = "posted" /\ Refused(t) # {}
  /\ UNCHANGED forgets
  /\ IF turn[t].why # "first" THEN End(t, "error") /\ UNCHANGED rejected
     ELSE \E p \in Refused(t) :
            /\ rejected' = rejected \cup {p}
            /\ Set(t, [turn[t] EXCEPT !.why = "retry",
                       !.refused = @ \cup {p}, !.body = RetryBody(t, p)])

(* 403: the denied plugins are named, or all of them are taken for denied. *)
(* The degraded request is built before the warning is yielded.            *)
PluginsDenied(t) ==
  /\ turn[t].at = "posted" /\ Refused(t) = {}
  /\ turn[t].plugins \cap turn[t].denied # {}
  /\ UNCHANGED <<rejected, forgets>>
  /\ IF turn[t].why \notin {"first", "retry"} THEN End(t, "error")
     ELSE \E gone \in Named(turn[t].plugins \cap turn[t].denied) \cup {turn[t].plugins} :
            Set(t, [DegradedRequest(t, gone) EXCEPT !.at = "warning"])

PostDegraded(t) ==
  /\ turn[t].at = "warning"
  /\ Set(t, [turn[t] EXCEPT !.at = "posted", !.why = "denied"])
  /\ UNCHANGED <<rejected, forgets>>

(* One degrade per turn for dead plugins, before anything was shown.       *)
MayDegrade(t) == ~turn[t].degraded /\ ~turn[t].shown

(* _retry_with_dropped_plugins.                                            *)
RetryWithDroppedPlugins(t, gone) ==
  Set(t, [DegradedRequest(t, gone) EXCEPT !.at = "posted", !.why = "plugin",
          !.degraded = TRUE])

DeadPlugins(t) == turn[t].plugins \cap (turn[t].dead \ turn[t].denied)

(* An HTTP error names dead plugins. A degraded retry is not degraded      *)
(* again.                                                                  *)
PluginsDead(t) ==
  /\ turn[t].at = "posted" /\ Refused(t) = {}
  /\ DeadPlugins(t) # {}
  /\ UNCHANGED <<rejected, forgets>>
  /\ IF turn[t].why \in {"first", "retry"} /\ MayDegrade(t)
     THEN \E gone \in Named(DeadPlugins(t)) : RetryWithDroppedPlugins(t, gone)
     ELSE End(t, "error")

(* Any other status, a connection error or a timeout.                      *)
PostFails(t) ==
  /\ turn[t].at = "posted"
  /\ End(t, "error")
  /\ UNCHANGED <<rejected, forgets>>

(* 200. After a degrade for dead plugins the warning is yielded first.     *)
StreamOpens(t) ==
  /\ turn[t].at = "posted" /\ Refused(t) = {}
  /\ turn[t].plugins \cap turn[t].denied = {}
  /\ Set(t, [turn[t] EXCEPT !.at = IF turn[t].why = "plugin" THEN "warned" ELSE "streaming"])
  /\ UNCHANGED <<rejected, forgets>>

StreamAfterWarning(t) ==
  /\ turn[t].at = "warned"
  /\ Set(t, [turn[t] EXCEPT !.at = "streaming"])
  /\ UNCHANGED <<rejected, forgets>>

ShowContent(t) ==
  /\ turn[t].at = "streaming" /\ ~turn[t].shown
  /\ Set(t, [turn[t] EXCEPT !.shown = TRUE])
  /\ UNCHANGED <<rejected, forgets>>

(* A stream with plugins is a native one; it reports dead ones anywhere.   *)
StreamNamesDead(t) ==
  /\ turn[t].at = "streaming"
  /\ DeadPlugins(t) # {}
  /\ IF MayDegrade(t) THEN \E gone \in Named(DeadPlugins(t)) : RetryWithDroppedPlugins(t, gone)
     ELSE End(t, "error")
  /\ UNCHANGED <<rejected, forgets>>

StreamEnds(t) ==
  /\ turn[t].at = "streaming"
  /\ \E how \in {"chat.end", "error"} : End(t, how)
  /\ UNCHANGED <<rejected, forgets>>

(* The client goes away, at any await.                                     *)
Abandoned(t) ==
  /\ turn[t].at \in {"posted", "warning", "warned", "streaming"}
  /\ End(t, "cancelled")
  /\ UNCHANGED <<rejected, forgets>>

(* TTL, clear_for_model, invalidate: what turns were told is void as well. *)
Forget(p) ==
  /\ forgets < MaxForgets /\ forgets' = forgets + 1
  /\ p \in rejected
  /\ rejected' = rejected \ {p}
  /\ turn' = [t \in Turns |-> [turn[t] EXCEPT !.refused = @ \ {p}]]

-----------------------------------------------------------------------------
TurnStep(t) ==
  \/ \E denied \in SUBSET Denied, dead \in SUBSET Dead : StartTurn(t, denied, dead)
  \/ ParamRefused(t) \/ PluginsDenied(t) \/ PostDegraded(t) \/ PluginsDead(t) \/ PostFails(t)
  \/ StreamOpens(t) \/ StreamAfterWarning(t) \/ ShowContent(t) \/ StreamNamesDead(t)
  \/ StreamEnds(t) \/ Abandoned(t)

AdapterNext == (\E t \in Turns : TurnStep(t)) \/ \E p \in Params : Forget(p)

AdapterSpec == AdapterInit /\ [][AdapterNext]_adapterVars

-----------------------------------------------------------------------------
(* Properties.                                                             *)

AdapterTypeOK ==
  /\ rejected \subseteq Unsupported
  /\ \A t \in Turns :
       /\ turn[t].at \in {"idle", "posted", "warning", "warned", "streaming", "done"}
       /\ turn[t].why \in {"first", "retry", "denied", "plugin"}
       /\ turn[t].end \in {"none", "chat.end", "error", "cancelled"}
       /\ turn[t].body \subseteq Params /\ turn[t].plugins \subseteq Plugins
       /\ turn[t].at = "done" <=> turn[t].end # "none"

(* A parameter this turn was refused is in none of its later requests,     *)
(* whichever retry sends them, unless the cache was made to forget it.     *)
RefusedStaysOut == \A t \in Turns : turn[t].at = "posted" => turn[t].body \cap turn[t].refused = {}
=============================================================================
