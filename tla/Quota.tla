-------------------------------- MODULE Quota --------------------------------
(***************************************************************************)
(* The daily quota of one user (lmchat/services/quota_service.py,          *)
(* lmchat/middleware/quota.py). A request is counted before it runs and a  *)
(* chat turn's tokens after it has answered; both first make sure today's  *)
(* usage row exists, in a transaction of its own, so midnight and other    *)
(* requests fall in between. The limits may be changed at any time.        *)
(***************************************************************************)
EXTENDS Naturals, FiniteSets

CONSTANTS
  Requests,  \* requests of the user
  Limits,    \* values of requests_per_day and tokens_per_day an admin sets
  Turns,     \* tokens a chat turn may use
  LastDay,   \* bound: days
  MaxErrors  \* bound: quota writes that fail

ASSUME QuotaAssumption ==
  /\ Limits \subseteq Nat /\ Limits # {} /\ Turns \subseteq Nat \ {0}
  /\ LastDay \in Nat \ {0} /\ MaxErrors \in Nat

Days == 1 .. LastDay

VARIABLES
  today,
  limit,     \* the quotas row of the user
  ceiling,   \* the highest limit in force so far (history)
  usage,     \* quota_usage: the row of each day, absent or its two counters
  req,       \* each request: where it is, the tokens of its turn
  admitted,  \* for each day, the requests counted on it that went through (history)
  errors     \* writes that failed

quotaVars == <<today, limit, ceiling, usage, req, admitted, errors>>

NoRow == [exists |-> FALSE, requests |-> 0, tokens |-> 0]
FreshRow == [exists |-> TRUE, requests |-> 0, tokens |-> 0]

QuotaTypeOK ==
  /\ today \in Days /\ limit \in Limits /\ ceiling \in Limits /\ errors \in 0 .. MaxErrors
  /\ usage \in [Days -> [exists : BOOLEAN, requests : Nat, tokens : Nat]]
  /\ req \in [Requests ->
       [at : {"idle", "count", "running", "charge", "done", "refused"}, tokens : Nat]]
  /\ admitted \in [Days -> SUBSET Requests]

QuotaInit ==
  /\ today = 1
  /\ limit \in Limits /\ ceiling = limit
  /\ usage = [d \in Days |-> NoRow]
  /\ req = [r \in Requests |-> [at |-> "idle", tokens |-> 0]]
  /\ admitted = [d \in Days |-> {}]
  /\ errors = 0

ReqAt(r, at) == req[r].at = at
ReqGoes(r, at) == req' = [req EXCEPT ![r].at = at]

(* _ensure_usage_row: INSERT OR IGNORE of today's row.                     *)
EnsureUsageRow ==
  usage' = [usage EXCEPT ![today] = IF @.exists THEN @ ELSE FreshRow]

BeginRequest(r) ==
  /\ ReqAt(r, "idle")
  /\ EnsureUsageRow
  /\ ReqGoes(r, "count")
  /\ UNCHANGED <<today, limit, ceiling, admitted, errors>>

(* Faulty: the limit is compared before the increment is added.            *)
WithinRequestsOff == usage[today].exists /\ usage[today].requests <= limit
(* The WHERE of the counting UPDATE, evaluated with the day it runs on.    *)
WithinRequests == usage[today].exists /\ usage[today].requests + 1 <= limit

(* consume_request's UPDATE: no row matched is OverQuotaError, a 429.      *)
CountRequest(r) ==
  /\ ReqAt(r, "count")
  /\ IF WithinRequests
     THEN /\ usage' = [usage EXCEPT ![today].requests = @ + 1]
          /\ admitted' = [admitted EXCEPT ![today] = @ \cup {r}]
          /\ ReqGoes(r, "running")
     ELSE ReqGoes(r, "refused") /\ UNCHANGED <<usage, admitted>>
  /\ UNCHANGED <<today, limit, ceiling, errors>>

(* Either write fails: QuotaMiddleware lets the request through uncounted. *)
CountFails(r) ==
  /\ req[r].at \in {"idle", "count"} /\ errors < MaxErrors
  /\ errors' = errors + 1
  /\ ReqGoes(r, "running")
  /\ UNCHANGED <<today, limit, ceiling, usage, admitted>>

(* The turn has answered; safe_consume_tokens begins.                      *)
EndTurn(r) ==
  /\ ReqAt(r, "running")
  /\ \E n \in Turns :
       req' = [req EXCEPT ![r].at = "charge", ![r].tokens = n]
  /\ EnsureUsageRow
  /\ UNCHANGED <<today, limit, ceiling, admitted, errors>>

WithinTokens(r) == usage[today].tokens + req[r].tokens <= limit

(* consume_tokens' UPDATE: tokens that do not fit the budget are dropped,  *)
(* since the answer is out already; so are those of a failed write.        *)
ChargeTokens(r) ==
  /\ ReqAt(r, "charge")
  /\ usage' = IF usage[today].exists /\ WithinTokens(r)
              THEN [usage EXCEPT ![today].tokens = @ + req[r].tokens] ELSE usage
  /\ ReqGoes(r, "done")
  /\ UNCHANGED <<today, limit, ceiling, admitted, errors>>

(* set_quota.                                                              *)
SetQuota ==
  /\ limit' \in Limits
  /\ ceiling' = IF limit' > ceiling THEN limit' ELSE ceiling
  /\ UNCHANGED <<today, usage, req, admitted, errors>>

Midnight ==
  /\ today < LastDay
  /\ today' = today + 1
  /\ UNCHANGED <<limit, ceiling, usage, req, admitted, errors>>

QuotaNext ==
  \/ SetQuota \/ Midnight
  \/ \E r \in Requests :
       BeginRequest(r) \/ CountRequest(r) \/ CountFails(r) \/ EndTurn(r) \/ ChargeTokens(r)

QuotaSpec == QuotaInit /\ [][QuotaNext]_quotaVars

-----------------------------------------------------------------------------
(* No interleaving of requests, midnights and limit changes lets a day's   *)
(* counters pass the highest limit there was, nor admits a request that    *)
(* the day's row does not count.                                           *)
DailyBudgetKept ==
  \A d \in Days :
    /\ usage[d].requests <= ceiling /\ usage[d].tokens <= ceiling
    /\ Cardinality(admitted[d]) = usage[d].requests

=============================================================================
