------------------------------ MODULE MCClient ------------------------------
(***************************************************************************)
(* Finite instances of what a user meets first: the login limit, logins    *)
(* and password changes, registrations, the daily quota, and the chat page *)
(* of the web client. They share no state, so each behaviour explores one  *)
(* of them while the others stay where they start.                         *)
(***************************************************************************)
EXTENDS LoginLimit, AuthSession, Registration, Quota, ChatPage

CONSTANT MaxActive   \* bound: logins and password changes of a behaviour

VARIABLE part

(* Bound: messages, logins and changes are alike, so the first of each is  *)
(* the first to start, and the first message starts in the first chat.     *)
(* Only what users begin is bound, and nobody owes a beginning.            *)
First(S) == CHOOSE x \in S : TRUE
FirstStarts(S, at(_), unused) == at(First(S)) # unused \/ \A x \in S : at(x) = unused
InTurn ==
  /\ FirstStarts(Messages, LAMBDA m : turns'[m].state, "unsent")
  /\ turns'[First(Messages)].state = "unsent" => page'.view = First(Chats)
  /\ FirstStarts(Logins, LAMBDA l : login'[l].at, "idle")
  /\ FirstStarts(Changes, LAMBDA c : change'[c].at, "idle")

Active == Cardinality({l \in Logins : login'[l].at # "idle"})
          + Cardinality({c \in Changes : change'[c].at # "idle"})

accountVars == <<limitVars, authVars, regVars, quotaVars>>
clientVars == <<part, accountVars, pageVars>>

ClientInit ==
  /\ part \in {"limit", "auth", "registration", "quota", "page"}
  /\ LimitInit /\ AuthInit /\ RegInit /\ QuotaInit /\ PageInit
  /\ part # "auth" => stored.of = (CHOOSE pw \in Passwords : TRUE) /\ ~stored.stale
  /\ part # "quota" => limit = CHOOSE l \in Limits : TRUE

ClientNext ==
  /\ \/ part = "limit" /\ LimitNext /\ UNCHANGED <<authVars, regVars, quotaVars, pageVars>>
     \/ part = "auth" /\ AuthNext /\ Active <= MaxActive
        /\ UNCHANGED <<limitVars, regVars, quotaVars, pageVars>>
     \/ part = "registration" /\ RegNext
        /\ UNCHANGED <<limitVars, authVars, quotaVars, pageVars>>
     \/ part = "quota" /\ QuotaNext /\ UNCHANGED <<limitVars, authVars, regVars, pageVars>>
     \/ part = "page" /\ PageNext /\ UNCHANGED accountVars
  /\ InTurn
  /\ UNCHANGED part

ClientSpec ==
  ClientInit /\ [][ClientNext]_clientVars /\ AuthFairness /\ PageFairness
=============================================================================
