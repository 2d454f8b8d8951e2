------------------------------- MODULE TurnLog -------------------------------
(***************************************************************************)
(* What a chat history promises to everyone who reads it, whatever streams *)
(* write it.                                                               *)
(*                                                                         *)
(* A slot holds the assistant turn of one message id. A chat is open for a *)
(* new turn only while it has none open. What is saved of an open turn     *)
(* grows, until the turn is given its terminal content, made from no less  *)
(* than was saved before (which need not contain it: an answer may be      *)
(* stripped, or replaced by a notice). A terminal content is never touched *)
(* again, and its turn cannot be interrupted any more. An interrupted turn *)
(* may still gain what had not been saved, an answered one is frozen. A    *)
(* turn that is over disappears only because the user removed it.          *)
(***************************************************************************)
EXTENDS Naturals

CONSTANTS Chats, Slots, MaxText

VARIABLE log    \* the turn of every slot

Phase == {"open", "answered", "interrupted"}
LoggedTurn == [chat : Chats, phase : Phase, text : 0 .. MaxText, form : {"raw", "terminal"}]
Vacant == [phase |-> "vacant"]

Open(c) == {i \in Slots : log[i].phase = "open" /\ log[i].chat = c}

Init == log = [i \in Slots |-> Vacant]

Begin(i, c) ==
  /\ Open(c) = {}
  /\ log[i] = Vacant
  /\ log' = [log EXCEPT ![i] = [chat |-> c, phase |-> "open", text |-> 0, form |-> "raw"]]

(* More of the answer is saved. A partial answer is never taken back.      *)
Write(i) ==
  /\ log[i].phase \in {"open", "interrupted"} /\ log[i].form = "raw"
  /\ \E n \in log[i].text .. MaxText : log' = [log EXCEPT ![i].text = n]

(* The turn is given its terminal content, before or as it is answered.    *)
Resolve(i) ==
  /\ log[i].phase = "open" /\ log[i].form = "raw"
  /\ \E n \in log[i].text .. MaxText, p \in {"open", "answered"} :
       log' = [log EXCEPT ![i] = [chat |-> @.chat, phase |-> p, text |-> n, form |-> "terminal"]]

Answer(i) ==
  /\ log[i].phase = "open"
  /\ log' = [log EXCEPT ![i].phase = "answered"]

Interrupt(i) ==
  /\ log[i].phase = "open" /\ log[i].form = "raw"
  /\ log' = [log EXCEPT ![i].phase = "interrupted"]

(* Turns nobody works on any more are closed together, or dropped.         *)
Sweep(S) ==
  /\ \A i \in S : log[i].phase = "open"
  /\ \/ log' = [i \in Slots |-> IF i \in S THEN [log[i] EXCEPT !.phase = "answered"] ELSE log[i]]
     \/ log' = [i \in Slots |-> IF i \in S THEN Vacant ELSE log[i]]

(* The user removes part of one chat.                                      *)
Remove(S, c) ==
  /\ \A i \in S : log[i].phase # "vacant" /\ log[i].chat = c
  /\ log' = [i \in Slots |-> IF i \in S THEN Vacant ELSE log[i]]

Next ==
  \/ \E i \in Slots : Write(i) \/ Resolve(i) \/ Answer(i) \/ Interrupt(i)
  \/ \E i \in Slots, c \in Chats : Begin(i, c)
  \/ \E S \in SUBSET Slots : Sweep(S) \/ \E c \in Chats : Remove(S, c)

Spec == Init /\ [][Next]_log

=============================================================================
