------------------------------ MODULE TurnPump ------------------------------
(***************************************************************************)
(* The events of one turn on their way from the model to the row and the   *)
(* client: the streaming client with its detectors of repeated and failing *)
(* tool calls (lmstudio_streaming_client.py), and the two loops that read  *)
(* it, _run_persist_and_yield for a chat and _sub_session_core for a       *)
(* sub-session, with the retry without tools, the cut of a runaway tool    *)
(* loop and the choice of what is kept (substance_fold.py).                *)
(*                                                                         *)
(* A text is the set of what it contains, reasoning whether it is long     *)
(* enough to stand for an answer. Memory, titles, follow-ups and counters  *)
(* across turns are left out; what becomes of the row is in ChatStream and *)
(* SubSession.                                                             *)
(***************************************************************************)
EXTENDS Naturals, FiniteSets, SequencesExt

CONSTANTS
  Tools, Args,      \* a call is a tool with its arguments
  Lookback,         \* REPEAT_LOOKBACK_TOOLCALLS
  FailureStreak,    \* FAILURE_STREAK_THRESHOLD
  RepeatK,          \* the effective repeat_warning_cut_k
  IdenticalCap,     \* _MAX_IDENTICAL_TOOL_ROUNDS
  RoundsCap,        \* _MAX_TOOL_ROUNDS_PER_TURN
  NoCallYet         \* no call: none is open, none has succeeded

Calls == [tool : Tools, args : Args]
Parts == {"noise", "leaked", "answer"}

(* Zero would switch a limit off.                                          *)
ASSUME PumpAssumption ==
  /\ NoCallYet \notin Calls
  /\ {Lookback, FailureStreak, RepeatK, IdenticalCap, RoundsCap} \subseteq Nat \ {0}

VARIABLES
  asked,     \* what the turn is: its surface, is it LM Studio's, are tools offered
  pumpAt,    \* streaming, probing, recording, closed
  open,      \* the tool call that the model has begun
  detector,  \* recent_calls and failure_streaks of LmstudioStreamingClient.stream
  pump,      \* the accumulators of the loop
  sent,      \* warnings and terminal frames the client was sent
  ending,    \* how the turn ends and the kind of its content (TerminalContent.kind)
  kept,      \* what the finalization stored
  ended      \* the calls that ended in this attempt, all and those announced (history)

pumpVars == <<asked, pumpAt, open, detector, pump, sent, ending, kept, ended>>

FreshDetector == [recent |-> <<>>, failures |-> [t \in Tools |-> 0]]
NoneEnded == [all |-> <<>>, seen |-> <<>>]
Undecided == [by |-> "none", kind |-> "none"]

PumpInit ==
  /\ asked \in [surface : {"chat", "sub"}, native : BOOLEAN, tools : BOOLEAN]
  /\ asked.surface = "sub" => asked.native
  /\ pumpAt = "streaming" /\ open = NoCallYet
  /\ detector = FreshDetector
  /\ pump = [text |-> {}, parked |-> FALSE, cards |-> <<>>, rounds |-> 0,
             last |-> NoCallYet, identical |-> 0, warned |-> [c \in Calls |-> 0],
             announced |-> FALSE, emitted |-> FALSE, degraded |-> FALSE]
  /\ sent = <<>> /\ ending = Undecided /\ kept = Undecided /\ ended = NoneEnded

InChat == asked.surface = "chat"
Offered == asked.tools /\ ~pump.degraded
Reading == pumpAt = "streaming"
Tell(f) == sent' = Append(sent, f)
Decide(by, kind) == ending' = [by |-> by, kind |-> kind]

-----------------------------------------------------------------------------
(* What is kept of a turn.                                                 *)

(* _has_real_answer: leaked markup has letters, noise has none.            *)
HasRealAnswer(text) == text \cap {"answer", "leaked"} # {}

(* resolve_terminal_content with substance_fold.                           *)
TerminalKind(text, parked, tooled, wasCut) ==
  CASE HasRealAnswer(text) -> IF wasCut THEN "answer_capped" ELSE "answer"
    [] ~HasRealAnswer(text) /\ (tooled \/ wasCut) -> "graceful"
    [] ~HasRealAnswer(text) /\ ~(tooled \/ wasCut) -> IF parked THEN "salvaged" ELSE "empty"

-----------------------------------------------------------------------------
(* Text.                                                                   *)

TextDelta(part) ==
  /\ Reading /\ open = NoCallYet /\ part \notin pump.text
  /\ pump' = [pump EXCEPT !.text = @ \cup {part}, !.emitted = TRUE]
  /\ UNCHANGED <<asked, pumpAt, open, detector, sent, ending, kept, ended>>

ReasoningDelta ==
  /\ Reading /\ open = NoCallYet /\ ~pump.parked
  /\ pump' = [pump EXCEPT !.parked = TRUE, !.emitted = TRUE]
  /\ UNCHANGED <<asked, pumpAt, open, detector, sent, ending, kept, ended>>

-----------------------------------------------------------------------------
(* Tool calls. A call's start, name and arguments are one step.            *)

CallBegins(c) ==
  /\ Reading /\ open = NoCallYet /\ Offered
  /\ open' = c
  /\ pump' = [pump EXCEPT !.cards = Append(@, "pending"), !.announced = TRUE, !.emitted = TRUE]
  /\ UNCHANGED <<asked, pumpAt, detector, sent, ending, kept, ended>>

(* _accumulate_tool_call for the end of a call: one that was not announced *)
(* is given the id of the call before it.                                  *)
ClosedCards(ok) ==
  LET cards == IF pump.cards = <<>> THEN <<"pending">> ELSE pump.cards
  IN [cards EXCEPT ![Len(cards)] = IF ok THEN "success" ELSE "failure"]

(* Faulty: a failed call counts as a repetition too.                       *)
FoldedAnyway(c, ok) ==
  [pump EXCEPT !.cards = ClosedCards(ok), !.emitted = TRUE, !.rounds = @ + 1,
     !.last = IF InChat THEN c ELSE @,
     !.identical = IF ~InChat THEN @ ELSE IF c = pump.last THEN @ + 1 ELSE 0]

(* _apply_tool_call_delta for the end of a call. Only a chat counts        *)
(* identical calls.                                                        *)
Folded(c, ok) ==
  [pump EXCEPT !.cards = ClosedCards(ok), !.emitted = TRUE, !.rounds = @ + 1,
     !.last = IF ok /\ InChat THEN c ELSE @,
     !.identical = IF ~(ok /\ InChat) THEN @ ELSE IF c = pump.last THEN @ + 1 ELSE 0]

(* _decide_loop_cut after the end of a call.                               *)
LoopCut(p) ==
  \/ p.identical >= IdenticalCap
  \/ p.rounds > RoundsCap

(* _finalize_tool_loop_cut, and the cap of _sub_session_core, which tells  *)
(* the client before it records.                                           *)
CutLoop(p) ==
  /\ pump' = p /\ pumpAt' = "recording"
  /\ Decide("cap", TerminalKind(p.text, p.parked, TRUE, TRUE))
  /\ sent' = IF InChat THEN sent ELSE sent \o <<"warning", "complete">>

(* The loop takes in the end of a call.                                    *)
TakeEnd(p) ==
  \/ LoopCut(p) /\ CutLoop(p)
  \/ ~LoopCut(p) /\ pump' = p /\ UNCHANGED <<pumpAt, ending, sent>>

(* The client has seen this call succeed before, whatever comes of it now. *)
Repeated(c) == \E i \in DOMAIN detector.recent : detector.recent[i] = [call |-> c, ok |-> TRUE]

Remember(c, ok) ==
  detector' = [recent |-> LET all == Append(detector.recent, [call |-> c, ok |-> ok])
                          IN IF Len(all) > Lookback THEN Tail(all) ELSE all,
               failures |-> [detector.failures EXCEPT ![c.tool] = IF ok THEN 0 ELSE @ + 1]]

Warned(c) == IF Repeated(c) THEN [pump EXCEPT !.warned[c] = @ + 1] ELSE pump

(* _track_loop_cut_signals: the client's warnings come before the event    *)
(* they are about, which is then never read.                               *)
CutEarly(c, ok) ==
  \/ Repeated(c) /\ Warned(c).warned[c] >= RepeatK
  \/ ~ok /\ detector.failures[c.tool] + 1 >= FailureStreak

CallEnds(ok) ==
  /\ Reading /\ open # NoCallYet
  /\ open' = NoCallYet
  /\ Remember(open, ok)
  /\ LET e == [call |-> open, ok |-> ok]
     IN ended' = [all |-> Append(ended.all, e), seen |-> Append(ended.seen, e)]
  /\ \/ InChat /\ CutEarly(open, ok) /\ CutLoop(Warned(open))
     \/ /\ ~(InChat /\ CutEarly(open, ok))
        /\ TakeEnd([Folded(open, ok) EXCEPT !.warned = Warned(open).warned])
  /\ UNCHANGED <<asked, kept>>

(* LM Studio's native surface may report the end of a call it ran itself   *)
(* without having announced it: the client's detectors do not see it.      *)
UnannouncedEnd(c, ok) ==
  /\ Reading /\ open = NoCallYet /\ Offered /\ asked.native
  /\ ended' = [ended EXCEPT !.all = Append(@, [call |-> c, ok |-> ok])]
  /\ TakeEnd(Folded(c, ok))
  /\ UNCHANGED <<asked, open, detector, kept>>

-----------------------------------------------------------------------------
(* The ends of a stream.                                                   *)

(* _build_toolless_retry_iter and _build_toolless_request: the same turn   *)
(* again without tools, on a fresh stream. A sub-session forgets that a    *)
(* call was announced and how many ended, a chat forgets nothing.          *)
Degrade ==
  /\ Tell("warning")
  /\ pumpAt' = "streaming" /\ open' = NoCallYet /\ detector' = FreshDetector
  /\ pump' = IF InChat THEN [pump EXCEPT !.degraded = TRUE]
             ELSE [pump EXCEPT !.degraded = TRUE, !.announced = FALSE, !.rounds = 0]
  /\ ended' = NoneEnded
  /\ UNCHANGED <<asked, ending, kept>>

(* _grammar_degrade_eligible: a sub-session looks at the text only.        *)
DegradeEligible(detail) ==
  /\ asked.native /\ asked.tools /\ ~pump.degraded
  /\ IF InChat THEN ~pump.emitted ELSE pump.text = {}
  /\ detail = "grammar"

EndWith(frame) ==
  /\ Tell(frame) /\ pumpAt' = "closed"
  /\ UNCHANGED <<asked, open, detector, pump, ending, kept, ended>>

(* A sub-session tells the client of its answer, then records it.          *)
Complete(by, kind) ==
  /\ Tell("complete") /\ Decide(by, kind) /\ pumpAt' = "recording"
  /\ UNCHANGED <<asked, open, detector, pump, kept, ended>>

(* An error event ends the turn, unless the turn may be repeated. The      *)
(* client reports a malformed call ("format") itself, at the end of a call *)
(* whose arguments cannot be repaired.                                     *)
ErrorInChat(detail) ==
  /\ Reading /\ InChat /\ (detail = "format" => Offered)
  /\ IF DegradeEligible(detail) THEN Degrade ELSE EndWith("error")

ErrorInSub(detail) ==
  /\ Reading /\ ~InChat /\ (detail = "format" => Offered)
  /\ IF DegradeEligible(detail) THEN Degrade
     ELSE IF detail = "format" /\ pump.text # {} THEN Complete("partial", "answer")
     ELSE EndWith("error")

(* The stream ends with neither chat.end nor an error: the reason has to   *)
(* be asked for.                                                           *)
AskWhy ==
  /\ pumpAt' = "probing"
  /\ UNCHANGED <<asked, open, detector, pump, sent, ending, kept, ended>>

ExhaustedInChat ==
  /\ Reading /\ InChat
  /\ IF asked.native THEN AskWhy ELSE EndWith("error")

CompleteExhausted ==
  Complete("exhausted", TerminalKind(pump.text, pump.parked, pump.announced, FALSE))

ExhaustedInSub ==
  /\ Reading /\ ~InChat
  /\ IF pump.text = {} /\ asked.tools THEN AskWhy ELSE CompleteExhausted

(* probe_for_error: the request is sent again to learn what was wrong.     *)
ProbeInChat(detail) ==
  /\ pumpAt = "probing" /\ InChat
  /\ IF DegradeEligible(detail) THEN Degrade ELSE EndWith("error")

ProbeInSub(detail) ==
  /\ pumpAt = "probing" /\ ~InChat
  /\ IF DegradeEligible(detail) THEN Degrade
     ELSE IF detail # "nothing" THEN EndWith("error") ELSE CompleteExhausted

(* Nothing has come for too long: the stall event of _watch_disconnect,    *)
(* and the exception it raises when nobody waits for that event. Of a      *)
(* sub-session that stalls the client is told nothing (see SubSession).    *)
Stall == pumpAt \in {"streaming", "probing"} /\ InChat /\ EndWith("error")

(* recover_xml_tool_calls: leaked calls become failed cards.               *)
Recovered ==
  IF "leaked" \in pump.text
  THEN [pump EXCEPT !.text = @ \ {"leaked"}, !.cards = Append(@, "failure")] ELSE pump

(* Faulty: whether tools ran is asked of the rounds only.                  *)
ChatEndByRounds ==
  /\ Reading /\ InChat
  /\ Tell("end")
  /\ pump' = Recovered /\ pumpAt' = "recording"
  /\ Decide("end", TerminalKind(Recovered.text, pump.parked, pump.rounds > 0, FALSE))
  /\ UNCHANGED <<asked, open, detector, kept, ended>>

(* chat.end. A chat passes the event on before it records, a sub-session   *)
(* tells its client what it will record.                                   *)
ChatEndInChat ==
  /\ Reading /\ InChat
  /\ Tell("end")
  /\ pump' = Recovered /\ pumpAt' = "recording"
  /\ Decide("end", TerminalKind(Recovered.text, pump.parked,
                     Recovered.cards # <<>> \/ pump.rounds > 0, FALSE))
  /\ UNCHANGED <<asked, open, detector, kept, ended>>

ChatEndInSub ==
  /\ Reading /\ ~InChat
  /\ LET kind == TerminalKind(pump.text, pump.parked, pump.announced, FALSE)
     IN IF kind = "graceful" THEN EndWith("error") ELSE Complete("end", kind)

(* _finalize_message or _on_success, which say whether they succeeded. The *)
(* client of a chat learns of a cut loop only now.                         *)
Record(ok) ==
  /\ pumpAt = "recording"
  /\ pumpAt' = "closed"
  /\ kept' = IF ok THEN ending ELSE kept
  /\ sent' = IF InChat /\ ending.by = "cap" THEN sent \o <<"warning", "end">> ELSE sent
  /\ UNCHANGED <<asked, open, detector, pump, ending, ended>>

PumpNext ==
  \/ \E part \in Parts : TextDelta(part)
  \/ ReasoningDelta
  \/ \E c \in Calls : CallBegins(c) \/ \E ok \in BOOLEAN : UnannouncedEnd(c, ok)
  \/ \E ok \in BOOLEAN : CallEnds(ok) \/ Record(ok)
  \/ \E detail \in {"grammar", "format", "other"} : ErrorInChat(detail) \/ ErrorInSub(detail)
  \/ \E detail \in {"grammar", "other", "nothing"} : ProbeInChat(detail) \/ ProbeInSub(detail)
  \/ ExhaustedInChat \/ ExhaustedInSub
  \/ ChatEndInChat \/ ChatEndInSub
  \/ Stall

PumpSpec == PumpInit /\ [][PumpNext]_pumpVars

-----------------------------------------------------------------------------
(* Properties.                                                             *)

(* Every variable has its type.                                            *)
PumpTypeOK ==
  /\ pumpAt \in {"streaming", "probing", "recording", "closed"}
  /\ open \in Calls \cup {NoCallYet}
  /\ Len(detector.recent) <= Lookback /\ detector.failures \in [Tools -> Nat]
  /\ pump.text \subseteq Parts /\ pump.cards \in Seq({"pending", "success", "failure"})
  /\ pump.rounds \in 0 .. RoundsCap + 1 /\ pump.identical \in 0 .. IdenticalCap
  /\ sent \in Seq({"warning", "end", "complete", "error"})

(* What the detectors are for, said of the calls that have ended: a call   *)
(* that had succeeded shortly before was made again RepeatK times, a tool  *)
(* has failed FailureStreak times in a row, the calls that succeeded last  *)
(* were the same IdenticalCap times over, or there were too many of them.  *)
Repetitions(s, c) ==
  {i \in DOMAIN s : /\ s[i].call = c
                    /\ \E j \in 1 .. i - 1 : i - j <= Lookback /\ s[j] = [call |-> c, ok |-> TRUE]}
FailingRun(s, t) ==
  {i \in DOMAIN s : s[i].call.tool = t /\ \A j \in i .. Len(s) : s[j].call.tool = t => ~s[j].ok}
SameRun(s, c) ==
  {i \in DOMAIN s : s[i].ok /\ \A j \in i .. Len(s) : s[j].ok => s[j].call = c}
IsLoop ==
  \/ Len(ended.all) > RoundsCap
  \/ InChat /\ \/ \E c \in Calls : \/ Cardinality(Repetitions(ended.seen, c)) >= RepeatK
                                   \/ Cardinality(SameRun(ended.all, c)) > IdenticalCap
               \/ \E t \in Tools : Cardinality(FailingRun(ended.seen, t)) >= FailureStreak

(* A tool loop is cut as soon as it is one, and only then: flaky tools     *)
(* that are tried again, and calls that differ, go on                      *)
(* (_apply_tool_call_delta: "fail -> retry with same args is legitimate"). *)
OnlyLoopsAreCut == IsLoop <=> ending.by = "cap"

(* The frames that tell the client of the end.                             *)
Terminal == {i \in DOMAIN sent : sent[i] # "warning"}

(* A turn tells its client once how it ended; what is kept of it was not   *)
(* announced as an error; and in a chat no tool that ran is left over from *)
(* an attempt that was taken back, and neither reasoning about tools nor   *)
(* leaked markup is passed off as an answer (resolve_terminal_content:     *)
(* "NEVER dump the raw reasoning").                                        *)
EndIsTruthful ==
  /\ \A i, j \in Terminal : i = j
  /\ pumpAt = "closed" => Terminal # {}
  /\ kept # Undecided => \A i \in Terminal : sent[i] # "error"
  /\ InChat /\ pump.degraded => \A i \in DOMAIN pump.cards : pump.cards[i] = "failure"
  /\ InChat /\ kept.kind = "salvaged" => pump.cards = <<>>
  /\ InChat /\ kept.by = "end" /\ kept.kind = "answer" => "answer" \in pump.text
=============================================================================
