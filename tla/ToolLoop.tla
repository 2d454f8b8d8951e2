------------------------------ MODULE ToolLoop ------------------------------
(***************************************************************************)
(* One turn of a cloud model with tools: the SSE decoder of an OpenAI-like *)
(* stream (lmstudio/compat.py), the agentic loop around it (mcp/agentic.py)*)
(* and the streaming client that passes its events on.                     *)
(*                                                                         *)
(* The provider sends payloads in any order its protocol allows; a payload *)
(* that TCP cuts in two is lost, because every chunk is parsed by itself.  *)
(* One payload, with all the events it gives rise to, is one step.         *)
(***************************************************************************)
EXTENDS Naturals, FiniteSets, SequencesExt

CONSTANTS
  Slots,         \* indexes of the parallel tool calls of one response
  MaxRounds,     \* AgenticMcpProvider._max_rounds
  MaxCut,        \* bound: payloads that are cut in two, in the whole turn
  Anonymous      \* may the provider leave out the ids of its calls

ASSUME LoopAssumption ==
  /\ IsFiniteSet(Slots) /\ MaxRounds \in Nat \ {0} /\ MaxCut \in Nat
  /\ Anonymous \in BOOLEAN

VARIABLES
  loopAt,    \* where the turn is
  round,     \* the round, MaxRounds in the final pass without tools
  cut,       \* payloads that were cut so far
  crossed,   \* history: have arguments arrived while another call was being built
  decoder,   \* _CompatDecoderState
  building,  \* the call the loop is building: _pending_id, _pending_name, _pending_args
  gathered,  \* _accumulated_calls
  captured,  \* the calls to execute
  sawFinish, \* saw_tool_finish
  working,   \* what the loop added to working_history
  cards,     \* the tool cards of the client: started and ended ids
  frames     \* the terminal frames the client was sent

loopVars == <<loopAt, round, cut, crossed, decoder, building, gathered, captured, sawFinish,
              working, cards, frames>>

(* Ids: the provider's own for a slot of a round, none, or a fresh uuid.   *)
Blank == <<"blank", 0, 0>>
Given(s) == <<"given", round, s>>
Fresh(n) == <<"fresh", round, n>>
NoArgs == <<>>
ArgsOf(s) == <<round, s>>

NoCall == [named |-> FALSE, id |-> Blank, slot |-> 0, args |-> NoArgs]
FreshDecoder == [message |-> FALSE, reasoning |-> FALSE, finished |-> FALSE, ended |-> FALSE,
                 bufs |-> [s \in Slots |-> "new"]]

LoopInit ==
  /\ loopAt = "streaming" /\ round = 0
  /\ cut = 0 /\ crossed = FALSE
  /\ decoder = FreshDecoder
  /\ building = NoCall /\ gathered = <<>> /\ captured = <<>> /\ sawFinish = FALSE
  /\ working = <<>>
  /\ cards = [started |-> {}, ended |-> <<>>]
  /\ frames = <<>>

(* A response has no deltas after its finish_reason, but may repeat that.  *)
Streaming == loopAt = "streaming" /\ ~decoder.ended
Deltas == Streaming /\ ~decoder.finished
Final == round = MaxRounds
LoopOnly == UNCHANGED <<loopAt, round, captured, working, frames>>
Whole == UNCHANGED <<cut, crossed>>

-----------------------------------------------------------------------------
(* handle_delta.                                                           *)

Reasoning ==
  /\ Deltas
  /\ decoder' = [decoder EXCEPT !.reasoning = TRUE]
  /\ UNCHANGED <<building, gathered, sawFinish, cards>> /\ LoopOnly /\ Whole

Content ==
  /\ Deltas
  /\ decoder' = [decoder EXCEPT !.reasoning = FALSE, !.message = TRUE]
  /\ UNCHANGED <<building, gathered, sawFinish, cards>> /\ LoopOnly /\ Whole

(* Faulty: every call that is executed is given an id of its own.          *)
FlushedRenamed ==
  IF building.named THEN Append(gathered, [building EXCEPT !.id = Fresh(Len(gathered))])
  ELSE gathered

(* The call that was being built joins the gathered ones.                  *)
Flushed ==
  IF building.named
  THEN Append(gathered, IF building.id = Blank
                        THEN [building EXCEPT !.id = Fresh(Len(gathered))] ELSE building)
  ELSE gathered

(* Faulty: the id and the arguments of the previous call are not reset.    *)
ToolNameNoReset(s) ==
  /\ Deltas /\ ~Final
  /\ decoder.bufs[s] = "new"
  /\ \E id \in {Given(s), Blank} :
       /\ decoder' = [decoder EXCEPT !.bufs[s] = "named"]
       /\ gathered' = Flushed
       /\ building' = [named |-> TRUE, slot |-> s, args |-> building.args,
            id |-> IF id = Blank THEN building.id ELSE id]
       /\ cards' = [cards EXCEPT !.started = @ \cup {id}]
  /\ UNCHANGED sawFinish /\ LoopOnly /\ Whole

(* Faulty: the final pass takes tool events as well.                       *)
ToolNameInFinal(s) ==
  /\ Deltas /\ decoder.bufs[s] = "new"
  /\ decoder' = [decoder EXCEPT !.bufs[s] = "named"]
  /\ gathered' = Flushed
  /\ building' = [named |-> TRUE, slot |-> s, args |-> NoArgs, id |-> Given(s)]
  /\ cards' = [cards EXCEPT !.started = @ \cup {Given(s)}]
  /\ UNCHANGED sawFinish /\ LoopOnly /\ Whole

(* A tool call is announced: name and id come in its first delta, whether  *)
(* or not other calls still wait for their arguments. The loop builds one  *)
(* call at a time; in the final pass tool events are swallowed.            *)
ToolName(s) ==
  /\ Deltas
  /\ decoder.bufs[s] = "new"
  /\ \E id \in {Given(s)} \cup (IF Anonymous THEN {Blank} ELSE {}) :
       /\ decoder' = [decoder EXCEPT !.bufs[s] = "named"]
       /\ IF Final THEN UNCHANGED <<building, gathered, cards>>
          ELSE /\ gathered' = Flushed
               /\ building' = [named |-> TRUE, slot |-> s, args |-> NoArgs,
                    id |-> IF id = Blank THEN Fresh(Len(gathered')) ELSE id]
               /\ cards' = [cards EXCEPT !.started = @ \cup {id}]
  /\ UNCHANGED sawFinish /\ LoopOnly /\ Whole

(* The arguments of a call have become valid JSON. The loop gives them,    *)
(* and the id they carry, to the call it is building, which is another one *)
(* when that was announced meanwhile. A call whose name was lost has       *)
(* neither name nor id, but its arguments arrive.                          *)
ToolArguments(s) ==
  /\ Deltas
  /\ decoder.bufs[s] \in {"named", "nameless"}
  /\ decoder' = [decoder EXCEPT !.bufs[s] = "done"]
  /\ building' = IF Final THEN building
       ELSE [building EXCEPT !.args = ArgsOf(s),
               !.id = IF Given(s) \in cards.started THEN Given(s) ELSE @]
  /\ crossed' = (crossed \/ (building.named /\ building.slot # s))
  /\ UNCHANGED <<cut, gathered, sawFinish, cards>> /\ LoopOnly

(* Half a payload parses as nothing: a name is gone, or a piece of some    *)
(* arguments, which then never become valid.                               *)
CutPayload(s) ==
  /\ Deltas
  /\ cut < MaxCut /\ cut' = cut + 1
  /\ decoder.bufs[s] \in {"new", "named"}
  /\ decoder' = [decoder EXCEPT !.bufs[s] = IF @ = "new" THEN "nameless" ELSE "done"]
  /\ UNCHANGED <<crossed, building, gathered, sawFinish, cards>> /\ LoopOnly

-----------------------------------------------------------------------------
(* handle_finish and the end of a response.                                *)

Emit(frame) == frames' = Append(frames, frame)

(* finish_reason "tool_calls", of a response that has some: the decoder    *)
(* starts over, the loop collects what to execute and sends nothing on.    *)
FinishToolCalls ==
  /\ Streaming
  /\ decoder.finished \/ \E s \in Slots : decoder.bufs[s] # "new"
  /\ decoder' = [FreshDecoder EXCEPT !.finished = TRUE]
  /\ IF Final THEN UNCHANGED <<building, gathered, captured, sawFinish>>
     ELSE /\ captured' = captured \o Flushed
          /\ gathered' = <<>> /\ building' = NoCall /\ sawFinish' = TRUE
  /\ UNCHANGED <<loopAt, round, cut, crossed, working, cards, frames>>

(* The loop takes a chat.end: after calls it is swallowed, and a turn with *)
(* nothing to execute returns without a frame; the final pass sends its own*)
TakeChatEnd ==
  IF sawFinish
  THEN /\ loopAt' = IF captured # <<>> THEN "executing" ELSE "done"
       /\ UNCHANGED frames
  ELSE /\ Emit("chat.end")
       /\ loopAt' = "done"

(* finish_reason "stop" or "length", [DONE] or the end of the stream.      *)
ResponseEnds ==
  /\ Streaming
  /\ decoder' = [decoder EXCEPT !.reasoning = FALSE, !.message = FALSE, !.ended = TRUE]
  /\ TakeChatEnd
  /\ UNCHANGED <<round, cut, crossed, building, gathered, captured, sawFinish, working, cards>>

(* An error event, of the connection or of the provider: the client sends  *)
(* it on and closes the loop.                                              *)
UpstreamError ==
  /\ Streaming
  /\ Emit("error") /\ loopAt' = "done"
  /\ UNCHANGED <<round, cut, crossed, decoder, building, gathered, captured, sawFinish, working, cards>>

(* The inner provider raises: the final pass turns it into an error.       *)
InnerRaises ==
  /\ Streaming
  /\ IF Final THEN Emit("error") /\ loopAt' = "done"
     ELSE loopAt' = "raised" /\ UNCHANGED frames
  /\ UNCHANGED <<round, cut, crossed, decoder, building, gathered, captured, sawFinish, working, cards>>

-----------------------------------------------------------------------------
(* Execution of the captured calls, one after the other.                   *)

NextRound ==
  /\ round' = round + 1
  /\ loopAt' = "streaming"
  /\ UNCHANGED <<cut, crossed>>
  /\ decoder' = FreshDecoder
  /\ building' = NoCall /\ gathered' = <<>> /\ sawFinish' = FALSE

(* A builtin tool or the MCP host answers. A result and an error both end  *)
(* the card (tool_call.success, tool_call.failure) and both are history.   *)
ExecuteCall ==
  LET call == Head(captured) IN
  /\ loopAt = "executing"
  /\ captured' = Tail(captured)
  /\ cards' = [cards EXCEPT !.ended = Append(@, call.id)]
  /\ working' = working \o << [role |-> "assistant", id |-> call.id, args |-> call.args,
                               slot |-> call.slot, round |-> round],
                              [role |-> "tool", id |-> call.id] >>
  /\ IF Len(captured) = 1 THEN NextRound
     ELSE UNCHANGED <<loopAt, round, cut, crossed, decoder, building, gathered, sawFinish>>
  /\ UNCHANGED frames

(* The consumer closes the generator, at any event or await.               *)
TurnCancelled ==
  /\ loopAt \in {"streaming", "executing"}
  /\ loopAt' = "cancelled"
  /\ UNCHANGED <<round, cut, crossed, decoder, building, gathered, captured, sawFinish, working,
                 cards, frames>>

LoopStep ==
  \/ Reasoning \/ Content \/ FinishToolCalls \/ ResponseEnds \/ UpstreamError \/ InnerRaises \/ ExecuteCall
  \/ \E s \in Slots : ToolName(s) \/ ToolArguments(s) \/ CutPayload(s)

LoopNext == LoopStep \/ TurnCancelled

LoopSpec == LoopInit /\ [][LoopNext]_loopVars

-----------------------------------------------------------------------------
(* Properties.                                                             *)

LoopTypeOK ==
  /\ loopAt \in {"streaming", "executing", "done", "raised", "cancelled"}
  /\ round \in 0 .. MaxRounds
  /\ cut \in 0 .. MaxCut /\ crossed \in BOOLEAN
  /\ decoder \in [message : BOOLEAN, reasoning : BOOLEAN, finished : BOOLEAN, ended : BOOLEAN,
                   bufs : [Slots -> {"new", "named", "nameless", "done"}]]
  /\ sawFinish \in BOOLEAN
  /\ Final => captured = <<>> /\ ~building.named
  /\ frames \in Seq({"chat.end", "error"})

(* The transcript that the next round sends is one the provider accepts    *)
(* and is the model's own: however its calls are interleaved, each is there*)
(* once and is answered at once. As long as no arguments arrive while      *)
(* another call is being built, each has an id of its own and the arguments*)
(* the model gave it, or none when none were readable. (The loop gives     *)
(* arguments that arrive later to the wrong call: see the README.)         *)
OwnArguments(call) == call.args \in {NoArgs, <<call.round, call.slot>>}
TranscriptFaithful ==
  \A i \in 1 .. Len(working) :
    IF working[i].role = "assistant"
    THEN /\ i < Len(working) /\ working[i + 1].role = "tool" /\ working[i + 1].id = working[i].id
         /\ ~crossed => OwnArguments(working[i])
         /\ \A j \in 1 .. Len(working) : j # i /\ working[j].role = "assistant" =>
              /\ <<working[j].round, working[j].slot>> # <<working[i].round, working[i].slot>>
              /\ ~crossed => working[j].id # working[i].id
    ELSE i > 1 /\ working[i - 1].role = "assistant"

(* What the client is shown is settled. Every card that was opened under   *)
(* an id of its own by the time a round is over was closed under the same  *)
(* id, once ("a uuid4 threaded through .start -> .name -> .arguments ->    *)
(* .success"), unless arguments arrived while another call was being built,*)
(* which then took their id. A turn that ends by itself sends one terminal *)
(* frame, the last, and never a chat.end inside an open block.             *)
CardsClosed ==
  loopAt = "streaming" /\ decoder = FreshDecoder /\ ~crossed =>
    \A id \in cards.started \ {Blank} :
      Cardinality({i \in 1 .. Len(cards.ended) : cards.ended[i] = id}) = 1
OneTerminalFrame ==
  /\ cut = 0 => Len(frames) = IF loopAt = "done" THEN 1 ELSE 0
  /\ loopAt = "done" /\ frames = <<"chat.end">> => ~decoder.message /\ ~decoder.reasoning
ShownIsSettled == CardsClosed /\ OneTerminalFrame
=============================================================================
