------------------------------ MODULE RowState ------------------------------
(***************************************************************************)
(* The states of an assistant row and the guarded UPDATEs on it, shared by *)
(* the tables messages (ChatStream) and sub_session_messages (SubSession). *)
(*                                                                         *)
(* A row is a record with at least the fields state, text and form (its    *)
(* content) and age (of its last activity); a row that is not there has    *)
(* the state "absent". Each operator maps a row to the row the UPDATE      *)
(* leaves behind: its WHERE clause names the state it expects. The age is  *)
(* only ever asked of a draft: a row that leaves that state is given the   *)
(* age "fresh" for good.                                                   *)
(*                                                                         *)
(* The text counts the deltas a content is made from. A raw content is     *)
(* those deltas themselves. A terminal one is what resolve_terminal_content*)
(* makes of them, at chat.end after recover_xml_tool_calls: the same text, *)
(* one without leaked tool calls, one with a note, or, where they hold no  *)
(* answer, a notice or the reasoning. Which of these is not modelled.      *)
(***************************************************************************)
EXTENDS Naturals

PersistState == {"draft", "pending_finalization", "final", "aborted_by_client"}

(* _stream_state.transition: UPDATE ... WHERE id = :id AND state = :from.  *)
Transition(row, from, to) ==
  IF row.state = from THEN [row EXCEPT !.state = to, !.age = "fresh"] ELSE row

(* Faulty: an abort that does not look at the state it leaves.             *)
AbortAnyRow(row) == [row EXCEPT !.state = "aborted_by_client", !.age = "fresh"]

SafeAbortDraft(row) == Transition(row, "draft", "aborted_by_client")
FinalizePending(row) == Transition(row, "pending_finalization", "final")

(* Faulty: the state moves first, the content would be written later.      *)
ToPendingWithoutText(row, n) == Transition(row, "draft", "pending_finalization")

ContentForm == {"raw", "terminal"}

(* A draft leaves its state with the terminal content made from n deltas.  *)
Resolved(row, to, n) ==
  [row EXCEPT !.state = to, !.form = "terminal", !.text = n, !.age = "fresh"]

(* _finalize_message_impl, first transaction: content and state together.  *)
ToPending(row, n) ==
  IF row.state = "draft" THEN Resolved(row, "pending_finalization", n) ELSE row

(* _release_stuck_draft_impl: any of these rows. The content is written    *)
(* unless it is empty, and without a delta it may be empty or not.         *)
ReleaseDraft(row, n) ==
  IF row.state # "draft" THEN {row}
  ELSE {Resolved(row, "final", n)} \cup
       (IF n = 0 THEN {Transition(row, "draft", "final")} ELSE {})

(* The backfill of an aborted row is raw.                                  *)
SalvageAborted(row, n) ==
  IF row.state = "aborted_by_client" /\ n > 0
  THEN [row EXCEPT !.form = "raw", !.text = n] ELSE row

(* _CoalesceTimer.flush appends the n deltas of its buffer.                *)
FlushDraft(row, n) ==
  IF row.state = "draft" THEN [row EXCEPT !.text = @ + n, !.age = "fresh"] ELSE row

=============================================================================
