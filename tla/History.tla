------------------------------- MODULE History -------------------------------
(***************************************************************************)
(* What the model is told of a chat: its messages, and the summaries that  *)
(* stand for the archived ones (ChatService.compact, clear_messages, fork; *)
(* MessageService.delete and the two regenerate deletions;                 *)
(* StreamingService._load_replay_history).                                 *)
(*                                                                         *)
(* A turn is two rows, the user's and the answer's. Compaction holds the   *)
(* chat lock through a model call of minutes; turns only enter under the   *)
(* lock, the regenerate deletions and a fork do not take it.               *)
(***************************************************************************)
EXTENDS Naturals, FiniteSets, FiniteSetsExt

CONSTANTS
  Compactors,  \* requests to compact the chat
  NoCompactor,
  MaxTurns,    \* bound: turns of the chat
  MaxSpans,    \* bound: archived spans
  MaxDeletions \* bound: deletions of messages

ASSUME HistoryAssumption ==
  /\ NoCompactor \notin Compactors /\ MaxTurns \in Nat /\ MaxSpans \in Nat
  /\ MaxDeletions \in Nat

Ids == 1 .. 2 * MaxTurns
UserIds == {2 * t - 1 : t \in 1 .. MaxTurns}
Spans == 1 .. MaxSpans

VARIABLES
  row,      \* messages: the state of each row, the user's rows are final
  span,     \* messages.compaction_id, 0 when the row is active
  summary,  \* compactions: which rows its text tells of, and its anchor
  lock,     \* who of Compactors holds the chat lock
  work,     \* each compaction: where it is, the rows it read, the runs it chose
  resend,   \* the regenerate deletion under way: from which row, 0 when none
  deletions,\* how many deletions there were
  fork      \* the fork: the span each copied row had, which are hidden, what is told

historyVars == <<row, span, summary, lock, work, resend, deletions, fork>>

NoSummary == [exists |-> FALSE, tells |-> {}, read |-> {}, anchor |-> 0]
NoWork == [at |-> "idle", read |-> {}, runs |-> {}]
NoFork == [at |-> "idle", of |-> [i \in Ids |-> 0], hidden |-> {}, told |-> {}]

HistoryTypeOK ==
  /\ row \in [Ids -> {"unborn", "draft", "final", "aborted", "gone"}]
  /\ span \in [Ids -> 0 .. MaxSpans]
  /\ summary \in [Spans -> [exists : BOOLEAN, tells : SUBSET Ids, read : SUBSET Ids, anchor : 0 .. 2 * MaxTurns]]
  /\ lock \in Compactors \cup {NoCompactor}
  /\ \A c \in Compactors : work[c].at \in {"idle", "distill", "done"}
  /\ resend \in 0 .. 2 * MaxTurns
  /\ deletions \in 0 .. MaxDeletions
  /\ fork.at \in {"idle", "copied", "done"}

HistoryInit ==
  /\ row = [i \in Ids |-> "unborn"]
  /\ span = [i \in Ids |-> 0]
  /\ summary = [k \in Spans |-> NoSummary]
  /\ lock = NoCompactor
  /\ work = [c \in Compactors |-> NoWork]
  /\ resend = 0
  /\ deletions = 0
  /\ fork = NoFork

Existing == {i \in Ids : row[i] \notin {"unborn", "gone"}}
(* _remembered_turn_state, of rows that are not archived.                  *)
Remembered == {i \in Ids : row[i] \in {"final", "aborted"} /\ span[i] = 0}
Written == {k \in Spans : summary[k].exists}

-----------------------------------------------------------------------------
(* Turns of StreamingService.                                              *)

StartTurn ==
  /\ lock = NoCompactor
  /\ \A i \in Ids : row[i] # "draft"
  /\ \E t \in 1 .. MaxTurns :
       /\ row[2 * t] = "unborn" /\ \A u \in 1 .. t - 1 : row[2 * u] # "unborn"
       /\ row' = [row EXCEPT ![2 * t - 1] = "final", ![2 * t] = "draft"]
  /\ UNCHANGED <<span, summary, lock, work, resend, deletions, fork>>

(* The answer ends complete, or cut by a disconnect with some text (one    *)
(* without is never told: as good as deleted).                             *)
EndTurn(i) ==
  /\ row[i] = "draft"
  /\ \E how \in {"final", "aborted", "gone"} : row' = [row EXCEPT ![i] = how]
  /\ UNCHANGED <<span, summary, lock, work, resend, deletions, fork>>

-----------------------------------------------------------------------------
(* ChatService.compact                                                     *)

Eligible == {i \in Ids : row[i] = "final" /\ span[i] = 0}
Protected == IF Eligible \cap UserIds = {} THEN {} ELSE {Max(Eligible \cap UserIds)}

(* The dropped rows in maximal runs that are contiguous among those read.  *)
RunsOf(read, drop) ==
  {run \in (SUBSET drop) \ {{}} :
     /\ \A i \in read : Min(run) <= i /\ i <= Max(run) => i \in run
     /\ \A i \in drop \ run :
          \E j \in read \ drop : (Min(run) > j /\ j > i) \/ (Max(run) < j /\ j < i)}

(* Faulty: the chat lock is not taken.                                     *)
BeginCompactUnlocked(c) ==
  /\ work[c].at = "idle"
  /\ \E upto \in Eligible :
       LET drop == {i \in Eligible \ Protected : i <= upto} IN
       /\ drop # {}
       /\ work' = [work EXCEPT ![c] =
            [at |-> "distill", read |-> Eligible, runs |-> RunsOf(Eligible, drop)]]
  /\ UNCHANGED <<row, span, summary, lock, resend, deletions, fork>>

(* The lock is taken, the settled active rows are read, and the oldest     *)
(* ones but the protected, as many as the target asks for, are chosen.     *)
BeginCompact(c) ==
  /\ work[c].at = "idle" /\ lock = NoCompactor
  /\ lock' = c
  /\ \E upto \in Eligible :
       LET drop == {i \in Eligible \ Protected : i <= upto} IN
       /\ drop # {}
       /\ work' = [work EXCEPT ![c] =
            [at |-> "distill", read |-> Eligible, runs |-> RunsOf(Eligible, drop)]]
  /\ UNCHANGED <<row, span, summary, resend, deletions, fork>>

EndCompact(c) ==
  /\ work' = [work EXCEPT ![c] = [NoWork EXCEPT !.at = "done"]]
  /\ lock' = NoCompactor

(* A summary call fails: nothing is archived.                              *)
AbortCompact(c) ==
  /\ work[c].at = "distill"
  /\ EndCompact(c)
  /\ UNCHANGED <<row, span, summary, resend, deletions, fork>>

(* Every run has been summarised: one compactions row each, and the rows   *)
(* of the run that are still there point to it, in one transaction.        *)
Archive(c) ==
  LET runs == work[c].runs
      spanOf(run) == Cardinality({k \in Spans : summary[k] # NoSummary})
                       + Cardinality({r \in runs : Min(r) <= Min(run)})
  IN /\ work[c].at = "distill"
     /\ \A run \in runs : spanOf(run) \in Spans
     /\ summary' = [k \in Spans |->
          IF \E run \in runs : spanOf(run) = k
          THEN LET run == CHOOSE r \in runs : spanOf(r) = k
               IN [exists |-> TRUE, tells |-> run, read |-> work[c].read, anchor |-> Min(run)]
          ELSE summary[k]]
     /\ span' = [i \in Ids |->
          IF i \in Existing /\ \E run \in runs : i \in run
          THEN spanOf(CHOOSE run \in runs : i \in run) ELSE span[i]]
     /\ EndCompact(c)
     /\ UNCHANGED <<row, resend, deletions, fork>>

-----------------------------------------------------------------------------
(* Deletions.                                                              *)

Delete(gone) ==
  /\ deletions < MaxDeletions /\ deletions' = deletions + 1
  /\ row' = [i \in Ids |-> IF i \in gone THEN "gone" ELSE row[i]]

(* DELETE /api/messages/{id}, under the chat lock.                         *)
DeleteMessage(i) ==
  /\ lock = NoCompactor /\ i \in Existing
  /\ Delete({i})
  /\ UNCHANGED <<span, summary, lock, work, resend, fork>>

(* regenerate: the boundary is looked up (of an answer, the user row       *)
(* before it) ...                                                          *)
FindBoundary(i) ==
  /\ resend = 0 /\ i \in Existing /\ deletions < MaxDeletions
  /\ LET prior == {j \in Existing \cap UserIds : j <= i} IN
     resend' = IF prior = {} THEN i ELSE Max(prior)
  /\ UNCHANGED <<row, span, summary, lock, work, deletions, fork>>

(* ... and everything from there on deleted, without the chat lock.        *)
DeleteFromBoundary ==
  /\ resend # 0
  /\ Delete({i \in Existing : i >= resend})
  /\ resend' = 0
  /\ UNCHANGED <<span, summary, lock, work, fork>>

(* clear_messages: messages and compactions in one transaction.            *)
ClearMessages ==
  /\ lock = NoCompactor
  /\ Delete(Existing)
  /\ summary' = [k \in Spans |-> [summary[k] EXCEPT !.exists = FALSE]]
  /\ UNCHANGED <<span, lock, work, resend, fork>>

-----------------------------------------------------------------------------
(* ChatService.fork: the rows up to a message are copied first ...         *)
ForkRows(upto) ==
  /\ fork.at = "idle" /\ upto \in Existing
  /\ fork' = [NoFork EXCEPT !.at = "copied",
       !.of = [i \in Ids |-> IF i \in Existing /\ i <= upto THEN span[i] ELSE 0]]
  /\ UNCHANGED <<row, span, summary, lock, work, resend, deletions>>

(* Faulty: a copied row keeps its span also when that was not copied.      *)
ForkSpansAll ==
  /\ fork.at = "copied"
  /\ fork' = [fork EXCEPT !.at = "done",
       !.hidden = {i \in Ids : fork.of[i] # 0},
       !.told = UNION {summary[k].tells : k \in {fork.of[i] : i \in Ids} \cap Written}]
  /\ UNCHANGED <<row, span, summary, lock, work, resend, deletions>>

(* ... then every compaction they point to that is still there, and the    *)
(* copied rows point to the copies.                                        *)
ForkSpans ==
  /\ fork.at = "copied"
  /\ fork' = [fork EXCEPT !.at = "done",
       !.hidden = {i \in Ids : fork.of[i] \in Written},
       !.told = UNION {summary[k].tells : k \in {fork.of[i] : i \in Ids} \cap Written}]
  /\ UNCHANGED <<row, span, summary, lock, work, resend, deletions>>

HistoryNext ==
  \/ StartTurn \/ DeleteFromBoundary \/ ClearMessages \/ ForkSpans
  \/ \E i \in Ids : EndTurn(i) \/ DeleteMessage(i) \/ FindBoundary(i) \/ ForkRows(i)
  \/ \E c \in Compactors : BeginCompact(c) \/ AbortCompact(c) \/ Archive(c)

HistorySpec == HistoryInit /\ [][HistoryNext]_historyVars

-----------------------------------------------------------------------------
(* No message is told of by two summaries, and a summary is replayed in    *)
(* its place: _load_replay_history puts it before the messages that are    *)
(* younger than its anchor, and a settled message that compaction saw and  *)
(* kept is never told after a summary of later ones. (An answer that       *)
(* compaction did not see because a disconnect had cut it can be.)         *)
SummariesInPlace ==
  \A k \in Written :
    /\ \A l \in Written \ {k} : summary[k].tells \cap summary[l].tells = {}
    /\ \A m \in Remembered \cap summary[k].read :
         summary[k].anchor <= m => \A i \in summary[k].tells : i <= m

(* A message leaves the model's memory, here and in a fork, only for a     *)
(* summary that tells of it and that is still replayed.                    *)
NothingForgotten ==
  /\ \A i \in Existing : span[i] # 0 => span[i] \in Written /\ i \in summary[span[i]].tells
  /\ fork.at = "done" => fork.hidden \subseteq fork.told
=============================================================================
