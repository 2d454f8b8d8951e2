------------------------------- MODULE Insights -------------------------------
(***************************************************************************)
(* What the assistant remembers of one user (memory_service: pin_insight,  *)
(* unpin_insight, edit_insight, save_auto_insight, _evict_auto_over_cap,   *)
(* refine, restore_from_history), in one project scope.                    *)
(*                                                                         *)
(* Facts are pinned by the user or distilled after a turn; a text is there *)
(* once. Every read and every write is a transaction of its own, and       *)
(* refining asks a model in between, which takes minutes.                  *)
(***************************************************************************)
EXTENDS Naturals, FiniteSets, FiniteSetsExt

CONSTANTS
  Texts,    \* normalised texts
  NoText,
  Pinners,  \* requests to pin
  Savers,   \* distilled facts being saved
  AutoCap,  \* lm_chat_auto_memory_cap
  PinCap,   \* lm_chat_pinned_insights_cap
  MaxRows,  \* bound: rows, and their ids
  MaxEdits  \* bound: edits, deletions and restores by the user

ASSUME InsightsAssumption ==
  /\ NoText \notin Texts /\ MaxRows \in Nat /\ MaxEdits \in Nat
  /\ AutoCap \in Nat \ {0} /\ PinCap \in Nat \ {0} /\ IsFiniteSet(Savers)

RowIds == 1 .. MaxRows

VARIABLES
  insight,  \* memory_insights: text, kind and state of each row
  pinner,   \* each pin_insight: where it is, its text
  saver,    \* each save_auto_insight: where it is, its text, what it fades
  refining, \* the refine under way: where it is, the snapshot, its answer
  snapshots,\* memory_insights_history: texts before each refine
  edits

insightVars == <<insight, pinner, saver, refining, snapshots, edits>>

NoInsight == [kind |-> "none", text |-> NoText, active |-> FALSE]
NewInsight(kind, t) == [kind |-> kind, text |-> t, active |-> TRUE]

InsightsTypeOK ==
  /\ \A i \in RowIds :
       insight[i] = NoInsight \/ insight[i] \in [kind : {"pinned", "auto"}, text : Texts, active : BOOLEAN]
  /\ \A i, j \in RowIds : insight[i].text = insight[j].text => i = j \/ insight[i] = NoInsight
  /\ \A p \in Pinners : pinner[p].at \in {"idle", "count", "insert", "done", "refused"}
  /\ \A s \in Savers : saver[s].at \in {"idle", "insert", "evict", "fade", "done", "failed"}
  /\ refining.at \in {"idle", "call", "replace"}
  /\ snapshots \subseteq SUBSET Texts
  /\ edits \in 0 .. MaxEdits

InsightsInit ==
  /\ insight = [i \in RowIds |-> NoInsight]
  /\ pinner = [p \in Pinners |-> [at |-> "idle", text |-> NoText]]
  /\ saver = [s \in Savers |-> [at |-> "idle", text |-> NoText, fades |-> {}]]
  /\ refining = [at |-> "idle", read |-> {}, answer |-> {}]
  /\ snapshots = {}
  /\ edits = 0

Of(kind) == {i \in RowIds : insight[i].kind = kind}
TextsOf(kind) == {insight[i].text : i \in Of(kind)}
Distilled == {i \in Of("auto") : insight[i].active}
Known(t) == \E i \in RowIds : insight[i].text = t
(* The id of the next row: one above the largest one there is (SQLite).    *)
NextId == 1 + Max({0} \cup {i \in RowIds : insight[i] # NoInsight})

-----------------------------------------------------------------------------
(* pin_insight: a row of that text, whatever its kind, is the answer; the  *)
(* pins are counted; the insert fails when the text is there by now.       *)
LookUpPin(p, t) ==
  /\ pinner[p].at = "idle"
  /\ pinner' = [pinner EXCEPT ![p] = [at |-> IF Known(t) THEN "done" ELSE "count", text |-> t]]
  /\ UNCHANGED <<insight, saver, refining, snapshots, edits>>
CountPins(p) ==
  /\ pinner[p].at = "count"
  /\ pinner' = [pinner EXCEPT ![p].at =
       IF Cardinality(Of("pinned")) >= PinCap THEN "refused" ELSE "insert"]
  /\ UNCHANGED <<insight, saver, refining, snapshots, edits>>
(* Faulty: nothing keeps a second row of the same text out.                *)
InsertPinTwice(p) ==
  /\ pinner[p].at = "insert" /\ NextId \in RowIds
  /\ insight' = [insight EXCEPT ![NextId] = NewInsight("pinned", pinner[p].text)]
  /\ pinner' = [pinner EXCEPT ![p].at = "done"]
  /\ UNCHANGED <<saver, refining, snapshots, edits>>
InsertPin(p) ==
  /\ pinner[p].at = "insert"
  /\ \/ /\ Known(pinner[p].text) /\ UNCHANGED insight
     \/ /\ ~Known(pinner[p].text) /\ NextId \in RowIds
        /\ insight' = [insight EXCEPT ![NextId] = NewInsight("pinned", pinner[p].text)]
  /\ pinner' = [pinner EXCEPT ![p].at = "done"]
  /\ UNCHANGED <<saver, refining, snapshots, edits>>

-----------------------------------------------------------------------------
(* save_auto_insight: no row of that text, then the insert, then the       *)
(* active distilled ones beyond the cap are listed, then faded by id.      *)
LookUpAuto(s, t) ==
  /\ saver[s].at = "idle"
  /\ saver' = [saver EXCEPT ![s].at = IF Known(t) THEN "done" ELSE "insert", ![s].text = t]
  /\ UNCHANGED <<insight, pinner, refining, snapshots, edits>>
InsertAuto(s) ==
  /\ saver[s].at = "insert"
  /\ \/ /\ Known(saver[s].text) /\ UNCHANGED insight
        /\ saver' = [saver EXCEPT ![s].at = "done"]
     \/ /\ ~Known(saver[s].text) /\ NextId \in RowIds
        /\ insight' = [insight EXCEPT ![NextId] = NewInsight("auto", saver[s].text)]
        /\ saver' = [saver EXCEPT ![s].at = "evict"]
  /\ UNCHANGED <<pinner, refining, snapshots, edits>>

(* Faulty: the row that was just inserted is not counted.                  *)
OverCapButOne(auto) ==
  {S \in SUBSET auto : Cardinality(S) = IF Cardinality(auto) > AutoCap + 1
                                        THEN Cardinality(auto) - AutoCap ELSE 0}
(* As many as there are beyond the cap (the least recently used ones: any).*)
OverCap(auto) ==
  {S \in SUBSET auto : Cardinality(S) = IF Cardinality(auto) > AutoCap
                                        THEN Cardinality(auto) - AutoCap ELSE 0}

ListOverCap(s) ==
  /\ saver[s].at = "evict"
  /\ \E S \in OverCap(Distilled) :
       saver' = [saver EXCEPT ![s].at = IF S = {} THEN "done" ELSE "fade", ![s].fades = S]
  /\ UNCHANGED <<insight, pinner, refining, snapshots, edits>>
FadeOverCap(s) ==
  /\ saver[s].at = "fade"
  /\ insight' = [i \in RowIds |->
       IF i \in saver[s].fades THEN [insight[i] EXCEPT !.active = FALSE] ELSE insight[i]]
  /\ saver' = [saver EXCEPT ![s].at = "done"]
  /\ UNCHANGED <<pinner, refining, snapshots, edits>>
(* distill_and_store goes on with the next fact after an error.            *)
FailToFade(s) ==
  /\ saver[s].at \in {"evict", "fade"}
  /\ saver' = [saver EXCEPT ![s].at = "failed"]
  /\ UNCHANGED <<insight, pinner, refining, snapshots, edits>>

-----------------------------------------------------------------------------
(* The user: deletes a row, edits its text, restores a snapshot.           *)
UnpinInsight(i) ==
  /\ edits < MaxEdits /\ edits' = edits + 1
  /\ insight[i] # NoInsight
  /\ insight' = [insight EXCEPT ![i] = NoInsight]
  /\ UNCHANGED <<pinner, saver, refining, snapshots>>
EditInsight(i, t) ==
  /\ edits < MaxEdits /\ edits' = edits + 1
  /\ insight[i] # NoInsight /\ ~Known(t)
  /\ insight' = [insight EXCEPT ![i].text = t]
  /\ UNCHANGED <<pinner, saver, refining, snapshots>>

(* The pins are replaced by those of a list that no other row has: their   *)
(* ids come after those that stay (one row each, in some order).           *)
ReplacePins(texts) ==
  LET stays == [i \in RowIds |-> IF insight[i].kind = "pinned" THEN NoInsight ELSE insight[i]]
      new == {t \in texts : \A i \in RowIds : stays[i].text # t}
      first == 1 + Max({0} \cup {i \in RowIds : stays[i] # NoInsight})
  IN /\ first + Cardinality(new) - 1 <= MaxRows
     /\ \E place \in [new -> first .. first + Cardinality(new) - 1] :
          /\ \A t, u \in new : place[t] = place[u] => t = u
          /\ insight' = [i \in RowIds |->
               IF \E t \in new : place[t] = i
               THEN NewInsight("pinned", CHOOSE t \in new : place[t] = i) ELSE stays[i]]

RestoreFromHistory(snapshot) ==
  /\ edits < MaxEdits /\ edits' = edits + 1
  /\ ReplacePins(snapshot)
  /\ UNCHANGED <<pinner, saver, refining, snapshots>>

-----------------------------------------------------------------------------
(* refine: the pins are read, a model is asked for a shorter list, and one *)
(* transaction keeps what was read as a snapshot and replaces the pins.    *)
ReadPins ==
  /\ refining.at = "idle" /\ Of("pinned") # {}
  /\ refining' = [at |-> "call", read |-> TextsOf("pinned"), answer |-> {}]
  /\ UNCHANGED <<insight, pinner, saver, snapshots, edits>>
AnswerRefine ==
  /\ refining.at = "call"
  /\ \/ \E answer \in (SUBSET Texts) \ {{}} :
          refining' = [refining EXCEPT !.at = "replace", !.answer = answer]
     \/ refining' = [at |-> "idle", read |-> {}, answer |-> {}]
  /\ UNCHANGED <<insight, pinner, saver, snapshots, edits>>
ReplaceRefined ==
  /\ refining.at = "replace"
  /\ ReplacePins(refining.answer)
  /\ snapshots' = snapshots \cup {refining.read}
  /\ refining' = [at |-> "idle", read |-> {}, answer |-> {}]
  /\ UNCHANGED <<pinner, saver, edits>>

InsightsNext ==
  \/ \E p \in Pinners : (\E t \in Texts : LookUpPin(p, t)) \/ CountPins(p) \/ InsertPin(p)
  \/ \E s \in Savers :
       \/ \E t \in Texts : LookUpAuto(s, t)
       \/ InsertAuto(s) \/ ListOverCap(s) \/ FadeOverCap(s) \/ FailToFade(s)
  \/ \E i \in RowIds : UnpinInsight(i) \/ \E t \in Texts : EditInsight(i, t)
  \/ \E snapshot \in snapshots : RestoreFromHistory(snapshot)
  \/ ReadPins \/ AnswerRefine \/ ReplaceRefined

InsightsSpec == InsightsInit /\ [][InsightsNext]_insightVars

-----------------------------------------------------------------------------
(* However many facts are saved at once, the distilled ones that count are *)
(* at most the cap and those whose own save has not faded yet: several     *)
(* savers choose what to fade from lists read before the others' writes    *)
(* (_evict_auto_over_cap).                                                 *)
AutoCapKept ==
  Cardinality(Distilled) <=
    AutoCap + Cardinality({s \in Savers : saver[s].at \in {"evict", "fade", "failed"}})
=============================================================================
