-------------------------- MODULE Knowledge_proofs --------------------------
(***************************************************************************)
(* What holds of History, Insights, Documents and Embeddings for every     *)
(* number of compactions, turns, facts, uploads, projects and messages.    *)
(***************************************************************************)
EXTENDS MCKnowledge, TLAPS, FiniteSetTheorems, WellFoundedInduction

-----------------------------------------------------------------------------
(* The least and the greatest of a set of rows.                            *)

Less == {p \in Nat \X Nat : p[1] < p[2]}

LEMMA LessIsWellFounded == IsWellFoundedOn(Less, Nat)
BY NatLessThanWellFounded DEF OpToRel, Less

LEMMA LeastElement ==
  ASSUME NEW S, S \subseteq Nat, S # {}
  PROVE  Min(S) \in S /\ \A y \in S : Min(S) <= y
<1>1. PICK x \in S : \A y \in S : <<y, x>> \notin Less BY LessIsWellFounded, WFMin
<1>2. ASSUME NEW y \in S PROVE x <= y
  <2>1. x \in Nat /\ y \in Nat OBVIOUS
  <2>2. y < x => <<y, x>> \in Less BY <2>1 DEF Less
  <2> QED BY <1>1, <2>1, <2>2
<1> QED BY <1>2 DEF Min

LEMMA GreatestElement ==
  ASSUME NEW S, NEW n \in Nat, S \subseteq 1 .. n, S # {}
  PROVE  Max(S) \in S /\ \A y \in S : y <= Max(S)
<1> DEFINE T == {n - x : x \in S}
<1>1. T \subseteq Nat /\ T # {}
  <2>1. \A x \in S : n - x \in Nat OBVIOUS
  <2> QED BY <2>1
<1>2. Min(T) \in T /\ \A y \in T : Min(T) <= y BY <1>1, LeastElement
<1>3. PICK x \in S : Min(T) = n - x BY <1>2
<1>4. \A y \in S : y <= x
  <2> TAKE y \in S
  <2>1. n - x <= n - y BY <1>2, <1>3
  <2> QED BY <2>1
<1> QED BY <1>4 DEF Max
-----------------------------------------------------------------------------
(* History: the runs that a compaction chooses, and the spans they get.    *)

LEMMA IdsAreNumbers == Ids \subseteq Nat /\ 2 * MaxTurns \in Nat
BY HistoryAssumption DEF Ids

(* Disjoint sets of rows, each of them without a gap among the rows read.  *)
RunsOK(runs, read) ==
  /\ \A run \in runs : /\ run # {} /\ run \subseteq read
                       /\ \A i \in read : Min(run) <= i /\ i <= Max(run) => i \in run
  /\ \A a, b \in runs : a \cap b # {} => a = b

LEMMA RunsAreDisjoint ==
  ASSUME NEW read, read \subseteq Ids, NEW drop, drop \subseteq read
  PROVE  RunsOK(RunsOf(read, drop), read)
<1>1. MaxTurns \in Nat /\ 2 * MaxTurns \in Nat BY HistoryAssumption
<1>2. ASSUME NEW run \in RunsOf(read, drop)
      PROVE  /\ run # {} /\ run \subseteq drop /\ run \subseteq read /\ run \subseteq Nat
             /\ \A i \in read : Min(run) <= i /\ i <= Max(run) => i \in run
             /\ Min(run) \in run /\ \A i \in run : Min(run) <= i
             /\ Max(run) \in run /\ \A i \in run : i <= Max(run)
  <2>1. /\ run # {} /\ run \subseteq drop
        /\ \A i \in read : Min(run) <= i /\ i <= Max(run) => i \in run
    BY DEF RunsOf
  <2>2. run \subseteq Ids /\ run \subseteq Nat BY <2>1 DEF Ids
  <2>3. Min(run) \in run /\ \A i \in run : Min(run) <= i BY <2>1, <2>2, LeastElement
  <2>4. Max(run) \in run /\ \A i \in run : i <= Max(run)
    BY <1>1, <2>1, <2>2, GreatestElement DEF Ids
  <2> QED BY <2>1, <2>2, <2>3, <2>4
<1>3. ASSUME NEW a \in RunsOf(read, drop), NEW b \in RunsOf(read, drop), a \cap b # {}
      PROVE  a \subseteq b
  <2>1. PICK i \in a : i \in b BY <1>3
  <2>2. SUFFICES ASSUME NEW j \in a, j \notin b PROVE FALSE OBVIOUS
  <2>3. j \in drop \ b BY <1>2, <2>2
  <2>4. PICK k \in read \ drop : (Min(b) > k /\ k > j) \/ (Max(b) < k /\ k < j)
    BY <2>3 DEF RunsOf
  <2>5. k \in Nat /\ i \in Nat /\ j \in Nat BY <1>2, <2>1 DEF Ids
  <2>6. Min(b) <= i /\ i <= Max(b) /\ Min(b) \in Nat /\ Max(b) \in Nat BY <1>2, <2>1
  <2>7. /\ Min(a) <= i /\ i <= Max(a) /\ Min(a) <= j /\ j <= Max(a)
        /\ Min(a) \in Nat /\ Max(a) \in Nat
    BY <1>2, <2>1
  <2>8. Min(a) <= k /\ k <= Max(a) BY <2>4, <2>5, <2>6, <2>7
  <2>9. k \in a BY <1>2, <2>8
  <2> QED BY <1>2, <2>9
<1>4. ASSUME NEW a \in RunsOf(read, drop), NEW b \in RunsOf(read, drop), a \cap b # {}
      PROVE  a = b
  <2>1. a \subseteq b BY <1>3, <1>4
  <2>2. b \subseteq a BY <1>3, <1>4
  <2> QED BY <2>1, <2>2
<1> QED BY <1>2, <1>4 DEF RunsOK

(* The runs are numbered by their first rows, from 1 and without a gap.    *)
Rank(runs, run) == Cardinality({r \in runs : Min(r) <= Min(run)})

LEMMA RanksNumberTheRuns ==
  ASSUME NEW runs, NEW read, read \subseteq Ids, RunsOK(runs, read)
  PROVE  /\ IsFiniteSet(runs) /\ Cardinality(runs) \in Nat
         /\ \A run \in runs : Rank(runs, run) \in 1 .. Cardinality(runs)
         /\ \A a, b \in runs : Rank(runs, a) = Rank(runs, b) => a = b
         /\ \A n \in 1 .. Cardinality(runs) : \E run \in runs : Rank(runs, run) = n
<1> DEFINE m == Cardinality(runs)
           upTo(run) == {r \in runs : Min(r) <= Min(run)}
<1>1. IsFiniteSet(runs) /\ m \in Nat
  <2>1. IsFiniteSet(SUBSET Ids)
    <3>1. 1 \in Int /\ 2 * MaxTurns \in Int BY HistoryAssumption
    <3>2. IsFiniteSet(Ids) BY <3>1, FS_Interval DEF Ids
    <3> QED BY <3>2, FS_SUBSET
  <2>2. runs \in SUBSET (SUBSET Ids) BY DEF RunsOK
  <2> QED BY <2>1, <2>2, FS_Subset, FS_CardinalityType
<1>2. ASSUME NEW run \in runs PROVE Min(run) \in run /\ Min(run) \in Nat
  <2>1. run # {} /\ run \subseteq Nat BY IdsAreNumbers DEF RunsOK
  <2> QED BY <2>1, LeastElement
<1>3. ASSUME NEW run \in runs
      PROVE  IsFiniteSet(upTo(run)) /\ Cardinality(upTo(run)) \in 1 .. m
  <2>1. upTo(run) \in SUBSET runs /\ run \in upTo(run) BY <1>2
  <2>2. IsFiniteSet(upTo(run)) /\ Cardinality(upTo(run)) <= m BY <1>1, <2>1, FS_Subset
  <2>3. Cardinality(upTo(run)) \in Nat BY <2>2, FS_CardinalityType
  <2>4. Cardinality(upTo(run)) # 0 BY <2>1, <2>2, FS_EmptySet
  <2> QED BY <1>1, <2>2, <2>3, <2>4
<1>4. ASSUME NEW a \in runs, NEW b \in runs, Min(a) <= Min(b),
             Cardinality(upTo(a)) = Cardinality(upTo(b))
      PROVE  a = b
  <2>1. \A r \in upTo(a) : Min(r) \in Nat /\ Min(r) <= Min(a) BY <1>2
  <2>2. upTo(a) \in SUBSET upTo(b) BY <1>2, <1>4, <2>1
  <2>3. upTo(a) = upTo(b) BY <1>3, <1>4, <2>2, FS_Subset
  <2>4. b \in upTo(b) BY <1>2
  <2>5. Min(b) <= Min(a) BY <2>3, <2>4
  <2>6. Min(a) = Min(b) BY <1>2, <1>4, <2>5
  <2> QED BY <1>2, <2>6 DEF RunsOK
<1>5. \A a, b \in runs : Cardinality(upTo(a)) = Cardinality(upTo(b)) => a = b
  <2> TAKE a, b \in runs
  <2>1. Min(a) <= Min(b) \/ Min(b) <= Min(a) BY <1>2
  <2> QED BY <1>4, <2>1
<1> DEFINE f == [run \in runs |-> Cardinality(upTo(run))]
<1>6. f \in Injection(runs, 1 .. m)
  <2>1. f \in [runs -> 1 .. m] BY <1>3
  <2>2. \A a, b \in runs : f[a] = f[b] => a = b BY <1>5
  <2> QED BY <2>1, <2>2 DEF Injection, IsInjective
<1>7. IsFiniteSet(1 .. m) /\ Cardinality(1 .. m) = m BY <1>1, FS_Interval
<1>8. f \in Surjection(runs, 1 .. m) BY <1>6, <1>7, FS_Injection
<1>9. \A n \in 1 .. m : \E run \in runs : Cardinality(upTo(run)) = n
  BY <1>8 DEF Surjection
<1> QED BY <1>1, <1>3, <1>5, <1>9 DEF Rank
-----------------------------------------------------------------------------
(* The inductive invariant of History. What a summary tells of is its own  *)
(* for ever; the row points back to it, or is gone; a compaction that is   *)
(* under way holds the lock, and its rows are told of nowhere yet.         *)

States == {"unborn", "draft", "final", "aborted", "gone"}
SummaryRow == [exists : BOOLEAN, tells : SUBSET Ids, read : SUBSET Ids, anchor : 0 .. 2 * MaxTurns]
WorkRow == [at : {"idle", "distill", "done"}, read : SUBSET Ids, runs : SUBSET (SUBSET Ids)]
ForkRow == [at : {"idle", "copied", "done"}, of : [Ids -> 0 .. MaxSpans],
            hidden : SUBSET Ids, told : SUBSET Ids]

HistoryTypes ==
  /\ row \in [Ids -> States] /\ span \in [Ids -> 0 .. MaxSpans]
  /\ summary \in [Spans -> SummaryRow]
  /\ work \in [Compactors -> WorkRow]
  /\ fork \in ForkRow
  /\ lock \in Compactors \cup {NoCompactor}

Used == {k \in Spans : summary[k] # NoSummary}
Told(i) == \E k \in Spans : i \in summary[k].tells

(* An answer that is not there yet has no question either, and a row that  *)
(* is not there is in no span.                                             *)
RowsInOrder ==
  /\ \A t \in 1 .. MaxTurns : row[2 * t] = "unborn" => row[2 * t - 1] = "unborn"
  /\ \A i \in Ids : row[i] = "unborn" => span[i] = 0 /\ ~Told(i)

WorkOK(c) ==
  work[c].at = "distill" =>
    /\ lock = c /\ RunsOK(work[c].runs, work[c].read)
    /\ \A run \in work[c].runs : \A i \in run : row[i] # "unborn" /\ span[i] = 0 /\ ~Told(i)

SummaryOK(k) ==
  /\ summary[k] # NoSummary => summary[k].tells # {}
  /\ \A m \in summary[k].read : summary[k].anchor <= m /\ m \notin summary[k].tells =>
       \A i \in summary[k].tells : i <= m
  /\ \A i \in summary[k].tells : span[i] = k \/ row[i] = "gone"

TellsDisjoint ==
  \A k, l \in Spans : k # l => summary[k].tells \cap summary[l].tells = {}

HiddenOK(i) ==
  span[i] # 0 => /\ i \in summary[span[i]].tells
                 /\ i \in Existing => summary[span[i]].exists

ForkOK ==
  /\ \A i \in Ids : fork.of[i] # 0 => i \in summary[fork.of[i]].tells
  /\ fork.at = "done" => fork.hidden \subseteq fork.told

HistoryShape ==
  /\ RowsInOrder /\ Used = 1 .. Cardinality(Used) /\ Cardinality(Used) \in Nat
  /\ \A c \in Compactors : WorkOK(c)
  /\ \A k \in Spans : SummaryOK(k)
  /\ TellsDisjoint
  /\ \A i \in Ids : HiddenOK(i)
  /\ ForkOK

HistoryInv == HistoryTypes /\ HistoryShape

LEMMA HistoryInit_Inv == HistoryInit => HistoryInv
<1> SUFFICES ASSUME HistoryInit PROVE HistoryInv OBVIOUS
<1>0. MaxTurns \in Nat /\ MaxSpans \in Nat BY HistoryAssumption
<1>1. /\ row = [i \in Ids |-> "unborn"] /\ span = [i \in Ids |-> 0]
      /\ summary = [k \in Spans |-> NoSummary] /\ work = [c \in Compactors |-> NoWork]
      /\ fork = NoFork /\ lock = NoCompactor
  BY DEF HistoryInit
<1>2. HistoryTypes
  BY <1>0, <1>1 DEF HistoryTypes, States, SummaryRow, WorkRow, ForkRow, NoSummary, NoWork, NoFork
<1>3. Used = {} /\ Cardinality(Used) = 0 BY <1>1, FS_EmptySet DEF Used
<1>4. \A i \in Ids : ~Told(i) BY <1>1 DEF Told, NoSummary
<1>5. \A k \in Spans : SummaryOK(k) BY <1>1 DEF SummaryOK, NoSummary
<1>6. RowsInOrder BY <1>0, <1>1, <1>4 DEF RowsInOrder, Ids
<1>7. (\A c \in Compactors : WorkOK(c)) /\ TellsDisjoint /\ (\A i \in Ids : HiddenOK(i)) /\ ForkOK
  BY <1>1 DEF WorkOK, NoWork, TellsDisjoint, HiddenOK, ForkOK, NoFork, NoSummary
<1>8. Used = 1 .. Cardinality(Used) BY <1>3
<1> QED BY <1>2, <1>3, <1>5, <1>6, <1>7, <1>8 DEF HistoryInv, HistoryShape

(* A step that writes rows only: none comes back from the dead, and none   *)
(* starts to exist that was not unborn.                                    *)
RowsMove ==
  /\ row' \in [Ids -> States]
  /\ \A t \in 1 .. MaxTurns : row'[2 * t] = "unborn" => row'[2 * t - 1] = "unborn"
  /\ \A i \in Ids : /\ row[i] = "gone" => row'[i] = "gone"
                    /\ row'[i] = "unborn" => row[i] = "unborn"

LEMMA RowsMoveKeeps ==
  ASSUME HistoryInv, RowsMove, UNCHANGED <<span, summary, lock, work, fork>>
  PROVE  HistoryInv'
<1>1. HistoryTypes'
  BY DEF HistoryInv, HistoryTypes, RowsMove, Ids, Spans, States, SummaryRow, WorkRow, ForkRow
<1>2. Used' = Used /\ \A i : Told(i)' <=> Told(i) BY DEF Used, Told, Spans, NoSummary
<1>3. RowsInOrder'
  BY <1>2 DEF HistoryInv, HistoryShape, RowsInOrder, RowsMove, Ids
<1>4. \A c \in Compactors : WorkOK(c)'
  <2> SUFFICES ASSUME NEW c \in Compactors, work[c].at = "distill" PROVE WorkOK(c)'
    BY DEF WorkOK
  <2>1. WorkOK(c) BY DEF HistoryInv, HistoryShape
  <2>2. \A run \in work[c].runs : \A i \in run : i \in Ids
    BY DEF HistoryInv, HistoryTypes, WorkRow
  <2> QED BY <1>2, <2>1, <2>2 DEF WorkOK, RowsMove, RunsOK
<1>5. \A k \in Spans : SummaryOK(k)'
  <2> SUFFICES ASSUME NEW k \in Spans PROVE SummaryOK(k)' OBVIOUS
  <2>1. SummaryOK(k) /\ summary[k].tells \subseteq Ids
    BY DEF HistoryInv, HistoryShape, HistoryTypes, SummaryRow
  <2> QED BY <2>1 DEF SummaryOK, RowsMove, NoSummary
<1>6. \A i \in Ids : HiddenOK(i)'
  <2> SUFFICES ASSUME NEW i \in Ids, span[i] # 0 PROVE HiddenOK(i)' BY DEF HiddenOK
  <2>1. HiddenOK(i) /\ row[i] # "unborn" BY DEF HistoryInv, HistoryShape, RowsInOrder
  <2>2. i \in Existing' => i \in Existing BY <2>1 DEF Existing, RowsMove
  <2> QED BY <2>1, <2>2 DEF HiddenOK
<1>7. ForkOK' /\ TellsDisjoint' BY DEF HistoryInv, HistoryShape, ForkOK, TellsDisjoint, Ids, Spans
<1>8. Used' = 1 .. Cardinality(Used)' /\ Cardinality(Used)' \in Nat
  BY <1>2 DEF HistoryInv, HistoryShape
<1> QED BY <1>1, <1>3, <1>4, <1>5, <1>6, <1>7, <1>8, <1>2 DEF HistoryInv, HistoryShape, Spans, Ids

(* Rows that exist are deleted.                                            *)
LEMMA DeleteMoves ==
  ASSUME HistoryInv, NEW gone, gone \subseteq Existing, Delete(gone)
  PROVE  RowsMove
<1>1. row \in [Ids -> States] /\ row' = [i \in Ids |-> IF i \in gone THEN "gone" ELSE row[i]]
  BY DEF HistoryInv, HistoryTypes, Delete
<1>2. \A i \in gone : row[i] # "unborn" BY DEF Existing
<1>3. \A t \in 1 .. MaxTurns : 2 * t \in Ids /\ 2 * t - 1 \in Ids
  BY HistoryAssumption DEF Ids
<1>4. \A t \in 1 .. MaxTurns : row[2 * t] = "unborn" => row[2 * t - 1] = "unborn"
  BY DEF HistoryInv, HistoryShape, RowsInOrder
<1>5. \A i \in Ids : /\ row[i] = "gone" => row'[i] = "gone"
                     /\ row'[i] = "unborn" <=> row[i] = "unborn"
  BY <1>1, <1>2
<1>6. row' \in [Ids -> States] BY <1>1 DEF States
<1> QED BY <1>3, <1>4, <1>5, <1>6 DEF RowsMove

LEMMA TurnsMove ==
  ASSUME HistoryInv, StartTurn \/ \E i \in Ids : EndTurn(i)
  PROVE  RowsMove
<1>0. row \in [Ids -> States] BY DEF HistoryInv, HistoryTypes
<1>1. \A t \in 1 .. MaxTurns : 2 * t \in Ids /\ 2 * t - 1 \in Ids
  BY HistoryAssumption DEF Ids
<1>2. \A t \in 1 .. MaxTurns : row[2 * t] = "unborn" => row[2 * t - 1] = "unborn"
  BY DEF HistoryInv, HistoryShape, RowsInOrder
<1>3. CASE StartTurn
  <2>1. PICK t \in 1 .. MaxTurns :
          /\ row[2 * t] = "unborn"
          /\ row' = [row EXCEPT ![2 * t - 1] = "final", ![2 * t] = "draft"]
    BY <1>3 DEF StartTurn
  <2>2. row[2 * t - 1] = "unborn" BY <1>2, <2>1
  <2>3. 2 * t # 2 * t - 1 OBVIOUS
  <2>4. /\ row'[2 * t] = "draft" /\ row'[2 * t - 1] = "final"
        /\ \A i \in Ids : i # 2 * t /\ i # 2 * t - 1 => row'[i] = row[i]
        /\ row' \in [Ids -> States]
    BY <1>0, <1>1, <2>1, <2>3 DEF States
  <2>5. \A i \in Ids : /\ row[i] = "gone" => row'[i] = "gone"
                       /\ row'[i] = "unborn" => row[i] = "unborn"
    BY <2>1, <2>2, <2>4
  <2>6. ASSUME NEW u \in 1 .. MaxTurns, row'[2 * u] = "unborn" PROVE row'[2 * u - 1] = "unborn"
    <3>1. u # t BY <2>4, <2>6
    <3>2. 2 * u - 1 # 2 * t /\ 2 * u - 1 # 2 * t - 1 BY <3>1
    <3> QED BY <1>1, <1>2, <2>4, <2>5, <2>6, <3>2
  <2> QED BY <2>4, <2>5, <2>6 DEF RowsMove
<1>4. ASSUME NEW i \in Ids, EndTurn(i) PROVE RowsMove
  <2>1. PICK how \in {"final", "aborted", "gone"} : row' = [row EXCEPT ![i] = how]
    BY <1>4 DEF EndTurn
  <2>2. row[i] = "draft" BY <1>4 DEF EndTurn
  <2>3. \A j \in Ids : /\ row[j] = "gone" => row'[j] = "gone"
                       /\ row'[j] = "unborn" <=> row[j] = "unborn"
    BY <1>0, <2>1, <2>2
  <2>4. row' \in [Ids -> States] BY <1>0, <2>1 DEF States
  <2> QED BY <1>1, <1>2, <2>3, <2>4 DEF RowsMove
<1> QED BY <1>3, <1>4

(* The chat is emptied: the summaries no longer count, their spans stay    *)
(* used and there is no row left that they hide.                           *)
LEMMA ClearKeeps == ASSUME HistoryInv, ClearMessages PROVE HistoryInv'
<1>1. /\ UNCHANGED <<span, lock, work, fork>> /\ Delete(Existing)
      /\ summary' = [k \in Spans |-> [summary[k] EXCEPT !.exists = FALSE]]
  BY DEF ClearMessages
<1>2. RowsMove BY <1>1, DeleteMoves
<1>3. summary \in [Spans -> SummaryRow] BY DEF HistoryInv, HistoryTypes
<1>4. ASSUME NEW k \in Spans
      PROVE  /\ summary'[k] \in SummaryRow
             /\ summary'[k].tells = summary[k].tells /\ summary'[k].read = summary[k].read
             /\ summary'[k].anchor = summary[k].anchor
             /\ summary'[k] = NoSummary <=> summary[k] = NoSummary
  <2> DEFINE old == summary[k]  new == summary'[k]
  <2>1. old \in SummaryRow /\ new = [old EXCEPT !.exists = FALSE] BY <1>1, <1>3
  <2>2. new \in SummaryRow BY <2>1 DEF SummaryRow
  <2>3. new.tells = old.tells /\ new.read = old.read /\ new.anchor = old.anchor
    BY <2>1 DEF SummaryRow
  <2>4. ASSUME new = NoSummary PROVE old = NoSummary
    <3>1. old.tells = {} BY <2>3, <2>4 DEF NoSummary
    <3> QED BY <3>1 DEF HistoryInv, HistoryShape, SummaryOK
  <2>5. ASSUME old = NoSummary PROVE new = NoSummary
    <3>1. new = [NoSummary EXCEPT !.exists = FALSE] BY <2>1, <2>5
    <3>2. ASSUME NEW s, s = [NoSummary EXCEPT !.exists = FALSE] PROVE s = NoSummary
      BY <3>2 DEF NoSummary
    <3> QED BY <3>1, <3>2
  <2> QED BY <2>2, <2>3, <2>4, <2>5
<1>5. Existing' = {} BY <1>1 DEF Delete, Existing, Ids
<1>6. HistoryTypes'
  <2>1. summary' \in [Spans -> SummaryRow] BY <1>1, <1>4
  <2> QED BY <1>1, <1>2, <2>1 DEF HistoryInv, HistoryTypes, RowsMove, Ids, Spans, States,
                                   SummaryRow, WorkRow, ForkRow
<1>7. Used' = Used BY <1>4 DEF Used, Spans
<1>8. \A i : Told(i)' <=> Told(i) BY <1>4 DEF Told, Spans
<1>9. RowsInOrder' BY <1>1, <1>2, <1>8 DEF HistoryInv, HistoryShape, RowsInOrder, RowsMove, Ids
<1>10. \A c \in Compactors : WorkOK(c)'
  <2> SUFFICES ASSUME NEW c \in Compactors, work[c].at = "distill" PROVE WorkOK(c)'
    BY <1>1 DEF WorkOK
  <2>1. WorkOK(c) BY DEF HistoryInv, HistoryShape
  <2>2. \A run \in work[c].runs : \A i \in run : i \in Ids
    BY DEF HistoryInv, HistoryTypes, WorkRow
  <2> QED BY <1>1, <1>2, <1>8, <2>1, <2>2 DEF WorkOK, RowsMove, RunsOK
<1>11. \A k \in Spans : SummaryOK(k)'
  <2> SUFFICES ASSUME NEW k \in Spans PROVE SummaryOK(k)' OBVIOUS
  <2>1. SummaryOK(k) /\ summary[k].tells \subseteq Ids
    BY <1>3 DEF HistoryInv, HistoryShape, SummaryRow
  <2> QED BY <1>1, <1>2, <1>4, <2>1 DEF SummaryOK, RowsMove, NoSummary
<1>12. TellsDisjoint' BY <1>4 DEF HistoryInv, HistoryShape, TellsDisjoint, Spans
<1>13. \A i \in Ids : HiddenOK(i)'
  <2> SUFFICES ASSUME NEW i \in Ids, span[i] # 0 PROVE HiddenOK(i)' BY <1>1 DEF HiddenOK
  <2>1. HiddenOK(i) /\ span[i] \in Spans
    BY HistoryAssumption DEF HistoryInv, HistoryShape, HistoryTypes, Spans
  <2> QED BY <1>1, <1>4, <1>5, <2>1 DEF HiddenOK
<1>14. ForkOK'
  <2>1. \A i \in Ids : fork.of[i] # 0 => fork.of[i] \in Spans
    BY HistoryAssumption DEF HistoryInv, HistoryTypes, ForkRow, Spans
  <2> QED BY <1>1, <1>4, <2>1 DEF HistoryInv, HistoryShape, ForkOK, Ids
<1> QED BY <1>6, <1>7, <1>9, <1>10, <1>11, <1>12, <1>13, <1>14
        DEF HistoryInv, HistoryShape, Spans, Ids

(* A step of a compaction that writes no row and no summary.               *)
LEMMA CompactorMoves ==
  ASSUME HistoryInv, NEW c \in Compactors, NEW rec \in WorkRow,
         work' = [work EXCEPT ![c] = rec], lock' \in Compactors \cup {NoCompactor},
         UNCHANGED <<row, span, summary, fork>>,
         \A d \in Compactors : work'[d].at = "distill" => WorkOK(d)'
  PROVE  HistoryInv'
<1>1. HistoryTypes' BY DEF HistoryInv, HistoryTypes, Ids, Spans, States, SummaryRow, WorkRow, ForkRow
<1>2. Used' = Used /\ \A i : Told(i)' <=> Told(i) BY DEF Used, Told, Spans, NoSummary
<1>3. RowsInOrder' BY <1>2 DEF HistoryInv, HistoryShape, RowsInOrder, Ids
<1>4. \A d \in Compactors : WorkOK(d)' BY DEF WorkOK
<1>5. (\A k \in Spans : SummaryOK(k)') /\ TellsDisjoint'
  BY DEF HistoryInv, HistoryShape, SummaryOK, TellsDisjoint, Spans, NoSummary
<1>6. (\A i \in Ids : HiddenOK(i)') /\ ForkOK'
  BY DEF HistoryInv, HistoryShape, HiddenOK, ForkOK, Existing, Ids
<1> QED BY <1>1, <1>2, <1>3, <1>4, <1>5, <1>6 DEF HistoryInv, HistoryShape, Spans, Ids

LEMMA EndCompactMoves ==
  ASSUME HistoryInv, NEW c \in Compactors, EndCompact(c), work[c].at = "distill"
  PROVE  /\ work' = [work EXCEPT ![c] = [NoWork EXCEPT !.at = "done"]]
         /\ [NoWork EXCEPT !.at = "done"] \in WorkRow
         /\ \A d \in Compactors : work'[d].at # "distill"
         /\ lock' = NoCompactor
<1>1. work \in [Compactors -> WorkRow] BY DEF HistoryInv, HistoryTypes
<1>2. [NoWork EXCEPT !.at = "done"] = [at |-> "done", read |-> {}, runs |-> {}] BY DEF NoWork
<1>3. \A d \in Compactors : work[d].at = "distill" => d = c
  BY DEF HistoryInv, HistoryShape, WorkOK
<1> QED BY <1>1, <1>2, <1>3 DEF EndCompact, WorkRow

LEMMA AbortKeeps ==
  ASSUME HistoryInv, NEW c \in Compactors, AbortCompact(c) PROVE HistoryInv'
<1>1. /\ work' = [work EXCEPT ![c] = [NoWork EXCEPT !.at = "done"]]
      /\ [NoWork EXCEPT !.at = "done"] \in WorkRow
      /\ \A d \in Compactors : work'[d].at # "distill"
      /\ lock' = NoCompactor
  BY EndCompactMoves DEF AbortCompact
<1> QED BY <1>1, CompactorMoves DEF AbortCompact

(* What is chosen was settled and in no span; with the lock taken, nobody  *)
(* else is choosing.                                                       *)
LEMMA BeginCompactKeeps ==
  ASSUME HistoryInv, NEW c \in Compactors, BeginCompact(c) PROVE HistoryInv'
<1>1. PICK upto \in Eligible :
        work' = [work EXCEPT ![c] =
          [at |-> "distill", read |-> Eligible,
           runs |-> RunsOf(Eligible, {i \in Eligible \ Protected : i <= upto})]]
  BY DEF BeginCompact
<1> DEFINE drop == {i \in Eligible \ Protected : i <= upto}
           rec == [at |-> "distill", read |-> Eligible, runs |-> RunsOf(Eligible, drop)]
<1>2. lock = NoCompactor /\ lock' = c /\ UNCHANGED <<row, span, summary, fork>>
  BY DEF BeginCompact
<1>3. Eligible \subseteq Ids /\ drop \subseteq Eligible BY DEF Eligible
<1>4. RunsOK(rec.runs, rec.read) BY <1>3, RunsAreDisjoint
<1>5. rec \in WorkRow
  <2>1. \A run \in RunsOf(Eligible, drop) : run \subseteq Ids BY <1>3 DEF RunsOf
  <2> QED BY <1>3, <2>1 DEF WorkRow
<1>6. ASSUME NEW i \in Eligible PROVE row[i] # "unborn" /\ span[i] = 0 /\ ~Told(i)
  <2>1. i \in Ids /\ row[i] = "final" /\ span[i] = 0 BY DEF Eligible
  <2>2. ASSUME NEW k \in Spans, i \in summary[k].tells PROVE FALSE
    <3>1. span[i] = k \/ row[i] = "gone" BY <2>2 DEF HistoryInv, HistoryShape, SummaryOK
    <3> QED BY <2>1, <3>1 DEF Spans
  <2> QED BY <2>1, <2>2 DEF Told
<1>7. work'[c] = rec /\ \A d \in Compactors : d # c => work'[d] = work[d]
  BY <1>1 DEF HistoryInv, HistoryTypes
<1>8. \A d \in Compactors : work[d].at # "distill"
  BY <1>2, HistoryAssumption DEF HistoryInv, HistoryShape, WorkOK
<1>9. \A run \in rec.runs : \A i \in run : i \in Eligible BY <1>4 DEF RunsOK
<1>10. WorkOK(c)'
  <2>1. \A i : Told(i)' <=> Told(i) BY <1>2 DEF Told, Spans
  <2>2. \A run \in work'[c].runs : \A i \in run :
          row'[i] # "unborn" /\ span'[i] = 0 /\ ~Told(i)'
    BY <1>2, <1>6, <1>7, <1>9, <2>1
  <2>3. RunsOK(work'[c].runs, work'[c].read) BY <1>4, <1>7
  <2> QED BY <1>2, <2>2, <2>3 DEF WorkOK
<1>11. work' = [work EXCEPT ![c] = rec] /\ lock' \in Compactors \cup {NoCompactor}
  BY <1>1, <1>2
<1>12. \A d \in Compactors : work'[d].at = "distill" => WorkOK(d)' BY <1>7, <1>8, <1>10
<1> HIDE DEF rec
<1> QED BY <1>2, <1>5, <1>11, <1>12, CompactorMoves

(* What Archive writes: every run gets a span of its own that was not used *)
(* and a summary of just it, and no other row and no other summary changes. *)
SpanOf(runs, run) == Cardinality(Used) + Rank(runs, run)
Archived(runs, read) ==
  /\ \A run \in runs :
       /\ SpanOf(runs, run) \in Spans \ Used
       /\ summary'[SpanOf(runs, run)] \in SummaryRow /\ summary'[SpanOf(runs, run)].exists
       /\ summary'[SpanOf(runs, run)].tells = run /\ summary'[SpanOf(runs, run)].read = read
       /\ summary'[SpanOf(runs, run)].anchor = Min(run)
       /\ \A i \in run : span'[i] = IF i \in Existing THEN SpanOf(runs, run) ELSE span[i]
  /\ \A k \in Spans : (\A run \in runs : SpanOf(runs, run) # k) => summary'[k] = summary[k]
  /\ \A i \in Ids : (\A run \in runs : i \notin run) => span'[i] = span[i]

LEMMA ArchiveWrites ==
  ASSUME HistoryInv, NEW c \in Compactors, Archive(c)
  PROVE  /\ Archived(work[c].runs, work[c].read)
         /\ Used' = 1 .. Cardinality(Used) + Cardinality(work[c].runs)
         /\ Cardinality(work[c].runs) \in Nat
         /\ DOMAIN summary' = Spans /\ DOMAIN span' = Ids
         /\ summary' = [k \in Spans |-> summary'[k]] /\ span' = [i \in Ids |-> span'[i]]
<1> DEFINE runs == work[c].runs
           read == work[c].read
           no(run) == SpanOf(runs, run)
           n == Cardinality(Used)
<1>1. /\ \A run \in runs : no(run) \in Spans
      /\ summary' = [k \in Spans |->
           IF \E run \in runs : no(run) = k
           THEN LET run == CHOOSE r \in runs : no(r) = k
                IN [exists |-> TRUE, tells |-> run, read |-> read, anchor |-> Min(run)]
           ELSE summary[k]]
      /\ span' = [i \in Ids |->
           IF i \in Existing /\ \E run \in runs : i \in run
           THEN no(CHOOSE run \in runs : i \in run) ELSE span[i]]
  BY DEF Archive, SpanOf, Rank, Used
<1>2. work[c].at = "distill" BY DEF Archive
<1>3. RunsOK(runs, read) /\ read \subseteq Ids
  BY <1>2 DEF HistoryInv, HistoryShape, HistoryTypes, WorkOK, WorkRow
<1>4. /\ Cardinality(runs) \in Nat
      /\ \A run \in runs : Rank(runs, run) \in 1 .. Cardinality(runs)
      /\ \A a, b \in runs : Rank(runs, a) = Rank(runs, b) => a = b
      /\ \A m \in 1 .. Cardinality(runs) : \E run \in runs : Rank(runs, run) = m
  BY <1>3, RanksNumberTheRuns
<1>5. n \in Nat /\ Used = 1 .. n BY DEF HistoryInv, HistoryShape
<1>6. ASSUME NEW a \in runs, NEW b \in runs, no(a) = no(b) PROVE a = b
  <2>1. Rank(runs, a) \in Nat /\ Rank(runs, b) \in Nat BY <1>4
  <2> QED BY <1>4, <1>5, <1>6, <2>1 DEF SpanOf
<1>7. \A run \in runs : no(run) \in n + 1 .. n + Cardinality(runs) BY <1>4, <1>5 DEF SpanOf
<1>8. \A m \in n + 1 .. n + Cardinality(runs) : \E run \in runs : no(run) = m
  <2> TAKE m \in n + 1 .. n + Cardinality(runs)
  <2>1. m - n \in 1 .. Cardinality(runs) BY <1>4, <1>5
  <2>2. PICK run \in runs : Rank(runs, run) = m - n BY <1>4, <2>1
  <2> QED BY <1>5, <2>2 DEF SpanOf
<1> HIDE DEF no
<1>9. ASSUME NEW run \in runs
      PROVE  /\ no(run) \in Spans \ Used
             /\ summary'[no(run)] \in SummaryRow /\ summary'[no(run)].exists
             /\ summary'[no(run)].tells = run /\ summary'[no(run)].read = read
             /\ summary'[no(run)].anchor = Min(run)
             /\ \A i \in run : span'[i] = IF i \in Existing THEN no(run) ELSE span[i]
  <2>1. no(run) \notin Used BY <1>4, <1>5, <1>7
  <2>2. (CHOOSE r \in runs : no(r) = no(run)) = run BY <1>6
  <2>3. ASSUME NEW i \in run PROVE (CHOOSE r \in runs : i \in r) = run
    BY <1>3, <2>3 DEF RunsOK
  <2>4. \A i \in run : i \in Ids BY <1>3 DEF RunsOK
  <2>5. ASSUME NEW i \in run PROVE span'[i] = IF i \in Existing THEN no(run) ELSE span[i]
    BY <1>1, <2>3, <2>4
  <2> DEFINE new == [exists |-> TRUE, tells |-> run, read |-> read, anchor |-> Min(run)]
  <2>6. summary'[no(run)] = new BY <1>1, <2>2
  <2>7. new.exists /\ new.tells = run /\ new.read = read /\ new.anchor = Min(run) OBVIOUS
  <2>8. run # {} /\ run \subseteq Nat /\ run \subseteq Ids BY <1>3, IdsAreNumbers DEF RunsOK
  <2>9. Min(run) \in Ids BY <2>8, LeastElement
  <2>10. Min(run) \in 0 .. 2 * MaxTurns BY <2>9, IdsAreNumbers DEF Ids
  <2>11. new \in SummaryRow BY <1>3, <2>8, <2>10 DEF SummaryRow
  <2> HIDE DEF new
  <2> QED BY <1>1, <2>1, <2>5, <2>6, <2>7, <2>11
<1>10. \A k \in Spans : (\A run \in runs : no(run) # k) => summary'[k] = summary[k]
  BY <1>1
<1>11. \A i \in Ids : (\A run \in runs : i \notin run) => span'[i] = span[i] BY <1>1
<1>12. Archived(runs, read) BY <1>9, <1>10, <1>11 DEF Archived, no
<1>13. Used' = 1 .. n + Cardinality(runs)
  <2>1. ASSUME NEW k \in Spans, k \in Used PROVE summary'[k] # NoSummary
    <3>1. \A run \in runs : no(run) # k BY <1>9, <2>1
    <3> QED BY <1>10, <2>1, <3>1 DEF Used
  <2>2. ASSUME NEW run \in runs PROVE summary'[no(run)] # NoSummary
    <3>1. run # {} BY <1>3 DEF RunsOK
    <3>2. summary'[no(run)].tells = run BY <1>9
    <3> QED BY <3>1, <3>2 DEF NoSummary
  <2>3. ASSUME NEW k \in Spans, k \notin Used, \A run \in runs : no(run) # k
        PROVE  summary'[k] = NoSummary
    BY <1>10, <2>3 DEF Used
  <2>4. Used' = Used \cup {no(run) : run \in runs}
    BY <1>9, <2>1, <2>2, <2>3 DEF Used, Spans
  <2>5. {no(run) : run \in runs} = n + 1 .. n + Cardinality(runs) BY <1>7, <1>8
  <2>6. ASSUME NEW m \in Nat PROVE (1 .. n) \cup (n + 1 .. n + m) = 1 .. n + m BY <1>5
  <2>7. Used' = (1 .. n) \cup (n + 1 .. n + Cardinality(runs)) BY <1>5, <2>4, <2>5
  <2> QED BY <1>4, <2>6, <2>7
<1> QED BY <1>1, <1>4, <1>12, <1>13

LEMMA ArchiveKeeps ==
  ASSUME HistoryInv, NEW c \in Compactors, Archive(c) PROVE HistoryInv'
<1> DEFINE runs == work[c].runs
           read == work[c].read
           no(run) == SpanOf(runs, run)
<1>1. /\ Archived(runs, read) /\ Cardinality(runs) \in Nat
      /\ Used' = 1 .. Cardinality(Used) + Cardinality(runs)
      /\ summary' = [k \in Spans |-> summary'[k]] /\ span' = [i \in Ids |-> span'[i]]
  BY ArchiveWrites
<1>2. /\ work' = [work EXCEPT ![c] = [NoWork EXCEPT !.at = "done"]]
      /\ [NoWork EXCEPT !.at = "done"] \in WorkRow
      /\ \A d \in Compactors : work'[d].at # "distill"
      /\ lock' = NoCompactor /\ UNCHANGED <<row, fork>> /\ work[c].at = "distill"
  BY EndCompactMoves DEF Archive
<1>3. /\ RunsOK(runs, read) /\ read \subseteq Ids
      /\ \A run \in runs : \A i \in run : row[i] # "unborn" /\ span[i] = 0 /\ ~Told(i)
  BY <1>2 DEF HistoryInv, HistoryShape, HistoryTypes, WorkOK, WorkRow
<1>4. ASSUME NEW run \in runs
      PROVE  /\ no(run) \in Spans \ Used /\ no(run) # 0
             /\ summary'[no(run)] \in SummaryRow /\ summary'[no(run)].exists
             /\ summary'[no(run)].tells = run /\ summary'[no(run)].read = read
             /\ summary'[no(run)].anchor = Min(run)
             /\ \A i \in run : span'[i] = IF i \in Existing THEN no(run) ELSE span[i]
             /\ run # {} /\ run \subseteq read /\ run \subseteq Ids
             /\ \A i \in read : Min(run) <= i /\ i <= Max(run) => i \in run
  BY <1>1, <1>3 DEF Archived, RunsOK, Spans
<1>5. /\ \A k \in Spans : (\A run \in runs : no(run) # k) => summary'[k] = summary[k]
      /\ \A i \in Ids : (\A run \in runs : i \notin run) => span'[i] = span[i]
  BY <1>1 DEF Archived
<1> HIDE DEF no
<1>6. /\ row \in [Ids -> States] /\ span \in [Ids -> 0 .. MaxSpans]
      /\ summary \in [Spans -> SummaryRow] /\ work \in [Compactors -> WorkRow] /\ fork \in ForkRow
  BY DEF HistoryInv, HistoryTypes
(* A summary that tells of something was there before, and stays.          *)
<1>7. ASSUME NEW k \in Spans, NEW i \in summary[k].tells
      PROVE  summary'[k] = summary[k] /\ \A run \in runs : i \notin run
  <2>1. summary[k] # NoSummary BY DEF NoSummary
  <2>2. k \in Used BY <2>1 DEF Used
  <2>3. Told(i) BY DEF Told
  <2> QED BY <1>3, <1>4, <1>5, <2>2, <2>3
<1>8. ASSUME NEW i \in Ids
      PROVE  span'[i] = span[i] \/ \E run \in runs : i \in run /\ span'[i] = no(run)
  BY <1>4, <1>5
<1>9. HistoryTypes'
  <2>1. \A k \in Spans : summary'[k] \in SummaryRow BY <1>4, <1>5, <1>6
  <2>2. summary' \in [Spans -> SummaryRow] BY <1>1, <2>1
  <2>3. \A i \in Ids : span'[i] \in 0 .. MaxSpans
    BY <1>4, <1>6, <1>8, HistoryAssumption DEF Spans
  <2>4. span' \in [Ids -> 0 .. MaxSpans] BY <1>1, <2>3
  <2>5. work' \in [Compactors -> WorkRow] BY <1>2, <1>6
  <2> QED BY <1>2, <1>6, <2>2, <2>4, <2>5
          DEF HistoryTypes, Ids, Spans, States, SummaryRow, WorkRow, ForkRow
<1>10. RowsInOrder'
  <2>1. ASSUME NEW i \in Ids, row[i] = "unborn" PROVE span'[i] = 0 /\ ~Told(i)'
    <3>1. span[i] = 0 /\ ~Told(i) BY <2>1 DEF HistoryInv, HistoryShape, RowsInOrder
    <3>2. \A run \in runs : i \notin run BY <1>3, <2>1
    <3>3. span'[i] = 0 BY <1>5, <3>1, <3>2
    <3>4. ASSUME NEW k \in Spans PROVE i \notin summary'[k].tells
      <4>1. CASE \E run \in runs : no(run) = k BY <1>4, <3>2, <4>1
      <4>2. CASE \A run \in runs : no(run) # k BY <1>5, <3>1, <4>2 DEF Told
      <4> QED BY <4>1, <4>2
    <3> QED BY <3>3, <3>4 DEF Told, Spans
  <2> QED BY <1>2, <2>1 DEF HistoryInv, HistoryShape, RowsInOrder, Ids
<1>11. \A d \in Compactors : WorkOK(d)' BY <1>2 DEF WorkOK
<1>12. ASSUME NEW k \in Spans PROVE SummaryOK(k)'
  <2>1. ASSUME NEW run \in runs, no(run) = k PROVE SummaryOK(k)'
    <3>1. run \subseteq 1 .. 2 * MaxTurns /\ 2 * MaxTurns \in Nat
      BY <1>4, IdsAreNumbers DEF Ids
    <3>2. Max(run) \in run /\ \A i \in run : i <= Max(run) BY <1>4, <3>1, GreatestElement
    <3>3. ASSUME NEW m \in read, Min(run) <= m, m \notin run, NEW i \in run PROVE i <= m
      <4>0. m \in Ids /\ i \in Ids /\ Max(run) \in Ids BY <1>3, <1>4, <3>2
      <4>1. m \in Nat /\ i \in Nat /\ Max(run) \in Nat BY <4>0, IdsAreNumbers
      <4>2. ~(m <= Max(run)) BY <1>4, <3>3
      <4> QED BY <3>2, <4>1, <4>2
    <3>4. ASSUME NEW i \in run PROVE span'[i] = k \/ row'[i] = "gone"
      <4>1. i \in Ids /\ row[i] # "unborn" BY <1>3, <1>4
      <4> QED BY <1>2, <1>4, <2>1, <4>1 DEF Existing
    <3> QED BY <1>4, <2>1, <3>3, <3>4 DEF SummaryOK
  <2>2. ASSUME \A run \in runs : no(run) # k PROVE SummaryOK(k)'
    <3>1. summary'[k] = summary[k] BY <1>5, <2>2
    <3>2. SummaryOK(k) /\ summary[k].tells \subseteq Ids
      BY <1>6 DEF HistoryInv, HistoryShape, SummaryRow
    <3>3. \A i \in summary[k].tells : span'[i] = span[i] BY <1>5, <1>7, <3>2
    <3> QED BY <1>2, <3>1, <3>2, <3>3 DEF SummaryOK, NoSummary
  <2> QED BY <2>1, <2>2
<1>13. TellsDisjoint'
  <2> SUFFICES ASSUME NEW k \in Spans, NEW l \in Spans, k # l,
                      NEW i \in summary'[k].tells, i \in summary'[l].tells PROVE FALSE
    BY DEF TellsDisjoint, Spans
  <2>1. CASE \E run \in runs : no(run) = k
    <3>1. PICK a \in runs : no(a) = k BY <2>1
    <3>2. i \in a BY <1>4, <3>1
    <3>3. CASE \E run \in runs : no(run) = l
      <4>1. PICK b \in runs : no(b) = l BY <3>3
      <4>2. i \in b BY <1>4, <4>1
      <4> QED BY <1>3, <3>1, <3>2, <4>1, <4>2 DEF RunsOK
    <3>4. CASE \A run \in runs : no(run) # l BY <1>5, <1>7, <3>2, <3>4
    <3> QED BY <3>3, <3>4
  <2>2. CASE \A run \in runs : no(run) # k
    <3>1. i \in summary[k].tells BY <1>5, <2>2
    <3>2. \A run \in runs : i \notin run BY <1>7, <3>1
    <3>3. \A run \in runs : no(run) # l BY <1>4, <3>2
    <3>4. i \in summary[l].tells BY <1>5, <3>3
    <3> QED BY <3>1, <3>4 DEF HistoryInv, HistoryShape, TellsDisjoint
  <2> QED BY <2>1, <2>2
<1>14. ASSUME NEW i \in Ids PROVE HiddenOK(i)'
  <2> SUFFICES ASSUME span'[i] # 0 PROVE HiddenOK(i)' BY DEF HiddenOK
  <2>1. CASE \E run \in runs : i \in run /\ span'[i] = no(run) BY <1>4, <2>1 DEF HiddenOK
  <2>2. CASE span'[i] = span[i]
    <3>1. span[i] \in Spans /\ HiddenOK(i)
      BY <1>6, <2>2, HistoryAssumption DEF Spans, HistoryInv, HistoryShape
    <3>2. summary'[span[i]] = summary[span[i]] BY <1>7, <2>2, <3>1 DEF HiddenOK
    <3> QED BY <1>2, <2>2, <3>1, <3>2 DEF HiddenOK, Existing, Ids
  <2> QED BY <1>8, <2>1, <2>2
<1>15. ForkOK'
  <2>1. ASSUME NEW i \in Ids, fork.of[i] # 0 PROVE i \in summary'[fork.of[i]].tells
    <3>1. fork.of[i] \in Spans /\ i \in summary[fork.of[i]].tells
      BY <1>6, <2>1, HistoryAssumption DEF ForkRow, Spans, HistoryInv, HistoryShape, ForkOK
    <3> QED BY <1>7, <3>1
  <2> QED BY <1>2, <2>1 DEF HistoryInv, HistoryShape, ForkOK, Ids
<1>16. Used' = 1 .. Cardinality(Used)' /\ Cardinality(Used)' \in Nat
  <2> DEFINE m == Cardinality(Used) + Cardinality(runs)
  <2>1. m \in Nat BY <1>1 DEF HistoryInv, HistoryShape
  <2>2. Cardinality(1 .. m) = m BY <2>1, FS_Interval
  <2> QED BY <1>1, <2>1, <2>2
<1> QED BY <1>9, <1>10, <1>11, <1>12, <1>13, <1>14, <1>15, <1>16
        DEF HistoryInv, HistoryShape, Spans, Ids

(* A fork copies the span of every row, and of the summaries those that    *)
(* are there when it looks again.                                          *)
LEMMA ForkKeeps ==
  ASSUME HistoryInv, ForkSpans \/ \E upto \in Ids : ForkRows(upto) PROVE HistoryInv'
<1>1. UNCHANGED <<row, span, summary, lock, work>> BY DEF ForkSpans, ForkRows
<1>2. fork \in ForkRow /\ span \in [Ids -> 0 .. MaxSpans] BY DEF HistoryInv, HistoryTypes
<1>3. fork' \in ForkRow /\ ForkOK'
  <2>1. ASSUME NEW upto \in Ids, ForkRows(upto) PROVE fork' \in ForkRow /\ ForkOK'
    <3> DEFINE of == [i \in Ids |-> IF i \in Existing /\ i <= upto THEN span[i] ELSE 0]
    <3>1. fork' = [NoFork EXCEPT !.at = "copied", !.of = of] BY <2>1 DEF ForkRows
    <3>2. fork' = [at |-> "copied", of |-> of, hidden |-> {}, told |-> {}]
      BY <3>1 DEF NoFork
    <3>3. of \in [Ids -> 0 .. MaxSpans] BY <1>2, HistoryAssumption
    <3>4. \A i \in Ids : of[i] # 0 => i \in summary[of[i]].tells
      BY DEF HistoryInv, HistoryShape, HiddenOK
    <3> HIDE DEF of
    <3>5. fork' \in ForkRow BY <3>2, <3>3 DEF ForkRow
    <3> QED BY <1>1, <3>2, <3>4, <3>5 DEF ForkOK, Ids
  <2>2. CASE ForkSpans
    <3> DEFINE hidden == {i \in Ids : fork.of[i] \in Written}
               told == UNION {summary[k].tells : k \in {fork.of[i] : i \in Ids} \cap Written}
    <3>1. fork' = [fork EXCEPT !.at = "done", !.hidden = hidden, !.told = told]
      BY <2>2 DEF ForkSpans
    <3>2. fork' = [at |-> "done", of |-> fork.of, hidden |-> hidden, told |-> told]
      BY <1>2, <3>1 DEF ForkRow
    <3>3. \A i \in Ids : fork.of[i] # 0 => i \in summary[fork.of[i]].tells
      BY DEF HistoryInv, HistoryShape, ForkOK
    <3>4. ASSUME NEW i \in hidden PROVE i \in told
      <4>1. i \in Ids /\ fork.of[i] \in Written /\ fork.of[i] # 0 BY DEF Written, Spans
      <4> QED BY <3>3, <4>1
    <3>5. told \subseteq Ids BY DEF HistoryInv, HistoryTypes, SummaryRow, Written
    <3>6. hidden \subseteq told /\ hidden \subseteq Ids BY <3>4
    <3> HIDE DEF hidden, told
    <3>7. fork' \in ForkRow BY <1>2, <3>2, <3>5, <3>6 DEF ForkRow
    <3> QED BY <1>1, <3>2, <3>3, <3>6, <3>7 DEF ForkOK, Ids
  <2> QED BY <2>1, <2>2
<1>4. HistoryTypes'
  BY <1>1, <1>3 DEF HistoryInv, HistoryTypes, Ids, Spans, States, SummaryRow, WorkRow, ForkRow
<1>5. Used' = Used /\ \A i : Told(i)' <=> Told(i) BY <1>1 DEF Used, Told, Spans, NoSummary
<1>6. RowsInOrder' /\ \A c \in Compactors : WorkOK(c)'
  BY <1>1, <1>5 DEF HistoryInv, HistoryShape, RowsInOrder, WorkOK, RunsOK, Ids
<1>7. (\A k \in Spans : SummaryOK(k)') /\ TellsDisjoint'
  BY <1>1 DEF HistoryInv, HistoryShape, SummaryOK, TellsDisjoint, Spans, NoSummary
<1>8. \A i \in Ids : HiddenOK(i)'
  BY <1>1 DEF HistoryInv, HistoryShape, HiddenOK, Existing, Ids
<1> QED BY <1>3, <1>4, <1>5, <1>6, <1>7, <1>8 DEF HistoryInv, HistoryShape, Spans, Ids

LEMMA HistoryInvHolds == HistorySpec => []HistoryInv
<1>1. HistoryInv /\ [HistoryNext]_historyVars => HistoryInv'
  <2> SUFFICES ASSUME HistoryInv, [HistoryNext]_historyVars PROVE HistoryInv' OBVIOUS
  <2>1. CASE StartTurn \/ \E i \in Ids : EndTurn(i)
    BY <2>1, TurnsMove, RowsMoveKeeps DEF StartTurn, EndTurn
  <2>2. ASSUME NEW i \in Ids, DeleteMessage(i) PROVE HistoryInv'
    <3>1. {i} \subseteq Existing /\ Delete({i}) BY <2>2 DEF DeleteMessage
    <3>2. RowsMove BY <3>1, DeleteMoves
    <3> QED BY <2>2, <3>2, RowsMoveKeeps DEF DeleteMessage
  <2>3. CASE DeleteFromBoundary
    <3>1. Delete({i \in Existing : i >= resend}) BY <2>3 DEF DeleteFromBoundary
    <3>2. RowsMove BY <3>1, DeleteMoves
    <3> QED BY <2>3, <3>2, RowsMoveKeeps DEF DeleteFromBoundary
  <2>4. ASSUME UNCHANGED <<row, span, summary, lock, work, fork>> PROVE HistoryInv'
    <3>1. RowsMove
      BY <2>4 DEF HistoryInv, HistoryTypes, HistoryShape, RowsInOrder, RowsMove
    <3> QED BY <2>4, <3>1, RowsMoveKeeps
  <2>5. ASSUME NEW i \in Ids, FindBoundary(i) PROVE HistoryInv' BY <2>4, <2>5 DEF FindBoundary
  <2>6. CASE UNCHANGED historyVars BY <2>4, <2>6 DEF historyVars
  <2> QED BY <2>1, <2>2, <2>3, <2>5, <2>6, ClearKeeps, ForkKeeps, BeginCompactKeeps, AbortKeeps,
             ArchiveKeeps DEF HistoryNext
<1> QED BY <1>1, HistoryInit_Inv, PTL DEF HistorySpec

(* Whatever compactions, deletions, forks and turns do at once, a message  *)
(* that exists is told to the model as it is or by a summary that counts   *)
(* (ChatService.compact, clear_messages, fork).                            *)
THEOREM CompactionForgetsNothing == HistorySpec => []NothingForgotten
<1>1. HistoryInv => NothingForgotten
  <2> SUFFICES ASSUME HistoryInv PROVE NothingForgotten OBVIOUS
  <2>1. ASSUME NEW i \in Existing, span[i] # 0
        PROVE  span[i] \in Written /\ i \in summary[span[i]].tells
    <3>1. i \in Ids BY DEF Existing
    <3>2. span[i] \in Spans
      BY <2>1, <3>1, HistoryAssumption DEF Spans, HistoryInv, HistoryTypes
    <3> QED BY <2>1, <3>1, <3>2 DEF HistoryInv, HistoryShape, HiddenOK, Written
  <2> QED BY <2>1 DEF NothingForgotten, HistoryInv, HistoryShape, ForkOK
<1> QED BY <1>1, HistoryInvHolds, PTL

(* No message is told of by two summaries, and a message that a compaction *)
(* read and kept is never told after a summary of later ones               *)
(* (_load_replay_history).                                                 *)
THEOREM SummariesStayInPlace == HistorySpec => []SummariesInPlace
<1>1. HistoryInv => SummariesInPlace
  <2> SUFFICES ASSUME HistoryInv, NEW k \in Written
               PROVE  /\ \A l \in Written \ {k} : summary[k].tells \cap summary[l].tells = {}
                      /\ \A m \in Remembered \cap summary[k].read :
                           summary[k].anchor <= m => \A i \in summary[k].tells : i <= m
    BY DEF SummariesInPlace
  <2>1. k \in Spans /\ SummaryOK(k) BY DEF Written, HistoryInv, HistoryShape
  <2>2. \A l \in Written \ {k} : summary[k].tells \cap summary[l].tells = {}
    BY <2>1 DEF Written, HistoryInv, HistoryShape, TellsDisjoint
  <2>3. ASSUME NEW m \in Remembered \cap summary[k].read, m \in summary[k].tells PROVE FALSE
    BY <2>1, <2>3 DEF Remembered, SummaryOK, Spans
  <2> QED BY <2>1, <2>2, <2>3 DEF SummaryOK
<1> QED BY <1>1, HistoryInvHolds, PTL

-----------------------------------------------------------------------------
(* Documents. Inductive: where an upload is says what its row is, and what *)
(* its gate pinned stays pinned until the project is embedded again, which *)
(* touches no document of another project but those that were moved.       *)

DocRow == [state : {"none", "live", "deleted"}, file : Files, project : Projects,
           vector : Labels, label : Labels, moved : BOOLEAN]
UpRow == [at : {"idle", "gate", "dedup", "insert", "embed", "undo", "done", "failed", "left",
                "lost"},
          file : Files, project : Projects, model : Labels, late : BOOLEAN]

ReembedRow == [at : {"idle", "list", "each", "done"}, project : Projects, model : Labels,
               todo : SUBSET Uploads, read : SUBSET Uploads]

DocTypes ==
  /\ loaded \subseteq Embedders /\ preferred \in Labels
  /\ pin \in [Projects -> Labels]
  /\ doc \in [Uploads -> DocRow] /\ up \in [Uploads -> UpRow]
  /\ move \in [at : {"idle", "update", "done"}, doc : Uploads \cup {NoMove.doc}, project : Projects]
  /\ move.at = "update" => move.doc \in Uploads
  /\ reembed \in ReembedRow

Early == {"idle", "gate", "dedup", "insert"}
Repinned(p) == reembed.at # "idle" /\ reembed.project = p

LifeOK(u) ==
  /\ up[u].at \in Early => doc[u].state = "none"
  /\ up[u].at \in Early \cup {"embed"} => ~Embedded(u)
  /\ up[u].at = "failed" => doc[u].state # "live"
  /\ up[u].at = "embed" => doc[u].file = up[u].file
  /\ up[u].at = "done" /\ doc[u].state = "live" => Embedded(u) \/ doc[u].file \in Blank
GateOK(u) ==
  /\ up[u].at \in {"gate", "dedup", "insert", "embed"} /\ ~up[u].late =>
       up[u].model # NoEmbedder
  /\ up[u].at \in {"dedup", "insert", "embed"} /\ ~up[u].late /\ ~Repinned(up[u].project) =>
       pin[up[u].project] = up[u].model
  /\ up[u].at = "embed" /\ ~doc[u].moved => doc[u].project = up[u].project
StoredOK(u) ==
  Embedded(u) /\ ~doc[u].moved /\ ~up[u].late /\ ~Repinned(doc[u].project) =>
    pin[doc[u].project] = doc[u].vector
ListedOK(u) ==
  u \in reembed.todo =>
    up[u].at \notin Early /\ (doc[u].moved \/ doc[u].project = reembed.project)
ReembedOK ==
  /\ reembed.at = "idle" => reembed.todo = {}
  /\ reembed.at \in {"list", "each"} => reembed.model # NoEmbedder
  /\ reembed.read \subseteq reembed.todo
  /\ reembed.read # {} => reembed.at = "each"

UploadOK(u) == LifeOK(u) /\ GateOK(u) /\ StoredOK(u) /\ ListedOK(u)
DocInv == DocTypes /\ ReembedOK /\ \A u \in Uploads : UploadOK(u)

LEMMA NoDocIsRow == NoDoc \in DocRow /\ NoDoc.file \in Files /\ NoDoc.project \in Projects
<1>1. NoDoc.file \in Files /\ NoDoc.project \in Projects
  <2>1. Files # {} /\ Projects # {} BY DocumentsAssumption
  <2> QED BY <2>1 DEF NoDoc
<1>2. PICK f \in Files, p \in Projects :
        NoDoc = [state |-> "none", file |-> f, project |-> p,
                 vector |-> NoEmbedder, label |-> NoEmbedder, moved |-> FALSE]
  BY <1>1 DEF NoDoc
<1> QED BY <1>1, <1>2 DEF DocRow, Labels

LEMMA DocInit_Inv == DocInit => DocInv
<1> SUFFICES ASSUME DocInit PROVE DocInv OBVIOUS
<1>1. NoDoc \in DocRow /\ NoDoc.file \in Files /\ NoDoc.project \in Projects BY NoDocIsRow
<1>2. NoUpload \in UpRow BY <1>1 DEF NoUpload, UpRow, Labels
<1>3. /\ NoMove \in [at : {"idle", "update", "done"}, doc : Uploads \cup {NoMove.doc},
                     project : Projects]
      /\ NoMove.at = "idle"
  <2>1. \E d : NoMove = [at |-> "idle", doc |-> d, project |-> NoDoc.project]
    BY DEF NoMove
  <2> QED BY <1>1, <2>1
<1>4. DocTypes
  BY <1>1, <1>2, <1>3 DEF DocInit, DocTypes, Labels, NoReembed, ReembedRow
<1>5. \A u \in Uploads : UploadOK(u)
  BY DEF DocInit, UploadOK, LifeOK, GateOK, StoredOK, ListedOK, NoDoc, NoUpload, NoReembed,
         Embedded, Early
<1>6. ReembedOK BY DEF DocInit, ReembedOK, NoReembed
<1> QED BY <1>4, <1>5, <1>6 DEF DocInv

(* One upload takes a step: its row and its state are what the step says,  *)
(* the pins only get one where there was none.                             *)
UploadMoves(u) ==
  /\ doc' \in [Uploads -> DocRow] /\ up' \in [Uploads -> UpRow]
  /\ pin' \in [Projects -> Labels]
  /\ \A v \in Uploads : v # u => doc'[v] = doc[v] /\ up'[v] = up[v]
  /\ \A p \in Projects : pin[p] # NoEmbedder => pin'[p] = pin[p]
  /\ loaded' \subseteq Embedders /\ preferred' \in Labels
  /\ UNCHANGED <<move, reembed>>

LEMMA OthersKeep ==
  ASSUME DocInv, NEW u \in Uploads, UploadMoves(u), UploadOK(u)' PROVE DocInv'
<1>1. DocTypes' BY DEF DocInv, DocTypes, UploadMoves
<1>2. ReembedOK' BY DEF DocInv, ReembedOK, UploadMoves
<1>3. ASSUME NEW v \in Uploads, v # u PROVE UploadOK(v)'
  <2>1. doc'[v] = doc[v] /\ up'[v] = up[v] BY <1>3 DEF UploadMoves
  <2>2. UploadOK(v) /\ doc[v] \in DocRow /\ up[v] \in UpRow BY DEF DocInv, DocTypes
  <2>3. LifeOK(v)' BY <2>1, <2>2 DEF UploadOK, LifeOK, Embedded
  <2>4. \A p : Repinned(p)' <=> Repinned(p) BY DEF UploadMoves, Repinned
  <2>5. up[v].project \in Projects /\ doc[v].project \in Projects BY <2>2 DEF DocRow, UpRow
  <2>6. GateOK(v)' BY <2>1, <2>2, <2>4, <2>5 DEF UploadOK, GateOK, UploadMoves
  <2>7. StoredOK(v)' BY <2>1, <2>2, <2>4, <2>5 DEF UploadOK, StoredOK, UploadMoves, Embedded
  <2>8. ListedOK(v)' BY <2>1, <2>2 DEF UploadOK, ListedOK, UploadMoves
  <2> QED BY <2>3, <2>6, <2>7, <2>8 DEF UploadOK
<1> QED BY <1>1, <1>2, <1>3 DEF DocInv

LEMMA ResolvedIsLabel == DocTypes => Resolved \in Labels /\ preferred \in Labels
BY DocumentsAssumption DEF DocTypes, Resolved, Labels

(* The steps of an upload that leave its row alone.                        *)
LEMMA PlacesMove ==
  ASSUME DocInv, NEW u \in Uploads, NEW at \in {"dedup", "insert", "undo", "done", "failed", "left"},
         up' = [up EXCEPT ![u].at = at], UNCHANGED <<doc, move, reembed, loaded, preferred>>,
         pin' \in [Projects -> Labels],
         \A p \in Projects : pin[p] # NoEmbedder => pin'[p] = pin[p],
         at \in {"dedup", "insert", "done", "failed"} => up[u].at \in Early,
         at \in {"dedup", "insert"} /\ ~up[u].late =>
           /\ up[u].model # NoEmbedder
           /\ ~Repinned(up[u].project) => pin'[up[u].project] = up[u].model
  PROVE  DocInv'
<1>1. /\ doc \in [Uploads -> DocRow] /\ up \in [Uploads -> UpRow] /\ UploadOK(u)
      /\ loaded \subseteq Embedders /\ preferred \in Labels
  BY DEF DocInv, DocTypes
<1>2. /\ up'[u].at = at /\ up'[u].late = up[u].late /\ up'[u].model = up[u].model
      /\ up'[u].project = up[u].project /\ up' \in [Uploads -> UpRow]
      /\ \A v \in Uploads : v # u => up'[v] = up[v]
  BY <1>1 DEF UpRow
<1>3. UploadMoves(u) BY <1>1, <1>2 DEF UploadMoves
<1>4. LifeOK(u)' BY <1>1, <1>2 DEF UploadOK, LifeOK, Embedded, Early
<1>5. GateOK(u)' BY <1>1, <1>2 DEF UploadOK, GateOK, Repinned
<1>6. StoredOK(u)'
  <2>1. doc[u].project \in Projects BY <1>1 DEF DocRow
  <2>2. StoredOK(u) BY <1>1 DEF UploadOK
  <2> QED BY <1>2, <2>1, <2>2 DEF StoredOK, Repinned, Embedded
<1>7. ListedOK(u)' BY <1>1, <1>2 DEF UploadOK, ListedOK, Early
<1> QED BY <1>3, <1>4, <1>5, <1>6, <1>7, OthersKeep DEF UploadOK

LEMMA ResolveKeeps ==
  ASSUME DocInv, NEW u \in Uploads, ResolveUpload(u) PROVE DocInv'
<1>1. PICK f \in Files, p \in Projects :
        up' = [up EXCEPT ![u] =
          [at |-> IF PreferredMissing THEN "failed" ELSE "gate",
           file |-> f, project |-> p, model |-> Resolved, late |-> Resolved = NoEmbedder]]
  BY DEF ResolveUpload
<1> DEFINE rec == [at |-> IF PreferredMissing THEN "failed" ELSE "gate",
                   file |-> f, project |-> p, model |-> Resolved, late |-> Resolved = NoEmbedder]
<1>2. /\ doc \in [Uploads -> DocRow] /\ up \in [Uploads -> UpRow] /\ UploadOK(u)
      /\ loaded \subseteq Embedders /\ pin \in [Projects -> Labels]
      /\ Resolved \in Labels /\ preferred \in Labels
  BY ResolvedIsLabel DEF DocInv, DocTypes
<1>3. /\ up[u].at = "idle" /\ UNCHANGED <<loaded, pin, doc, move, reembed>>
      /\ preferred' \in Labels
  BY <1>2 DEF ResolveUpload, Remember
<1>4. rec \in UpRow BY <1>2 DEF UpRow
<1>5. /\ rec.at \in {"failed", "gate"} /\ rec.model = Resolved
      /\ rec.late <=> Resolved = NoEmbedder
  OBVIOUS
<1> HIDE DEF rec
<1>6. up'[u] = rec /\ up' \in [Uploads -> UpRow] /\ \A v \in Uploads : v # u => up'[v] = up[v]
  BY <1>1, <1>2, <1>4 DEF rec
<1>7. UploadMoves(u) BY <1>2, <1>3, <1>6 DEF UploadMoves
<1>8. UploadOK(u)'
  <2>1. doc[u].state = "none" /\ ~Embedded(u) /\ u \notin reembed.todo
    BY <1>2, <1>3 DEF UploadOK, LifeOK, ListedOK, Early
  <2>2. doc'[u] = doc[u] /\ reembed' = reembed BY <1>3
  <2> QED BY <1>5, <1>6, <2>1, <2>2
          DEF UploadOK, LifeOK, GateOK, StoredOK, ListedOK, Early, Embedded
<1> QED BY <1>7, <1>8, OthersKeep

LEMMA GateKeeps ==
  ASSUME DocInv, NEW u \in Uploads, GateUpload(u) PROVE DocInv'
<1>1. PICK model \in IF up[u].model = NoEmbedder THEN FirstLoaded ELSE {up[u].model} :
        IF MayAttach(up[u].project, model)
        THEN up' = [up EXCEPT ![u].at = "dedup"] /\ pin' = Pinned(up[u].project, model)
        ELSE up' = [up EXCEPT ![u].at = "failed"] /\ UNCHANGED pin
  BY DEF GateUpload
<1>2. /\ up[u] \in UpRow /\ UploadOK(u) /\ pin \in [Projects -> Labels]
      /\ up[u].project \in Projects /\ up[u].model \in Labels /\ loaded \subseteq Embedders
  BY DEF DocInv, DocTypes, UpRow
<1>3. up[u].at = "gate" /\ UNCHANGED <<loaded, preferred, doc, move, reembed>>
  BY DEF GateUpload
<1>4. model \in Labels BY <1>1, <1>2 DEF FirstLoaded, Labels
<1>5. CASE ~MayAttach(up[u].project, model)
  BY <1>1, <1>2, <1>3, <1>5, PlacesMove DEF Early
<1>6. CASE MayAttach(up[u].project, model)
  <2>1. /\ pin' \in [Projects -> Labels]
        /\ \A p \in Projects : pin[p] # NoEmbedder => pin'[p] = pin[p]
    BY <1>1, <1>2, <1>4, <1>6 DEF Pinned
  <2>2. ~up[u].late => up[u].model # NoEmbedder /\ model = up[u].model
    BY <1>1, <1>2, <1>3 DEF UploadOK, GateOK
  <2>3. ~up[u].late => pin'[up[u].project] = up[u].model
    BY <1>1, <1>2, <1>6, <2>2 DEF MayAttach, Pinned
  <2> QED BY <1>1, <1>3, <1>6, <2>1, <2>2, <2>3, PlacesMove DEF Early
<1> QED BY <1>5, <1>6

LEMMA DedupKeeps ==
  ASSUME DocInv, NEW u \in Uploads, DedupUpload(u) \/ EmbedFails(u) \/ UndoFails(u)
  PROVE  DocInv'
<1>1. UploadOK(u) /\ pin \in [Projects -> Labels] BY DEF DocInv, DocTypes
<1>2. UNCHANGED <<loaded, preferred, pin, doc, move, reembed>> BY DEF DedupUpload, EmbedFails, UndoFails
<1>3. CASE EmbedFails(u)
  <2>1. up' = [up EXCEPT ![u].at = "undo"] BY <1>3 DEF EmbedFails
  <2> QED BY <1>1, <1>2, <2>1, PlacesMove
<1>5. CASE UndoFails(u)
  <2>1. up' = [up EXCEPT ![u].at = "left"] BY <1>5 DEF UndoFails
  <2> QED BY <1>1, <1>2, <2>1, PlacesMove
<1>4. CASE DedupUpload(u)
  <2>1. PICK at \in {"done", "insert"} : up' = [up EXCEPT ![u].at = at]
    BY <1>4 DEF DedupUpload
  <2>2. up[u].at = "dedup" BY <1>4 DEF DedupUpload
  <2>3. ~up[u].late => /\ up[u].model # NoEmbedder
                       /\ ~Repinned(up[u].project) => pin[up[u].project] = up[u].model
    BY <1>1, <2>2 DEF UploadOK, GateOK
  <2> QED BY <1>1, <1>2, <2>1, <2>2, <2>3, PlacesMove DEF Early
<1> QED BY <1>3, <1>4, <1>5

(* The steps of an upload that write its row.                              *)
LEMMA InsertKeeps ==
  ASSUME DocInv, NEW u \in Uploads, InsertDocument(u) PROVE DocInv'
<1>1. /\ doc \in [Uploads -> DocRow] /\ up \in [Uploads -> UpRow] /\ UploadOK(u)
      /\ loaded \subseteq Embedders /\ preferred \in Labels /\ pin \in [Projects -> Labels]
      /\ up[u].file \in Files /\ up[u].project \in Projects
  BY DEF DocInv, DocTypes, UpRow
<1>2. up[u].at = "insert" /\ UNCHANGED <<loaded, preferred, pin, move, reembed>>
  BY DEF InsertDocument
<1> DEFINE stored == [NoDoc EXCEPT !.state = "live", !.file = up[u].file, !.project = up[u].project]
<1>3. /\ stored \in DocRow /\ stored.state = "live" /\ stored.vector = NoEmbedder
      /\ stored.project = up[u].project /\ stored.file = up[u].file
  <2>1. NoDoc \in DocRow /\ NoDoc.vector = NoEmbedder
    BY NoDocIsRow DEF NoDoc
  <2> QED BY <1>1, <2>1 DEF DocRow
<1>4. doc' = [doc EXCEPT ![u] = stored] /\ up' = [up EXCEPT ![u].at = "embed"]
  BY DEF InsertDocument
<1> HIDE DEF stored
<1>5. /\ doc'[u] = stored /\ doc' \in [Uploads -> DocRow]
      /\ \A v \in Uploads : v # u => doc'[v] = doc[v]
  BY <1>1, <1>3, <1>4
<1>6. /\ up'[u].at = "embed" /\ up'[u].late = up[u].late /\ up'[u].model = up[u].model
      /\ up'[u].file = up[u].file
      /\ up'[u].project = up[u].project /\ up' \in [Uploads -> UpRow]
      /\ \A v \in Uploads : v # u => up'[v] = up[v]
  BY <1>1, <1>4 DEF UpRow
<1>7. UploadMoves(u) BY <1>1, <1>2, <1>5, <1>6 DEF UploadMoves
<1>8. LifeOK(u)' BY <1>3, <1>5, <1>6 DEF LifeOK, Embedded, Early
<1>9. GateOK(u)' BY <1>1, <1>2, <1>3, <1>5, <1>6 DEF UploadOK, GateOK, Repinned
<1>10. StoredOK(u)' BY <1>3, <1>5 DEF StoredOK, Embedded
<1>11. ListedOK(u)' BY <1>1, <1>2 DEF UploadOK, ListedOK, Early
<1> QED BY <1>7, <1>8, <1>9, <1>10, <1>11, OthersKeep DEF UploadOK

LEMMA ResolveAtEmbedKeeps ==
  ASSUME DocInv, NEW u \in Uploads, ResolveAtEmbed(u) PROVE DocInv'
<1>1. /\ doc \in [Uploads -> DocRow] /\ up \in [Uploads -> UpRow] /\ UploadOK(u)
      /\ loaded \subseteq Embedders /\ pin \in [Projects -> Labels]
      /\ Resolved \in Labels /\ preferred \in Labels
  BY ResolvedIsLabel DEF DocInv, DocTypes
<1>2. /\ up[u].at = "embed" /\ up[u].late /\ UNCHANGED <<loaded, pin, doc, move, reembed>>
      /\ up' = [up EXCEPT ![u].model = Resolved] /\ preferred' \in Labels
  <2>1. up[u].late \in BOOLEAN BY <1>1 DEF UpRow
  <2> QED BY <1>1, <2>1 DEF ResolveAtEmbed, Remember, UploadOK, GateOK
<1>3. /\ up'[u].at = "embed" /\ up'[u].late = up[u].late /\ up'[u].project = up[u].project
      /\ up'[u].file = up[u].file
      /\ up' \in [Uploads -> UpRow] /\ \A v \in Uploads : v # u => up'[v] = up[v]
  BY <1>1, <1>2 DEF UpRow
<1>4. UploadMoves(u) BY <1>1, <1>2, <1>3 DEF UploadMoves
<1>5. UploadOK(u)'
  BY <1>1, <1>2, <1>3 DEF UploadOK, LifeOK, GateOK, StoredOK, ListedOK, Embedded, Early
<1> QED BY <1>4, <1>5, OthersKeep

LEMMA StoreKeeps ==
  ASSUME DocInv, NEW u \in Uploads, StoreChunks(u) PROVE DocInv'
<1>1. /\ doc \in [Uploads -> DocRow] /\ up \in [Uploads -> UpRow] /\ UploadOK(u)
      /\ loaded \subseteq Embedders /\ preferred \in Labels /\ pin \in [Projects -> Labels]
      /\ up[u].model \in Labels
  BY DEF DocInv, DocTypes, UpRow
<1>2. /\ up[u].at = "embed" /\ up[u].model # NoEmbedder
      /\ UNCHANGED <<loaded, preferred, pin, move, reembed>>
      /\ doc' = IF up[u].file \in Blank THEN doc
               ELSE [doc EXCEPT ![u].vector = up[u].model, ![u].label = up[u].model]
      /\ up' = [up EXCEPT ![u].at = "done"]
  BY DEF StoreChunks
<1>3. /\ up'[u].at = "done" /\ up'[u].late = up[u].late
      /\ up' \in [Uploads -> UpRow] /\ \A v \in Uploads : v # u => up'[v] = up[v]
  BY <1>1, <1>2 DEF UpRow
<1>4. /\ doc'[u].vector = IF doc[u].file \in Blank THEN doc[u].vector ELSE up[u].model
      /\ doc'[u].file = doc[u].file /\ doc'[u].project = doc[u].project
      /\ doc'[u].moved = doc[u].moved /\ doc' \in [Uploads -> DocRow]
      /\ \A v \in Uploads : v # u => doc'[v] = doc[v]
  <2>1. up[u].file = doc[u].file BY <1>1, <1>2 DEF UploadOK, LifeOK
  <2>2. CASE up[u].file \in Blank BY <1>1, <1>2, <2>1, <2>2
  <2>3. CASE up[u].file \notin Blank BY <1>1, <1>2, <2>1, <2>3 DEF DocRow
  <2> QED BY <2>2, <2>3
<1>5. UploadMoves(u) BY <1>1, <1>2, <1>3, <1>4 DEF UploadMoves
<1>6. LifeOK(u)' BY <1>1, <1>2, <1>3, <1>4 DEF UploadOK, LifeOK, Embedded, Early
<1>7. GateOK(u)' BY <1>3 DEF GateOK
<1>8. StoredOK(u)'
  BY <1>1, <1>2, <1>3, <1>4 DEF UploadOK, GateOK, StoredOK, Embedded, Repinned
<1>9. ListedOK(u)' BY <1>1, <1>2, <1>3, <1>4 DEF UploadOK, ListedOK, Early
<1> QED BY <1>5, <1>6, <1>7, <1>8, <1>9, OthersKeep DEF UploadOK

LEMMA RemoveKeeps ==
  ASSUME DocInv, NEW u \in Uploads, UndoUpload(u) \/ DeleteDocument(u) PROVE DocInv'
<1>1. /\ doc \in [Uploads -> DocRow] /\ up \in [Uploads -> UpRow] /\ UploadOK(u)
      /\ loaded \subseteq Embedders /\ preferred \in Labels /\ pin \in [Projects -> Labels]
  BY DEF DocInv, DocTypes
<1>2. UNCHANGED <<loaded, preferred, pin, move, reembed>> BY DEF UndoUpload, DeleteDocument
<1>3. /\ doc'[u].state = "deleted" /\ doc'[u].project = doc[u].project
      /\ doc'[u].file = doc[u].file
      /\ doc'[u].moved = doc[u].moved /\ doc'[u].vector \in {doc[u].vector, NoEmbedder}
      /\ doc' \in [Uploads -> DocRow] /\ \A v \in Uploads : v # u => doc'[v] = doc[v]
  <2>1. CASE UndoUpload(u) BY <1>1, <2>1 DEF UndoUpload, DocRow
  <2>2. CASE DeleteDocument(u)
    <3> DEFINE gone == [doc[u] EXCEPT !.state = "deleted", !.vector = NoEmbedder, !.label = NoEmbedder]
    <3>1. doc[u] \in DocRow /\ NoEmbedder \in Labels BY <1>1 DEF Labels
    <3>2. /\ gone \in DocRow /\ gone.state = "deleted" /\ gone.project = doc[u].project
          /\ gone.file = doc[u].file
          /\ gone.moved = doc[u].moved /\ gone.vector = NoEmbedder
      BY <3>1 DEF DocRow
    <3>3. doc' = [doc EXCEPT ![u] = gone] BY <2>2 DEF DeleteDocument
    <3> HIDE DEF gone
    <3> QED BY <1>1, <3>2, <3>3
  <2> QED BY <2>1, <2>2
<1>4. /\ up' \in [Uploads -> UpRow] /\ \A v \in Uploads : v # u => up'[v] = up[v]
      /\ up'[u].late = up[u].late /\ up'[u].model = up[u].model
      /\ up'[u].project = up[u].project /\ up'[u].file = up[u].file
      /\ (up'[u].at = "failed" /\ up[u].at = "undo") \/ up'[u].at = up[u].at
      /\ up[u].at \notin Early
  <2>1. CASE UndoUpload(u) BY <1>1, <2>1 DEF UndoUpload, UpRow, Early
  <2>2. CASE DeleteDocument(u)
    BY <1>1, <2>2 DEF DeleteDocument, UploadOK, LifeOK
  <2> QED BY <2>1, <2>2
<1>5. UploadMoves(u) BY <1>1, <1>2, <1>3, <1>4 DEF UploadMoves
<1>6. LifeOK(u)' BY <1>1, <1>3, <1>4 DEF UploadOK, LifeOK, Embedded, Early
<1>7. GateOK(u)' BY <1>1, <1>2, <1>3, <1>4 DEF UploadOK, GateOK, Repinned
<1>8. StoredOK(u)' BY <1>1, <1>2, <1>3, <1>4 DEF UploadOK, StoredOK, Embedded, Repinned
<1>9. ListedOK(u)' BY <1>1, <1>2, <1>3, <1>4 DEF UploadOK, ListedOK, Early
<1> QED BY <1>5, <1>6, <1>7, <1>8, <1>9, OthersKeep DEF UploadOK

(* The steps that are no upload's.                                         *)
LEMMA SwapKeeps == ASSUME DocInv, SwapModels PROVE DocInv'
<1>1. DocTypes' BY DEF DocInv, DocTypes, SwapModels, Labels
<1>2. UNCHANGED <<pin, doc, up, move, reembed>> BY DEF SwapModels
<1>3. ReembedOK' BY <1>2 DEF DocInv, ReembedOK
<1>4. \A u \in Uploads : UploadOK(u)'
  BY <1>2 DEF DocInv, UploadOK, LifeOK, GateOK, StoredOK, ListedOK, Embedded, Repinned
<1> QED BY <1>1, <1>3, <1>4 DEF DocInv

LEMMA GateMoveKeeps ==
  ASSUME DocInv, NEW u \in Uploads, NEW p \in Projects, GateMove(u, p) PROVE DocInv'
<1>1. /\ doc \in [Uploads -> DocRow] /\ up \in [Uploads -> UpRow]
      /\ pin \in [Projects -> Labels] /\ loaded \subseteq Embedders
  BY DEF DocInv, DocTypes
<1>2. PICK model \in FirstLoaded : pin' = Pinned(p, model) BY DEF GateMove
<1>3. /\ UNCHANGED <<loaded, preferred, doc, up, reembed>>
      /\ move' = [at |-> "update", doc |-> u, project |-> p]
  BY DEF GateMove
<1>4. model \in Labels BY <1>1, <1>2 DEF FirstLoaded, Labels
<1>5. /\ pin' \in [Projects -> Labels]
      /\ \A q \in Projects : pin[q] # NoEmbedder => pin'[q] = pin[q]
  BY <1>1, <1>2, <1>4 DEF Pinned
<1>6. DocTypes' BY <1>3, <1>5 DEF DocInv, DocTypes
<1>7. ReembedOK' BY <1>3 DEF DocInv, ReembedOK
<1>8. ASSUME NEW v \in Uploads PROVE UploadOK(v)'
  <2>1. /\ UploadOK(v) /\ up[v].project \in Projects /\ doc[v].project \in Projects
    BY <1>1 DEF DocInv, DocRow, UpRow
  <2>2. LifeOK(v)' /\ ListedOK(v)' BY <1>3, <2>1 DEF UploadOK, LifeOK, ListedOK, Embedded
  <2>3. GateOK(v)' BY <1>3, <1>5, <2>1 DEF UploadOK, GateOK, Repinned
  <2>4. StoredOK(v)' BY <1>3, <1>5, <2>1 DEF UploadOK, StoredOK, Embedded, Repinned
  <2> QED BY <2>2, <2>3, <2>4 DEF UploadOK
<1> QED BY <1>6, <1>7, <1>8 DEF DocInv

LEMMA UpdateMoveKeeps == ASSUME DocInv, UpdateMove PROVE DocInv'
<1> DEFINE d == move.doc
<1>1. /\ doc \in [Uploads -> DocRow] /\ up \in [Uploads -> UpRow]
      /\ move.at = "update" /\ d \in Uploads /\ move.project \in Projects
      /\ UNCHANGED <<loaded, preferred, pin, up, reembed>>
  BY DEF DocInv, DocTypes, UpdateMove
<1>2. /\ move' \in [at : {"idle", "update", "done"}, doc : Uploads \cup {NoMove.doc},
                    project : Projects]
      /\ move'.at = "done"
  BY DEF DocInv, DocTypes, UpdateMove
<1>3. doc' \in [Uploads -> DocRow] /\ \A v \in Uploads :
        /\ doc'[v].state = doc[v].state /\ doc'[v].vector = doc[v].vector
        /\ doc'[v].file = doc[v].file
        /\ doc'[v].moved \/ doc'[v] = doc[v]
  BY <1>1 DEF UpdateMove, DocRow
<1>4. DocTypes' BY <1>1, <1>2, <1>3 DEF DocInv, DocTypes
<1>5. ReembedOK' BY <1>1 DEF DocInv, ReembedOK
<1>6. ASSUME NEW v \in Uploads PROVE UploadOK(v)'
  <2>1. UploadOK(v) BY DEF DocInv
  <2>2. LifeOK(v)' BY <1>1, <1>3, <2>1 DEF UploadOK, LifeOK, Embedded
  <2>3. GateOK(v)' BY <1>1, <1>3, <2>1 DEF UploadOK, GateOK, Repinned
  <2>4. StoredOK(v)' BY <1>1, <1>3, <2>1 DEF UploadOK, StoredOK, Embedded, Repinned
  <2>5. ListedOK(v)' BY <1>1, <1>3, <2>1 DEF UploadOK, ListedOK
  <2> QED BY <2>2, <2>3, <2>4, <2>5 DEF UploadOK
<1> QED BY <1>4, <1>5, <1>6 DEF DocInv

LEMMA PinReembedKeeps ==
  ASSUME DocInv, NEW p \in Projects, PinReembed(p) PROVE DocInv'
<1>1. /\ doc \in [Uploads -> DocRow] /\ up \in [Uploads -> UpRow]
      /\ pin \in [Projects -> Labels] /\ Resolved \in Labels /\ preferred \in Labels
  BY ResolvedIsLabel DEF DocInv, DocTypes
<1>2. /\ reembed.at = "idle" /\ Resolved # NoEmbedder /\ preferred' \in Labels
      /\ pin' = [pin EXCEPT ![p] = Resolved] /\ UNCHANGED <<loaded, doc, up, move>>
      /\ reembed' = [at |-> "list", project |-> p, model |-> Resolved,
                     todo |-> {}, read |-> {}]
  BY <1>1 DEF PinReembed, Remember
<1>3. DocTypes' BY <1>1, <1>2 DEF DocInv, DocTypes, ReembedRow
<1>4. ReembedOK' BY <1>2 DEF ReembedOK
<1>5. ASSUME NEW v \in Uploads PROVE UploadOK(v)'
  <2>1. /\ UploadOK(v) /\ up[v].project \in Projects /\ doc[v].project \in Projects
    BY <1>1 DEF DocInv, DocRow, UpRow
  <2>2. LifeOK(v)' BY <1>2, <2>1 DEF UploadOK, LifeOK, Embedded
  <2>3. ListedOK(v)' BY <1>2 DEF ListedOK
  <2>4. Repinned(p)' /\ \A q \in Projects : q # p => pin'[q] = pin[q] /\ ~Repinned(q)
    BY <1>1, <1>2 DEF Repinned
  <2>5. GateOK(v)' BY <1>2, <2>1, <2>4 DEF UploadOK, GateOK
  <2>6. StoredOK(v)' BY <1>2, <2>1, <2>4 DEF UploadOK, StoredOK, Embedded
  <2> QED BY <2>2, <2>3, <2>5, <2>6 DEF UploadOK
<1> QED BY <1>3, <1>4, <1>5 DEF DocInv

(* The list of the re-embedding is made or shortened, or it ends.          *)
LEMMA ReembedMoves ==
  ASSUME DocInv, UNCHANGED <<loaded, preferred, pin, doc, up, move>>,
         reembed' \in ReembedRow, reembed.at # "idle", reembed'.at \in {"each", "done"},
         reembed'.project = reembed.project, reembed'.model = reembed.model,
         reembed'.at = "each" => reembed.at \in {"list", "each"},
         reembed'.read \subseteq reembed'.todo, reembed'.read # {} => reembed'.at = "each",
         \A u \in reembed'.todo :
           u \in reembed.todo \/ (doc[u].state = "live" /\ doc[u].project = reembed.project)
  PROVE  DocInv'
<1>1. DocTypes' BY DEF DocInv, DocTypes
<1>2. ReembedOK' BY DEF DocInv, ReembedOK
<1>3. \A u \in Uploads : LifeOK(u)' /\ GateOK(u)' /\ StoredOK(u)'
  BY DEF DocInv, UploadOK, LifeOK, GateOK, StoredOK, Embedded, Repinned
<1>4. \A u \in Uploads : ListedOK(u)'
  BY DEF DocInv, UploadOK, LifeOK, ListedOK
<1> QED BY <1>1, <1>2, <1>3, <1>4 DEF DocInv, UploadOK

LEMMA ListKeeps ==
  ASSUME DocInv, ListReembed \/ EndReembed \/ \E u \in Uploads : ReadChunks(u)
  PROVE  DocInv'
<1>1. reembed \in ReembedRow /\ ReembedOK BY DEF DocInv, DocTypes
<1>2. CASE ListReembed
  <2>1. PICK todo \in SUBSET Uploads :
          todo = {u \in Uploads : doc[u].state = "live" /\ doc[u].project = reembed.project}
    OBVIOUS
  <2>2. /\ reembed' = [reembed EXCEPT !.at = "each", !.todo = todo]
        /\ reembed.at = "list" /\ reembed.read = {}
        /\ UNCHANGED <<loaded, preferred, pin, doc, up, move>>
    BY <1>1, <1>2, <2>1 DEF ListReembed, ReembedOK
  <2>3. /\ reembed' \in ReembedRow /\ reembed'.at = "each" /\ reembed'.todo = todo
        /\ reembed'.read = {} /\ reembed'.project = reembed.project
        /\ reembed'.model = reembed.model
    BY <1>1, <2>2 DEF ReembedRow
  <2> QED BY <2>1, <2>2, <2>3, ReembedMoves
<1>3. CASE EndReembed
  <2>1. /\ reembed' = [reembed EXCEPT !.at = "done", !.todo = {}, !.read = {}]
        /\ reembed.at = "each" /\ UNCHANGED <<loaded, preferred, pin, doc, up, move>>
    BY <1>3 DEF EndReembed
  <2>2. /\ reembed' \in ReembedRow /\ reembed'.at = "done" /\ reembed'.todo = {}
        /\ reembed'.read = {} /\ reembed'.project = reembed.project
        /\ reembed'.model = reembed.model
    BY <1>1, <2>1 DEF ReembedRow
  <2> QED BY <2>1, <2>2, ReembedMoves
<1>4. ASSUME NEW u \in Uploads, ReadChunks(u) PROVE DocInv'
  <2>1. /\ \/ reembed' = [reembed EXCEPT !.read = {u}]
           \/ reembed' = [reembed EXCEPT !.todo = @ \ {u}]
        /\ reembed.at = "each" /\ reembed.read = {} /\ u \in reembed.todo
        /\ UNCHANGED <<loaded, preferred, pin, doc, up, move>>
    BY <1>4 DEF ReadChunks
  <2>2. /\ reembed' \in ReembedRow /\ reembed'.at = "each" /\ reembed'.todo \subseteq reembed.todo
        /\ reembed'.read \subseteq reembed'.todo
        /\ reembed'.project = reembed.project /\ reembed'.model = reembed.model
    BY <1>1, <2>1 DEF ReembedRow
  <2>3. \A v \in reembed'.todo : v \in reembed.todo BY <2>2
  <2> QED BY <2>1, <2>2, <2>3, ReembedMoves
<1> QED BY <1>2, <1>3, <1>4

LEMMA WriteVectorsKeeps ==
  ASSUME DocInv, NEW u \in Uploads, WriteVectors(u) PROVE DocInv'
<1>1. /\ doc \in [Uploads -> DocRow] /\ up \in [Uploads -> UpRow] /\ UploadOK(u)
      /\ reembed \in ReembedRow
  BY DEF DocInv, DocTypes
<1>2. /\ reembed.at = "each" /\ u \in reembed.todo /\ reembed.model # NoEmbedder
      /\ UNCHANGED <<loaded, preferred, pin, up, move>>
  BY DEF DocInv, ReembedOK, WriteVectors
<1>3. /\ reembed' \in ReembedRow
      /\ reembed'.at = "each" /\ reembed'.todo = reembed.todo \ {u} /\ reembed'.read = {}
      /\ reembed'.project = reembed.project /\ reembed'.model = reembed.model
  <2>1. reembed' = [reembed EXCEPT !.todo = @ \ {u}, !.read = {}] BY DEF WriteVectors
  <2> QED BY <1>1, <1>2, <2>1 DEF ReembedRow
<1>4. /\ doc' \in [Uploads -> DocRow]
      /\ \A v \in Uploads :
           /\ doc'[v].state = doc[v].state /\ doc'[v].project = doc[v].project
           /\ doc'[v].file = doc[v].file
           /\ doc'[v].moved = doc[v].moved /\ Embedded(v)' = Embedded(v)
           /\ v # u => doc'[v] = doc[v]
  <2>1. CASE Embedded(u)
    <3>1. doc' = [doc EXCEPT ![u].vector = reembed.model] BY <2>1 DEF WriteVectors
    <3> QED BY <1>1, <1>2, <2>1, <3>1 DEF Embedded, DocRow, ReembedRow
  <2>2. CASE ~Embedded(u)
    <3>1. doc' = doc BY <2>2 DEF WriteVectors
    <3> QED BY <1>1, <3>1 DEF Embedded
  <2> QED BY <2>1, <2>2
<1>5. DocTypes' BY <1>2, <1>3, <1>4 DEF DocInv, DocTypes
<1>6. ReembedOK' BY <1>2, <1>3 DEF ReembedOK
<1>7. \A p : Repinned(p)' <=> Repinned(p) BY <1>2, <1>3 DEF Repinned
<1>8. ASSUME NEW v \in Uploads PROVE UploadOK(v)'
  <2>1. UploadOK(v) BY DEF DocInv
  <2>2. LifeOK(v)' BY <1>2, <1>4, <2>1 DEF UploadOK, LifeOK
  <2>3. GateOK(v)' BY <1>2, <1>4, <1>7, <2>1 DEF UploadOK, GateOK
  <2>4. StoredOK(v)'
    <3>1. CASE v = u
      BY <1>1, <1>2, <1>4, <1>7, <3>1 DEF UploadOK, ListedOK, StoredOK, Repinned
    <3>2. CASE v # u BY <1>2, <1>4, <1>7, <2>1, <3>2 DEF UploadOK, StoredOK
    <3> QED BY <3>1, <3>2
  <2>5. ListedOK(v)' BY <1>2, <1>3, <1>4, <2>1 DEF UploadOK, ListedOK
  <2> QED BY <2>2, <2>3, <2>4, <2>5 DEF UploadOK
<1> QED BY <1>5, <1>6, <1>8 DEF DocInv

LEMMA HaltKeeps == ASSUME DocInv, Halt PROVE DocInv'
<1>1. /\ up \in [Uploads -> UpRow] /\ UNCHANGED <<loaded, preferred, pin, doc>>
      /\ move \in [at : {"idle", "update", "done"}, doc : Uploads \cup {NoMove.doc},
                   project : Projects]
      /\ reembed \in ReembedRow
  BY DEF DocInv, DocTypes, Halt
<1>2. up' \in [Uploads -> UpRow] /\ \A u \in Uploads :
        /\ \/ up'[u].at \in {"idle", "done", "failed", "left"} /\ up'[u] = up[u]
           \/ up'[u].at = "lost"
        /\ up'[u].late = up[u].late
  BY <1>1 DEF Halt, UpRow
<1>3. /\ reembed' \in ReembedRow
      /\ reembed'.at \in {"idle", "done"} /\ (reembed'.at = "idle" <=> reembed.at = "idle")
      /\ reembed'.todo = {} /\ reembed'.read = {} /\ reembed'.project = reembed.project
  BY <1>1 DEF Halt, DocInv, ReembedOK, ReembedRow
<1>4. /\ move' \in [at : {"idle", "update", "done"}, doc : Uploads \cup {NoMove.doc},
                    project : Projects]
      /\ move'.at # "update"
  BY <1>1 DEF Halt
<1>5. DocTypes' BY <1>1, <1>2, <1>3, <1>4 DEF DocInv, DocTypes
<1>6. ReembedOK' BY <1>3 DEF ReembedOK
<1>7. ASSUME NEW u \in Uploads PROVE UploadOK(u)'
  <2>1. UploadOK(u) BY DEF DocInv
  <2>2. LifeOK(u)' BY <1>1, <1>2, <2>1 DEF UploadOK, LifeOK, Embedded, Early
  <2>3. GateOK(u)' BY <1>2 DEF GateOK
  <2>4. StoredOK(u)' BY <1>1, <1>2, <1>3, <2>1 DEF UploadOK, StoredOK, Embedded, Repinned
  <2>5. ListedOK(u)' BY <1>3 DEF ListedOK
  <2> QED BY <2>2, <2>3, <2>4, <2>5 DEF UploadOK
<1> QED BY <1>5, <1>6, <1>7 DEF DocInv

LEMMA DocInvHolds == DocSpec => []DocInv
<1>1. DocInv /\ [DocNext]_documentVars => DocInv'
  <2> SUFFICES ASSUME DocInv, [DocNext]_documentVars PROVE DocInv' OBVIOUS
  <2>1. ASSUME NEW u \in Uploads, Upload(u) PROVE DocInv'
    BY <2>1, ResolveKeeps, GateKeeps, DedupKeeps, InsertKeeps, ResolveAtEmbedKeeps, StoreKeeps,
       RemoveKeeps DEF Upload
  <2>2. ASSUME NEW u \in Uploads, DeleteDocument(u) \/ ReadChunks(u) \/ WriteVectors(u) PROVE DocInv'
    BY <2>2, RemoveKeeps, ListKeeps, WriteVectorsKeeps
  <2>3. ASSUME NEW u \in Uploads, NEW p \in Projects, GateMove(u, p) PROVE DocInv'
    BY <2>3, GateMoveKeeps
  <2>4. ASSUME NEW p \in Projects, PinReembed(p) PROVE DocInv' BY <2>4, PinReembedKeeps
  <2>5. SwapModels \/ UpdateMove \/ ListReembed \/ EndReembed \/ Halt => DocInv'
    BY SwapKeeps, UpdateMoveKeeps, ListKeeps, HaltKeeps
  <2>6. CASE UNCHANGED documentVars
    BY <2>6 DEF documentVars, DocInv, DocTypes, ReembedOK, UploadOK, LifeOK, GateOK, StoredOK,
                ListedOK, Embedded, Repinned
  <2> QED BY <2>1, <2>2, <2>3, <2>4, <2>5, <2>6 DEF DocNext
<1> QED BY <1>1, DocInit_Inv, PTL DEF DocSpec

(* A live document without chunks is one whose upload is under way, one of *)
(* white space, or one that a stopped process or a failed compensating     *)
(* delete left: none was stored, embedded again, moved or deleted into     *)
(* that state, and no other failure leaves one (upload_document,           *)
(* chunk_and_embed, re_embed_project_documents).                           *)
THEOREM NoUploadDies == DocSpec => []NoDeadDocument
<1>1. DocInv => NoDeadDocument
  BY DEF DocInv, DocTypes, UpRow, UploadOK, LifeOK, Early, NoDeadDocument
<1> QED BY <1>1, DocInvHolds, PTL

(* What an upload stores is of the model its project is pinned to: the     *)
(* gate pinned it before the row was there, and no other upload or move    *)
(* changes a pin that is set (_enforce_embedding_pin_or_pin).              *)
THEOREM UploadsMatchTheirPin == DocSpec => []UploadedUnderPin
<1>1. DocInv => UploadedUnderPin
  BY DEF DocInv, DocTypes, UploadOK, StoredOK, UploadedUnderPin, Repinned
<1> QED BY <1>1, DocInvHolds, PTL

-----------------------------------------------------------------------------
(* Insights. AutoCapKept is not inductive: fading what was listed takes    *)
(* the saver out of the count at the same time, so what would be left if   *)
(* any of the savers that have a list had faded it must keep the bound.    *)

InsightRow == [kind : {"none", "pinned", "auto"}, text : Texts \cup {NoText}, active : BOOLEAN]
PinnerRow == [at : {"idle", "count", "insert", "done", "refused"}, text : Texts \cup {NoText}]
SaverRow == [at : {"idle", "insert", "evict", "fade", "done", "failed"},
             text : Texts \cup {NoText}, fades : SUBSET RowIds]

InsightTypes ==
  /\ insight \in [RowIds -> InsightRow] /\ pinner \in [Pinners -> PinnerRow]
  /\ saver \in [Savers -> SaverRow]

Pending == {s \in Savers : saver[s].at \in {"evict", "fade", "failed"}}
Fading == {s \in Savers : saver[s].at = "fade"}
Spared(T) == {i \in Distilled : \A s \in T : i \notin saver[s].fades}

CapHolds(T) == Cardinality(Spared(T)) <= AutoCap + Cardinality(Pending \ T)
CapInv == \A T \in SUBSET Fading : CapHolds(T)
InsightInv == InsightTypes /\ CapInv

LEMMA CountsAreFinite ==
  ASSUME NEW S, S \subseteq RowIds \/ S \subseteq Savers
  PROVE  IsFiniteSet(S) /\ Cardinality(S) \in Nat
<1>1. MaxRows \in Nat /\ IsFiniteSet(Savers) BY InsightsAssumption
<1>2. IsFiniteSet(RowIds) BY <1>1, FS_Interval DEF RowIds
<1>3. IsFiniteSet(S) BY <1>1, <1>2, FS_Subset
<1> QED BY <1>3, FS_CardinalityType

LEMMA SparedAndPending ==
  \A T : /\ Spared(T) \subseteq RowIds /\ Pending \ T \subseteq Savers
        /\ Cardinality(Spared(T)) \in Nat /\ Cardinality(Pending \ T) \in Nat
BY CountsAreFinite DEF Spared, Pending, Distilled, Of

LEMMA InsightsInit_Inv == InsightsInit => InsightInv
<1> SUFFICES ASSUME InsightsInit PROVE InsightInv OBVIOUS
<1>1. InsightTypes
  BY DEF InsightsInit, InsightTypes, InsightRow, PinnerRow, SaverRow, NoInsight
<1>2. ASSUME NEW T PROVE CapHolds(T)
  <2>1. Spared(T) = {} BY DEF InsightsInit, Spared, Distilled, Of, NoInsight
  <2>2. AutoCap \in Nat BY InsightsAssumption
  <2> QED BY <2>1, <2>2, SparedAndPending, FS_EmptySet DEF CapHolds
<1> QED BY <1>1, <1>2 DEF InsightInv, CapInv

(* No distilled fact comes to count, and no saver starts or ends.          *)
LEMMA QuietKeeps ==
  ASSUME CapInv, Distilled' \subseteq Distilled,
         \A s \in Savers :
           /\ saver'[s].at \in {"evict", "fade", "failed"} <=>
                saver[s].at \in {"evict", "fade", "failed"}
           /\ saver'[s].at = "fade" =>
                saver[s].at = "fade" /\ saver'[s].fades = saver[s].fades
  PROVE  CapInv'
<1> SUFFICES ASSUME NEW T, T \subseteq Fading' PROVE CapHolds(T)' BY DEF CapInv
<1>1. T \subseteq Fading /\ T \subseteq Savers BY DEF Fading
<1>2. Spared(T)' \subseteq Spared(T) BY <1>1 DEF Spared, Fading
<1>3. Pending' = Pending BY DEF Pending
<1>4. Cardinality(Spared(T)') <= Cardinality(Spared(T)) /\ Cardinality(Spared(T)') \in Nat
  <2>1. IsFiniteSet(Spared(T)) BY SparedAndPending, CountsAreFinite
  <2>2. IsFiniteSet(Spared(T)') /\ Cardinality(Spared(T)') <= Cardinality(Spared(T))
    BY <1>2, <2>1, FS_Subset
  <2> QED BY <2>2, FS_CardinalityType
<1>5. CapHolds(T) BY <1>1 DEF CapInv
<1>6. AutoCap \in Nat BY InsightsAssumption
<1>7. Cardinality(Spared(T)) <= AutoCap + Cardinality(Pending \ T) BY <1>5 DEF CapHolds
<1>8. Cardinality(Spared(T)) \in Nat /\ Cardinality(Pending \ T) \in Nat BY SparedAndPending
<1>9. Cardinality(Spared(T)') <= AutoCap + Cardinality(Pending \ T)
  BY <1>4, <1>6, <1>7, <1>8
<1> QED BY <1>3, <1>9 DEF CapHolds

LEMMA InsertAutoKeeps ==
  ASSUME InsightInv, NEW s \in Savers, saver[s].at = "insert", NEW r \in RowIds,
         insight' = [insight EXCEPT ![r] = NewInsight("auto", saver[s].text)],
         saver' = [saver EXCEPT ![s].at = "evict"]
  PROVE  CapInv'
<1> SUFFICES ASSUME NEW T, T \subseteq Fading' PROVE CapHolds(T)' BY DEF CapInv
<1>1. /\ insight \in [RowIds -> InsightRow] /\ saver \in [Savers -> SaverRow] /\ CapInv
  BY DEF InsightInv, InsightTypes
<1>2. /\ saver'[s].at = "evict" /\ saver'[s].fades = saver[s].fades
      /\ \A t \in Savers : t # s => saver'[t] = saver[t]
  BY <1>1 DEF SaverRow
<1>3. T \subseteq Fading /\ s \notin T /\ T \subseteq Savers BY <1>2 DEF Fading
<1>4. \A i \in RowIds : i # r => insight'[i] = insight[i] BY <1>1
<1>5. Spared(T)' \subseteq Spared(T) \cup {r}
  BY <1>2, <1>3, <1>4 DEF Spared, Distilled, Of
<1>6. s \notin Pending /\ (Pending \ T)' = (Pending \ T) \cup {s}
  BY <1>2, <1>3 DEF Pending
<1>7. /\ Cardinality(Spared(T)) \in Nat /\ Cardinality(Pending \ T) \in Nat
      /\ IsFiniteSet(Spared(T)) /\ IsFiniteSet(Pending \ T)
  BY SparedAndPending, CountsAreFinite
<1>8. Cardinality((Pending \ T)') = Cardinality(Pending \ T) + 1
  BY <1>6, <1>7, FS_AddElement
<1>9. /\ Cardinality(Spared(T)') \in Nat
      /\ Cardinality(Spared(T)') <= Cardinality(Spared(T)) + 1
  <2>1. /\ IsFiniteSet(Spared(T) \cup {r})
        /\ Cardinality(Spared(T) \cup {r}) <= Cardinality(Spared(T)) + 1
        /\ Cardinality(Spared(T) \cup {r}) \in Nat
    BY <1>7, FS_AddElement, FS_CardinalityType
  <2>2. /\ IsFiniteSet(Spared(T)')
        /\ Cardinality(Spared(T)') <= Cardinality(Spared(T) \cup {r})
    BY <1>5, <2>1, FS_Subset
  <2>3. Cardinality(Spared(T)') \in Nat BY <2>2, FS_CardinalityType
  <2> QED BY <1>7, <2>1, <2>2, <2>3
<1>10. Cardinality(Spared(T)) <= AutoCap + Cardinality(Pending \ T)
  BY <1>1, <1>3 DEF CapInv, CapHolds
<1>11. AutoCap \in Nat BY InsightsAssumption
<1>12. Cardinality(Spared(T)') <= AutoCap + Cardinality((Pending \ T)')
  BY <1>7, <1>8, <1>9, <1>10, <1>11
<1> QED BY <1>12 DEF CapHolds

LEMMA ListOverCapKeeps ==
  ASSUME InsightInv, NEW s \in Savers, ListOverCap(s) PROVE CapInv'
<1>1. /\ saver[s].at = "evict" /\ insight' = insight /\ saver \in [Savers -> SaverRow]
      /\ CapInv
  BY DEF InsightInv, InsightTypes, ListOverCap
<1>2. PICK S \in OverCap(Distilled) :
        saver' = [saver EXCEPT ![s].at = IF S = {} THEN "done" ELSE "fade", ![s].fades = S]
  BY DEF ListOverCap
<1>3. /\ saver'[s].at = IF S = {} THEN "done" ELSE "fade"
      /\ saver'[s].fades = S /\ \A t \in Savers : t # s => saver'[t] = saver[t]
  BY <1>1, <1>2 DEF SaverRow
<1>4. Distilled' = Distilled BY <1>1 DEF Distilled, Of
<1>5. IsFiniteSet(Distilled) /\ Cardinality(Distilled) \in Nat /\ AutoCap \in Nat
  BY CountsAreFinite, InsightsAssumption DEF Distilled, Of
<1>6. /\ S \subseteq Distilled
      /\ Cardinality(S) = IF Cardinality(Distilled) > AutoCap
                          THEN Cardinality(Distilled) - AutoCap ELSE 0
  BY <1>2 DEF OverCap
<1>7. Cardinality(Distilled \ S) <= AutoCap
  <2>1. Cardinality(Distilled \ S) = Cardinality(Distilled) - Cardinality(Distilled \cap S)
    BY <1>5, FS_Difference
  <2>2. Distilled \cap S = S BY <1>6
  <2>3. Cardinality(Distilled \ S) = Cardinality(Distilled) - Cardinality(S) BY <2>1, <2>2
  <2>4. CASE Cardinality(Distilled) > AutoCap
    <3>1. Cardinality(S) = Cardinality(Distilled) - AutoCap BY <1>6, <2>4
    <3> QED BY <1>5, <2>3, <3>1
  <2>5. CASE ~(Cardinality(Distilled) > AutoCap)
    <3>1. Cardinality(S) = 0 BY <1>6, <2>5
    <3> QED BY <1>5, <2>3, <2>5, <3>1
  <2> QED BY <2>4, <2>5
<1> SUFFICES ASSUME NEW T, T \subseteq Fading' PROVE CapHolds(T)' BY DEF CapInv
<1>8. Spared(T)' \subseteq Distilled /\ Cardinality((Pending \ T)') \in Nat
  <2>1. (Pending \ T)' \subseteq Savers BY DEF Pending
  <2> QED BY <1>4, <2>1, CountsAreFinite DEF Spared
<1>9. CASE s \in T \/ S = {}
  <2>1. Spared(T)' \subseteq Distilled \ S
    BY <1>3, <1>4, <1>8, <1>9 DEF Spared
  <2>2. IsFiniteSet(Distilled \ S) BY <1>5, FS_Difference
  <2>3. /\ Cardinality(Spared(T)') <= Cardinality(Distilled \ S)
        /\ Cardinality(Spared(T)') \in Nat /\ Cardinality(Distilled \ S) \in Nat
    BY <2>1, <2>2, FS_Subset, FS_CardinalityType
  <2>4. Cardinality(Spared(T)') <= AutoCap + Cardinality((Pending \ T)')
    BY <1>5, <1>7, <1>8, <2>3
  <2> QED BY <2>4 DEF CapHolds
<1>10. CASE s \notin T /\ S # {}
  <2>1. T \subseteq Fading BY <1>3, <1>10 DEF Fading
  <2>2. Pending' = Pending BY <1>1, <1>3, <1>10 DEF Pending
  <2>3. Spared(T)' = Spared(T) BY <1>3, <1>4, <1>10, <2>1 DEF Spared, Fading
  <2>4. CapHolds(T) BY <1>1, <2>1 DEF CapInv
  <2> QED BY <2>2, <2>3, <2>4 DEF CapHolds
<1> QED BY <1>9, <1>10

LEMMA FadeOverCapKeeps ==
  ASSUME InsightInv, NEW s \in Savers, FadeOverCap(s) PROVE InsightTypes' /\ CapInv'
<1>1. /\ insight \in [RowIds -> InsightRow] /\ saver \in [Savers -> SaverRow]
      /\ pinner \in [Pinners -> PinnerRow] /\ CapInv
  BY DEF InsightInv, InsightTypes
<1>2. /\ saver[s].at = "fade" /\ saver' = [saver EXCEPT ![s].at = "done"] /\ pinner' = pinner
      /\ insight' = [i \in RowIds |->
           IF i \in saver[s].fades THEN [insight[i] EXCEPT !.active = FALSE] ELSE insight[i]]
  BY DEF FadeOverCap
<1>3. /\ saver'[s].at = "done" /\ \A t \in Savers : t # s => saver'[t] = saver[t]
      /\ saver' \in [Savers -> SaverRow]
  BY <1>1, <1>2 DEF SaverRow
<1>4. \A i \in RowIds : /\ insight'[i] \in InsightRow /\ insight'[i].kind = insight[i].kind
                        /\ IF i \in saver[s].fades THEN ~insight'[i].active
                           ELSE insight'[i] = insight[i]
  BY <1>1, <1>2 DEF InsightRow
<1>5. insight' \in [RowIds -> InsightRow] BY <1>2, <1>4
<1>6. InsightTypes' BY <1>1, <1>2, <1>3, <1>5 DEF InsightTypes
<1>7. ASSUME NEW T, T \subseteq Fading' PROVE CapHolds(T)'
  <2>1. s \notin T /\ T \cup {s} \subseteq Fading BY <1>2, <1>3, <1>7 DEF Fading
  <2>2. Spared(T)' = Spared(T \cup {s})
    <3>1. T \subseteq Savers BY <1>7 DEF Fading
    <3>2. Distilled' = {i \in Distilled : i \notin saver[s].fades}
      BY <1>4 DEF Distilled, Of
    <3> QED BY <1>3, <2>1, <3>1, <3>2 DEF Spared
  <2>3. (Pending \ T)' = Pending \ (T \cup {s}) BY <1>3 DEF Pending
  <2>4. CapHolds(T \cup {s}) BY <1>1, <2>1 DEF CapInv
  <2> QED BY <2>2, <2>3, <2>4 DEF CapHolds
<1> QED BY <1>6, <1>7 DEF CapInv

(* Pins come and go and rows are edited: no distilled fact comes to count. *)
LEMMA ReplaceKeepsDistilled ==
  ASSUME InsightTypes, NEW texts \in SUBSET (Texts \cup {NoText}), ReplacePins(texts)
  PROVE  insight' \in [RowIds -> InsightRow] /\ Distilled' \subseteq Distilled
<1> DEFINE stays == [i \in RowIds |-> IF insight[i].kind = "pinned" THEN NoInsight ELSE insight[i]]
           new == {t \in texts : \A i \in RowIds : stays[i].text # t}
           first == 1 + Max({0} \cup {i \in RowIds : stays[i] # NoInsight})
<1>1. insight \in [RowIds -> InsightRow] BY DEF InsightTypes
<1>2. \A i \in RowIds : /\ stays[i] \in InsightRow
                        /\ stays[i] = insight[i] \/ stays[i] = NoInsight
  BY <1>1 DEF InsightRow, NoInsight
<1>3. PICK place : insight' = [i \in RowIds |->
        IF \E t \in new : place[t] = i
        THEN NewInsight("pinned", CHOOSE t \in new : place[t] = i) ELSE stays[i]]
  BY DEF ReplacePins
<1>4. new \subseteq Texts \cup {NoText} OBVIOUS
<1> HIDE DEF stays, new, first
<1>5. ASSUME NEW i \in RowIds
      PROVE  /\ insight'[i] \in InsightRow
             /\ insight'[i].kind = "auto" /\ insight'[i].active =>
                  insight[i].kind = "auto" /\ insight[i].active
  <2>1. CASE \E t \in new : place[t] = i
    <3>1. PICK t \in new : insight'[i] = NewInsight("pinned", t) BY <1>3, <2>1
    <3>2. t \in Texts \cup {NoText} BY <1>4
    <3> QED BY <3>1, <3>2 DEF NewInsight, InsightRow
  <2>2. CASE ~\E t \in new : place[t] = i
    <3>1. insight'[i] = stays[i] BY <1>3, <2>2
    <3> QED BY <1>2, <3>1 DEF NoInsight
  <2> QED BY <2>1, <2>2
<1>6. insight' \in [RowIds -> InsightRow] BY <1>3, <1>5
<1>7. Distilled' \subseteq Distilled BY <1>5 DEF Distilled, Of
<1> QED BY <1>6, <1>7

LEMMA PinnerKeeps ==
  ASSUME InsightInv, NEW p \in Pinners,
         (\E t \in Texts : LookUpPin(p, t)) \/ CountPins(p) \/ InsertPin(p)
  PROVE  InsightInv'
<1>1. /\ insight \in [RowIds -> InsightRow] /\ pinner \in [Pinners -> PinnerRow]
      /\ saver \in [Savers -> SaverRow] /\ CapInv /\ saver' = saver
  BY DEF InsightInv, InsightTypes, LookUpPin, CountPins, InsertPin
<1>2. pinner' \in [Pinners -> PinnerRow]
  <2>1. ASSUME NEW t \in Texts, LookUpPin(p, t) PROVE pinner' \in [Pinners -> PinnerRow]
    BY <1>1, <2>1 DEF LookUpPin, PinnerRow
  <2>2. CASE CountPins(p) BY <1>1, <2>2 DEF CountPins, PinnerRow
  <2>3. CASE InsertPin(p) BY <1>1, <2>3 DEF InsertPin, PinnerRow
  <2> QED BY <2>1, <2>2, <2>3
<1>3. insight' \in [RowIds -> InsightRow] /\ Distilled' \subseteq Distilled
  <2>1. CASE insight' = insight BY <1>1, <2>1 DEF Distilled, Of
  <2>2. CASE insight' # insight
    <3>1. PICK r \in RowIds : insight' = [insight EXCEPT ![r] = NewInsight("pinned", pinner[p].text)]
      BY <2>2 DEF InsertPin, LookUpPin, CountPins
    <3>2. NewInsight("pinned", pinner[p].text) \in InsightRow
      BY <1>1 DEF NewInsight, InsightRow, PinnerRow
    <3>3. NewInsight("pinned", pinner[p].text).kind = "pinned" BY DEF NewInsight
    <3> QED BY <1>1, <3>1, <3>2, <3>3 DEF Distilled, Of
  <2> QED BY <2>1, <2>2
<1>4. CapInv' BY <1>1, <1>3, QuietKeeps
<1> QED BY <1>1, <1>2, <1>3, <1>4 DEF InsightInv, InsightTypes

LEMMA SaverKeeps ==
  ASSUME InsightInv, NEW s \in Savers,
         \/ \E t \in Texts : LookUpAuto(s, t)
         \/ InsertAuto(s) \/ ListOverCap(s) \/ FadeOverCap(s) \/ FailToFade(s)
  PROVE  InsightInv'
<1>1. /\ insight \in [RowIds -> InsightRow] /\ pinner \in [Pinners -> PinnerRow]
      /\ saver \in [Savers -> SaverRow] /\ CapInv /\ pinner' = pinner
  BY DEF InsightInv, InsightTypes, LookUpAuto, InsertAuto, ListOverCap, FadeOverCap, FailToFade
<1>2. ASSUME NEW t \in Texts, LookUpAuto(s, t) PROVE InsightInv'
  <2>1. PICK at \in {"done", "insert"} : saver' = [saver EXCEPT ![s].at = at, ![s].text = t]
    BY <1>2 DEF LookUpAuto
  <2>2. insight' = insight /\ saver[s].at = "idle" BY <1>2 DEF LookUpAuto
  <2>3. /\ saver' \in [Savers -> SaverRow] /\ saver'[s].at = at
        /\ \A q \in Savers : q # s => saver'[q] = saver[q]
    BY <1>1, <2>1 DEF SaverRow
  <2>4. CapInv' BY <1>1, <2>2, <2>3, QuietKeeps DEF Distilled, Of
  <2> QED BY <1>1, <2>2, <2>3, <2>4 DEF InsightInv, InsightTypes
<1>3. CASE InsertAuto(s)
  <2>1. saver[s].at = "insert" BY <1>3 DEF InsertAuto
  <2>2. CASE insight' = insight /\ saver' = [saver EXCEPT ![s].at = "done"]
    <3>1. /\ saver' \in [Savers -> SaverRow] /\ saver'[s].at = "done"
          /\ \A q \in Savers : q # s => saver'[q] = saver[q]
      BY <1>1, <2>2 DEF SaverRow
    <3>2. CapInv' BY <1>1, <2>1, <2>2, <3>1, QuietKeeps DEF Distilled, Of
    <3> QED BY <1>1, <2>2, <3>1, <3>2 DEF InsightInv, InsightTypes
  <2>3. CASE ~(insight' = insight /\ saver' = [saver EXCEPT ![s].at = "done"])
    <3>1. PICK r \in RowIds :
            /\ insight' = [insight EXCEPT ![r] = NewInsight("auto", saver[s].text)]
            /\ saver' = [saver EXCEPT ![s].at = "evict"]
      BY <1>3, <2>3 DEF InsertAuto
    <3>2. CapInv' BY <2>1, <3>1, InsertAutoKeeps
    <3>3. NewInsight("auto", saver[s].text) \in InsightRow
      BY <1>1 DEF NewInsight, InsightRow, SaverRow
    <3>4. saver' \in [Savers -> SaverRow] BY <1>1, <3>1 DEF SaverRow
    <3>5. insight' \in [RowIds -> InsightRow] BY <1>1, <3>1, <3>3
    <3> QED BY <1>1, <3>2, <3>4, <3>5 DEF InsightInv, InsightTypes
  <2> QED BY <2>2, <2>3
<1>4. CASE ListOverCap(s)
  <2>1. PICK at \in {"done", "fade"}, S \in SUBSET RowIds :
          saver' = [saver EXCEPT ![s].at = at, ![s].fades = S]
    BY <1>4 DEF ListOverCap, OverCap, Distilled, Of
  <2>2. saver' \in [Savers -> SaverRow] BY <1>1, <2>1 DEF SaverRow
  <2>3. insight' = insight BY <1>4 DEF ListOverCap
  <2> QED BY <1>1, <1>4, <2>2, <2>3, ListOverCapKeeps DEF InsightInv, InsightTypes
<1>5. CASE FadeOverCap(s) BY <1>5, FadeOverCapKeeps DEF InsightInv
<1>6. CASE FailToFade(s)
  <2>1. /\ insight' = insight /\ saver[s].at \in {"evict", "fade"}
        /\ saver' = [saver EXCEPT ![s].at = "failed"]
    BY <1>6 DEF FailToFade
  <2>2. /\ saver' \in [Savers -> SaverRow] /\ saver'[s].at = "failed"
        /\ \A q \in Savers : q # s => saver'[q] = saver[q]
    BY <1>1, <2>1 DEF SaverRow
  <2>3. CapInv' BY <1>1, <2>1, <2>2, QuietKeeps DEF Distilled, Of
  <2> QED BY <1>1, <2>1, <2>2, <2>3 DEF InsightInv, InsightTypes
<1> QED BY <1>2, <1>3, <1>4, <1>5, <1>6

(* What a refine read and was answered, and the snapshots, are texts.      *)
RefineTypes ==
  /\ refining \in [at : {"idle", "call", "replace"}, read : SUBSET (Texts \cup {NoText}),
                   answer : SUBSET (Texts \cup {NoText})]
  /\ snapshots \subseteq SUBSET (Texts \cup {NoText})

LEMMA UserKeeps ==
  ASSUME InsightInv, NEW i \in RowIds,
         UnpinInsight(i) \/ \E t \in Texts : EditInsight(i, t)
  PROVE  InsightInv'
<1>1. /\ insight \in [RowIds -> InsightRow] /\ CapInv /\ UNCHANGED <<saver, pinner>>
  BY DEF InsightInv, InsightTypes, UnpinInsight, EditInsight
<1>2. insight' \in [RowIds -> InsightRow] /\ Distilled' \subseteq Distilled
  <2>1. CASE UnpinInsight(i)
    <3>1. insight' = [insight EXCEPT ![i] = NoInsight] BY <2>1 DEF UnpinInsight
    <3>2. NoInsight \in InsightRow /\ NoInsight.kind = "none" BY DEF NoInsight, InsightRow
    <3> QED BY <1>1, <3>1, <3>2 DEF Distilled, Of
  <2>2. ASSUME NEW t \in Texts, EditInsight(i, t)
        PROVE  insight' \in [RowIds -> InsightRow] /\ Distilled' \subseteq Distilled
    <3>1. insight' = [insight EXCEPT ![i].text = t] BY <2>2 DEF EditInsight
    <3>2. /\ insight'[i] \in InsightRow /\ insight'[i].kind = insight[i].kind
          /\ insight'[i].active = insight[i].active
          /\ \A j \in RowIds : j # i => insight'[j] = insight[j]
      BY <1>1, <3>1 DEF InsightRow
    <3> QED BY <1>1, <3>1, <3>2 DEF Distilled, Of
  <2> QED BY <2>1, <2>2
<1>3. CapInv' BY <1>1, <1>2, QuietKeeps
<1> QED BY <1>1, <1>2, <1>3 DEF InsightInv, InsightTypes

LEMMA ReplaceKeeps ==
  ASSUME InsightInv, NEW texts \in SUBSET (Texts \cup {NoText}), ReplacePins(texts),
         UNCHANGED <<saver, pinner>>
  PROVE  InsightInv'
<1>1. insight' \in [RowIds -> InsightRow] /\ Distilled' \subseteq Distilled
  BY ReplaceKeepsDistilled DEF InsightInv
<1>2. CapInv' BY <1>1, QuietKeeps DEF InsightInv
<1> QED BY <1>1, <1>2 DEF InsightInv, InsightTypes

LEMMA InsightInvHolds == InsightsSpec => []InsightInv /\ []RefineTypes
<1> DEFINE Both == InsightInv /\ RefineTypes
<1>1. InsightsInit => Both
  BY InsightsInit_Inv DEF InsightsInit, RefineTypes
<1>2. Both /\ [InsightsNext]_insightVars => Both'
  <2> SUFFICES ASSUME Both, [InsightsNext]_insightVars PROVE Both' OBVIOUS
  <2>1. InsightInv /\ RefineTypes /\ insight \in [RowIds -> InsightRow]
    BY DEF InsightInv, InsightTypes
  <2>2. ASSUME NEW p \in Pinners,
               (\E t \in Texts : LookUpPin(p, t)) \/ CountPins(p) \/ InsertPin(p)
        PROVE  Both'
    <3>1. UNCHANGED <<refining, snapshots>> BY <2>2 DEF LookUpPin, CountPins, InsertPin
    <3> QED BY <2>1, <2>2, <3>1, PinnerKeeps DEF RefineTypes
  <2>3. ASSUME NEW s \in Savers,
               \/ \E t \in Texts : LookUpAuto(s, t)
               \/ InsertAuto(s) \/ ListOverCap(s) \/ FadeOverCap(s) \/ FailToFade(s)
        PROVE  Both'
    <3>1. UNCHANGED <<refining, snapshots>>
      BY <2>3 DEF LookUpAuto, InsertAuto, ListOverCap, FadeOverCap, FailToFade
    <3> QED BY <2>1, <2>3, <3>1, SaverKeeps DEF RefineTypes
  <2>4. ASSUME NEW i \in RowIds, UnpinInsight(i) \/ \E t \in Texts : EditInsight(i, t)
        PROVE  Both'
    <3>1. UNCHANGED <<refining, snapshots>> BY <2>4 DEF UnpinInsight, EditInsight
    <3> QED BY <2>1, <2>4, <3>1, UserKeeps DEF RefineTypes
  <2>5. ASSUME NEW snapshot \in snapshots, RestoreFromHistory(snapshot) PROVE Both'
    <3>1. /\ UNCHANGED <<pinner, saver, refining, snapshots>> /\ ReplacePins(snapshot)
          /\ snapshot \in SUBSET (Texts \cup {NoText})
      BY <2>1, <2>5 DEF RestoreFromHistory, RefineTypes
    <3> QED BY <2>1, <3>1, ReplaceKeeps DEF RefineTypes
  <2>6. CASE ReadPins \/ AnswerRefine
    <3>1. UNCHANGED <<insight, pinner, saver, snapshots>> BY <2>6 DEF ReadPins, AnswerRefine
    <3>2. InsightInv'
      BY <2>1, <3>1
         DEF InsightInv, InsightTypes, CapInv, CapHolds, Pending, Fading, Spared, Distilled, Of
    <3>3. TextsOf("pinned") \subseteq Texts \cup {NoText}
      BY <2>1 DEF TextsOf, Of, InsightRow
    <3>4. RefineTypes'
      <4>1. CASE ReadPins BY <2>1, <3>1, <3>3, <4>1 DEF ReadPins, RefineTypes
      <4>2. CASE AnswerRefine
        <5>1. CASE refining' = [at |-> "idle", read |-> {}, answer |-> {}]
          BY <2>1, <3>1, <5>1 DEF RefineTypes
        <5>2. ASSUME NEW answer \in SUBSET Texts,
                     refining' = [refining EXCEPT !.at = "replace", !.answer = answer]
              PROVE  RefineTypes'
          <6>1. answer \in SUBSET (Texts \cup {NoText}) OBVIOUS
          <6> QED BY <2>1, <3>1, <5>2, <6>1 DEF RefineTypes
        <5> QED BY <4>2, <5>1, <5>2 DEF AnswerRefine
      <4> QED BY <2>6, <4>1, <4>2
    <3> QED BY <3>2, <3>4
  <2>7. CASE ReplaceRefined
    <3>1. /\ UNCHANGED <<pinner, saver>> /\ ReplacePins(refining.answer)
          /\ refining.answer \in SUBSET (Texts \cup {NoText})
      BY <2>1, <2>7 DEF ReplaceRefined, RefineTypes
    <3>2. RefineTypes' BY <2>1, <2>7 DEF ReplaceRefined, RefineTypes
    <3> QED BY <2>1, <3>1, <3>2, ReplaceKeeps
  <2>8. CASE UNCHANGED insightVars
    BY <2>1, <2>8 DEF insightVars, InsightInv, InsightTypes, RefineTypes, CapInv, CapHolds,
                      Pending, Fading, Spared, Distilled, Of
  <2> QED BY <2>2, <2>3, <2>4, <2>5, <2>6, <2>7, <2>8 DEF InsightsNext
<1> QED BY <1>1, <1>2, PTL DEF InsightsSpec

(* However many facts are distilled at once, and whatever the user pins,   *)
(* edits, restores or refines meanwhile, those that count are at most the  *)
(* cap and one for each save that has not faded what it listed             *)
(* (save_auto_insight, _evict_auto_over_cap).                              *)
THEOREM DistilledFactsStayCapped == InsightsSpec => []AutoCapKept
<1>1. InsightInv => AutoCapKept
  <2> SUFFICES ASSUME InsightInv PROVE AutoCapKept OBVIOUS
  <2>1. CapHolds({}) BY DEF InsightInv, CapInv
  <2>2. Spared({}) = Distilled BY DEF Spared
  <2>3. Pending \ {} = {s \in Savers : saver[s].at \in {"evict", "fade", "failed"}} BY DEF Pending
  <2> QED BY <2>1, <2>2, <2>3 DEF CapHolds, AutoCapKept
<1> QED BY <1>1, InsightInvHolds, PTL

-----------------------------------------------------------------------------
(* The vectors. Inductive: a reindex has a model of its own, and every      *)
(* vector a model that made it.                                             *)

VectorRow == [model : Models \cup {None}, of : Contents \cup {None}]
TextRow == [id : MessageIds, text : Contents]
ReindexRow == [at : {"idle", "probe", "select", "batch"}, model : Models, todo : SUBSET TextRow,
               some : BOOLEAN, empty : BOOLEAN]
IndexerRow == [at : {"idle", "embed", "insert", "done"}, id : MessageIds \cup {1},
               text : Contents \cup {None}, model : Models \cup {None}]

VectorInv ==
  /\ text \in [MessageIds -> Contents \cup {None}]
  /\ vector \in [MessageIds -> VectorRow]
  /\ prefers \in Models
  /\ reindexing \in ReindexRow
  /\ indexer \in [Indexers -> IndexerRow]
  /\ \A k \in Indexers : indexer[k].at \in {"embed", "insert"} =>
       indexer[k].id \in MessageIds /\ indexer[k].text # None /\ indexer[k].model # None

LEMMA NoReindexIs == NoReindex \in ReindexRow
BY EmbeddingsAssumption DEF NoReindex, ReindexRow

LEMMA NoVectorIs == NoVector \in VectorRow
BY DEF NoVector, VectorRow

LEMMA VectorInit_Inv == EmbeddingsInit => VectorInv
<1> SUFFICES ASSUME EmbeddingsInit PROVE VectorInv OBVIOUS
<1>1. [at |-> "idle", id |-> 1, text |-> None, model |-> None] \in IndexerRow BY DEF IndexerRow
<1> QED BY <1>1, NoReindexIs, NoVectorIs, EmbeddingsAssumption DEF EmbeddingsInit, VectorInv

LEMMA MessagesKeepVectors ==
  ASSUME VectorInv, WriteMessage \/ \E i \in MessageIds : MessageDeleted(i) PROVE VectorInv'
<1>1. UNCHANGED <<prefers, reindexing, indexer>> BY DEF WriteMessage, MessageDeleted
<1>2. text' \in [MessageIds -> Contents \cup {None}] /\ vector' \in [MessageIds -> VectorRow]
  <2>1. CASE WriteMessage
    <3>1. PICK i \in MessageIds, t \in Contents :
            text' = [text EXCEPT ![i] = t] /\ vector' = vector
      BY <2>1 DEF WriteMessage
    <3> QED BY <3>1 DEF VectorInv
  <2>2. ASSUME NEW i \in MessageIds, MessageDeleted(i)
        PROVE  text' \in [MessageIds -> Contents \cup {None}] /\ vector' \in [MessageIds -> VectorRow]
    BY <2>2, NoVectorIs DEF MessageDeleted, VectorInv
  <2> QED BY <2>1, <2>2
<1> QED BY <1>1, <1>2 DEF VectorInv

LEMMA IndexersKeepVectors ==
  ASSUME VectorInv, NEW k \in Indexers,
         (\E i \in MessageIds : ReadMessage(k, i)) \/ CompareDimension(k) \/ InsertVector(k) \/ GiveUpIndex(k)
  PROVE  VectorInv'
<1>1. UNCHANGED <<text, prefers, reindexing>>
  BY DEF ReadMessage, CompareDimension, InsertVector, GiveUpIndex
<1>2. indexer \in [Indexers -> IndexerRow] BY DEF VectorInv
<1>3. PICK r \in IndexerRow :
        /\ indexer' = [indexer EXCEPT ![k] = r]
        /\ r.at \in {"embed", "insert"} => r.id \in MessageIds /\ r.text # None /\ r.model # None
  <2>1. ASSUME NEW i \in MessageIds, ReadMessage(k, i)
        PROVE  \E r \in IndexerRow :
                 /\ indexer' = [indexer EXCEPT ![k] = r]
                 /\ r.at \in {"embed", "insert"} => r.id \in MessageIds /\ r.text # None /\ r.model # None
    <3>1. [at |-> "embed", id |-> i, text |-> text[i], model |-> prefers] \in IndexerRow
      BY DEF VectorInv, IndexerRow
    <3>2. text[i] # None /\ prefers # None
      BY <2>1, EmbeddingsAssumption DEF ReadMessage, There, VectorInv
    <3> QED BY <2>1, <3>1, <3>2 DEF ReadMessage
  <2>2. ASSUME NEW w \in {"insert", "done"}, indexer' = [indexer EXCEPT ![k].at = w],
               indexer[k].at \in {"embed", "insert"}
        PROVE  \E r \in IndexerRow :
                 /\ indexer' = [indexer EXCEPT ![k] = r]
                 /\ r.at \in {"embed", "insert"} => r.id \in MessageIds /\ r.text # None /\ r.model # None
    <3>1. PICK r : r = [indexer[k] EXCEPT !.at = w] OBVIOUS
    <3>2. r \in IndexerRow /\ r.id = indexer[k].id /\ r.text = indexer[k].text /\ r.model = indexer[k].model
      BY <1>2, <3>1 DEF IndexerRow
    <3>3. indexer' = [indexer EXCEPT ![k] = r] BY <1>2, <2>2, <3>1
    <3> QED BY <2>2, <3>2, <3>3 DEF VectorInv
  <2> QED BY <2>1, <2>2 DEF CompareDimension, InsertVector, GiveUpIndex
<1>4. vector' \in [MessageIds -> VectorRow]
  <2>1. CASE InsertVector(k)
    <3>1. [model |-> indexer[k].model, of |-> indexer[k].text] \in VectorRow
      BY <1>2 DEF IndexerRow, VectorRow
    <3> QED BY <2>1, <3>1 DEF InsertVector, VectorInv
  <2>2. CASE ~InsertVector(k)
    BY <2>2 DEF ReadMessage, CompareDimension, GiveUpIndex, VectorInv
  <2> QED BY <2>1, <2>2
<1> QED BY <1>1, <1>2, <1>3, <1>4 DEF VectorInv

LEMMA ReindexKeepsVectors ==
  ASSUME VectorInv,
         \/ \E m \in Models : StartReindex(m)
         \/ AbortReindex \/ SelectStale \/ EndReindexing
         \/ \E w \in reindexing.todo : SwapBatch(w) \/ SkipBatch(w)
  PROVE  VectorInv'
<1>1. UNCHANGED <<text, indexer>>
  BY DEF StartReindex, AbortReindex, SelectStale, EndReindexing, SwapBatch, SkipBatch
<1>2. reindexing \in ReindexRow BY DEF VectorInv
<1>3. ASSUME NEW m \in Models, StartReindex(m) PROVE VectorInv'
  <2>1. (There = {}) \in BOOLEAN OBVIOUS
  <2>2. reindexing' \in ReindexRow BY <1>3, <2>1, NoReindexIs DEF StartReindex, ReindexRow
  <2> QED BY <1>1, <1>3, <2>2 DEF StartReindex, VectorInv
<1>4. CASE AbortReindex BY <1>1, <1>4, NoReindexIs DEF AbortReindex, VectorInv
<1>5. CASE SelectStale
  <2>1. {[id |-> i, text |-> text[i]] : i \in Stale(reindexing.model)} \in SUBSET TextRow
    BY DEF Stale, There, TextRow, VectorInv
  <2>2. PICK q \in SUBSET TextRow : q = {[id |-> i, text |-> text[i]] : i \in Stale(reindexing.model)}
    BY <2>1
  <2>3. reindexing' = [reindexing EXCEPT !.at = "batch", !.todo = q] BY <1>5, <2>2 DEF SelectStale
  <2>4. reindexing' \in ReindexRow BY <1>2, <2>3 DEF ReindexRow
  <2> QED BY <1>1, <1>5, <2>4 DEF SelectStale, VectorInv
<1>6. CASE EndReindexing
  <2>1. prefers' \in Models BY <1>2, <1>6 DEF EndReindexing, ReindexRow, VectorInv
  <2> QED BY <1>1, <1>6, <2>1, NoReindexIs DEF EndReindexing, VectorInv
<1>7. ASSUME NEW w \in reindexing.todo, SwapBatch(w) \/ SkipBatch(w) PROVE VectorInv'
  <2>1. w \in TextRow BY <1>2 DEF ReindexRow
  <2>2. [model |-> reindexing.model, of |-> w.text] \in VectorRow
    BY <1>2, <2>1 DEF ReindexRow, VectorRow, TextRow
  <2>3. vector' \in [MessageIds -> VectorRow]
    BY <1>7, <2>2 DEF SwapBatch, SkipBatch, VectorInv
  <2>4. PICK q \in SUBSET TextRow : q = reindexing.todo \ {w} BY <1>2 DEF ReindexRow
  <2>5. \/ reindexing' = NoReindex
        \/ reindexing' = [reindexing EXCEPT !.todo = q]
        \/ reindexing' = [reindexing EXCEPT !.todo = q, !.some = TRUE]
    BY <1>7, <2>4 DEF SwapBatch, SkipBatch
  <2>6. reindexing' \in ReindexRow BY <1>2, <2>5, NoReindexIs DEF ReindexRow
  <2> QED BY <1>1, <1>7, <2>3, <2>6 DEF SwapBatch, SkipBatch, VectorInv
<1> QED BY <1>3, <1>4, <1>5, <1>6, <1>7

LEMMA VectorInvHolds == EmbeddingsSpec => []VectorInv
<1>1. VectorInv /\ [EmbeddingsNext]_embeddingVars => VectorInv'
  BY MessagesKeepVectors, IndexersKeepVectors, ReindexKeepsVectors DEF EmbeddingsNext, embeddingVars, VectorInv
<1> QED BY <1>1, VectorInit_Inv, PTL DEF EmbeddingsSpec

(* A reindex swaps the vector of a message in one step, and a late indexer  *)
(* leaves a vector that is there alone: a message that can be found goes on *)
(* being found until it is deleted (reindex, _insert_embedding_rows).       *)
THEOREM VectorsStay == EmbeddingsSpec => VectorKept
<1>1. VectorInv /\ [EmbeddingsNext]_embeddingVars =>
        \A i \in Corpus : text'[i] # None => vector'[i] # NoVector
  <2> SUFFICES ASSUME VectorInv, [EmbeddingsNext]_embeddingVars, NEW i \in Corpus, text'[i] # None
               PROVE  vector'[i] # NoVector
    OBVIOUS
  <2>1. i \in MessageIds /\ vector[i] # NoVector /\ vector \in [MessageIds -> VectorRow]
    BY DEF Corpus, VectorInv
  <2>2. CASE vector' = vector BY <2>1, <2>2
  <2>3. ASSUME NEW j \in MessageIds, MessageDeleted(j) PROVE vector'[i] # NoVector
    <3>1. i # j BY <2>1, <2>3 DEF MessageDeleted, VectorInv
    <3> QED BY <2>1, <2>3, <3>1 DEF MessageDeleted
  <2>4. ASSUME NEW k \in Indexers, InsertVector(k) PROVE vector'[i] # NoVector
    BY <2>1, <2>4 DEF InsertVector
  <2>5. ASSUME NEW w \in reindexing.todo, SwapBatch(w) PROVE vector'[i] # NoVector
    <3>1. reindexing.model \in Models /\ reindexing.model # None
      BY EmbeddingsAssumption DEF VectorInv, ReindexRow
    <3>2. [model |-> reindexing.model, of |-> w.text] # NoVector BY <3>1 DEF NoVector
    <3> QED BY <2>1, <2>5, <3>2 DEF SwapBatch
  <2> QED BY <2>2, <2>3, <2>4, <2>5
          DEF EmbeddingsNext, embeddingVars, WriteMessage, ReadMessage, CompareDimension, GiveUpIndex,
              StartReindex, AbortReindex, SelectStale, EndReindexing, SkipBatch
<1> QED BY <1>1, VectorInvHolds, PTL DEF EmbeddingsSpec, VectorKept
-----------------------------------------------------------------------------
(* The types of the four, and the four together. What the theorems above    *)
(* did not need is added here: the deletion under way points to a row, a    *)
(* vector that is there has a model and a text, and a text is there once.   *)

ResendTypes == resend \in 0 .. 2 * MaxTurns /\ deletions \in 0 .. MaxDeletions

LEMMA BoundaryIs ==
  ASSUME NEW i \in Ids, FindBoundary(i) PROVE resend' \in 0 .. 2 * MaxTurns
<1> DEFINE prior == {j \in Existing \cap UserIds : j <= i}
<1>1. 2 * MaxTurns \in Nat /\ Ids = 1 .. 2 * MaxTurns BY HistoryAssumption DEF Ids
<1>2. prior \subseteq 1 .. 2 * MaxTurns BY <1>1 DEF Existing
<1>3. resend' = IF prior = {} THEN i ELSE Max(prior) BY DEF FindBoundary
<1> HIDE DEF prior
<1>4. CASE prior = {} BY <1>1, <1>3, <1>4
<1>5. CASE prior # {}
  <2>1. Max(prior) \in prior BY <1>1, <1>2, <1>5, GreatestElement
  <2> QED BY <1>1, <1>2, <1>3, <1>5, <2>1
<1> QED BY <1>4, <1>5

LEMMA ResendTypesHold == HistorySpec => []ResendTypes
<1>1. HistoryInit => ResendTypes BY HistoryAssumption DEF HistoryInit, ResendTypes
<1>2. ResendTypes /\ [HistoryNext]_historyVars => ResendTypes'
  <2> SUFFICES ASSUME ResendTypes, [HistoryNext]_historyVars PROVE ResendTypes' OBVIOUS
  <2>1. ASSUME NEW gone, Delete(gone) PROVE deletions' \in 0 .. MaxDeletions
    BY <2>1, HistoryAssumption DEF Delete, ResendTypes
  <2>2. CASE DeleteFromBoundary
    BY <2>1, <2>2, HistoryAssumption DEF DeleteFromBoundary, ResendTypes
  <2>3. CASE ClearMessages BY <2>1, <2>3 DEF ClearMessages, ResendTypes
  <2>4. ASSUME NEW i \in Ids, DeleteMessage(i) PROVE ResendTypes'
    BY <2>1, <2>4 DEF DeleteMessage, ResendTypes
  <2>5. ASSUME NEW i \in Ids, FindBoundary(i) PROVE ResendTypes'
    <3>1. deletions' = deletions BY <2>5 DEF FindBoundary
    <3> QED BY <2>5, <3>1, BoundaryIs DEF ResendTypes
  <2>6. CASE UNCHANGED <<resend, deletions>> BY <2>6 DEF ResendTypes
  <2> QED BY <2>2, <2>3, <2>4, <2>5, <2>6
          DEF HistoryNext, historyVars, StartTurn, EndTurn, ForkRows, ForkSpans, BeginCompact,
              AbortCompact, Archive
<1> QED BY <1>1, <1>2, PTL DEF HistorySpec

LEMMA HistoryTypesHold == HistorySpec => []HistoryTypeOK
<1>1. HistoryTypes /\ ResendTypes => HistoryTypeOK
  BY DEF HistoryTypes, ResendTypes, HistoryTypeOK, States, SummaryRow, WorkRow, ForkRow
<1>2. HistoryInv => HistoryTypes BY DEF HistoryInv
<1> QED BY <1>1, <1>2, HistoryInvHolds, ResendTypesHold, PTL

RealVectors ==
  /\ \A i \in MessageIds :
       vector[i] = NoVector \/ vector[i] \in [model : Models, of : Contents]
  /\ writes \in 0 .. MaxWrites /\ reindexes \in 0 .. MaxReindexes

LEMMA RealVectorsHold == EmbeddingsSpec => []RealVectors
<1>1. EmbeddingsInit => RealVectors BY EmbeddingsAssumption DEF EmbeddingsInit, RealVectors
<1>2. RealVectors /\ VectorInv /\ [EmbeddingsNext]_embeddingVars => RealVectors'
  <2> SUFFICES ASSUME RealVectors, VectorInv, [EmbeddingsNext]_embeddingVars PROVE RealVectors' OBVIOUS
  <2>1. vector \in [MessageIds -> VectorRow] BY DEF VectorInv
  <2>2. CASE WriteMessage BY <2>2, EmbeddingsAssumption DEF WriteMessage, RealVectors
  <2>3. ASSUME NEW i \in MessageIds, MessageDeleted(i) PROVE RealVectors'
    BY <2>1, <2>3 DEF MessageDeleted, RealVectors
  <2>4. ASSUME NEW k \in Indexers, InsertVector(k) PROVE RealVectors'
    <3>1. indexer[k] \in IndexerRow /\ indexer[k].text # None /\ indexer[k].model # None
      BY <2>4 DEF InsertVector, VectorInv
    <3>2. [model |-> indexer[k].model, of |-> indexer[k].text] \in [model : Models, of : Contents]
      BY <3>1 DEF IndexerRow
    <3> QED BY <2>1, <2>4, <3>2 DEF InsertVector, RealVectors
  <2>5. ASSUME NEW w \in reindexing.todo, SwapBatch(w) PROVE RealVectors'
    <3>1. w \in TextRow /\ reindexing.model \in Models BY DEF VectorInv, ReindexRow
    <3>2. [model |-> reindexing.model, of |-> w.text] \in [model : Models, of : Contents]
      BY <3>1 DEF TextRow
    <3> QED BY <2>1, <2>5, <3>2 DEF SwapBatch, RealVectors
  <2>6. ASSUME NEW m \in Models, StartReindex(m) PROVE RealVectors'
    BY <2>6, EmbeddingsAssumption DEF StartReindex, RealVectors
  <2>7. CASE UNCHANGED <<vector, writes, reindexes>> BY <2>7 DEF RealVectors
  <2> QED BY <2>2, <2>3, <2>4, <2>5, <2>6, <2>7
          DEF EmbeddingsNext, embeddingVars, ReadMessage, CompareDimension, GiveUpIndex, AbortReindex,
              SelectStale, EndReindexing, SkipBatch
<1> QED BY <1>1, <1>2, VectorInvHolds, PTL DEF EmbeddingsSpec

LEMMA EmbeddingTypesHold == EmbeddingsSpec => []EmbeddingsTypeOK
<1>1. VectorInv /\ RealVectors => EmbeddingsTypeOK
  <2> SUFFICES ASSUME VectorInv, RealVectors PROVE EmbeddingsTypeOK OBVIOUS
  <2>1. \A k \in Indexers : indexer[k].at \in {"idle", "embed", "insert", "done"}
    BY DEF VectorInv, IndexerRow
  <2>2. /\ reindexing.at \in {"idle", "probe", "select", "batch"}
        /\ \A w \in reindexing.todo : w.id \in MessageIds
    BY DEF VectorInv, ReindexRow, TextRow
  <2> QED BY <2>1, <2>2 DEF VectorInv, RealVectors, EmbeddingsTypeOK
<1> QED BY <1>1, VectorInvHolds, RealVectorsHold, PTL

DocBounds == swaps \in 0 .. MaxSwaps /\ halts \in 0 .. MaxHalts

LEMMA DocBoundsHold == DocSpec => []DocBounds
<1>1. DocInit => DocBounds BY DocumentsAssumption DEF DocInit, DocBounds
<1>2. DocBounds /\ [DocNext]_documentVars => DocBounds'
  <2> SUFFICES ASSUME DocBounds, [DocNext]_documentVars PROVE DocBounds' OBVIOUS
  <2>1. CASE SwapModels BY <2>1, DocumentsAssumption DEF SwapModels, DocBounds
  <2>2. CASE Halt BY <2>2, DocumentsAssumption DEF Halt, DocBounds
  <2>3. CASE UNCHANGED <<swaps, halts>> BY <2>3 DEF DocBounds
  <2>4. ASSUME NEW u \in Uploads, Upload(u) PROVE UNCHANGED <<swaps, halts>>
    BY <2>4 DEF Upload, ResolveUpload, GateUpload, DedupUpload, InsertDocument, ResolveAtEmbed,
                StoreChunks, EmbedFails, UndoUpload, UndoFails
  <2> QED BY <2>1, <2>2, <2>3, <2>4
          DEF DocNext, documentVars, UpdateMove, ListReembed, EndReembed, DeleteDocument, ReadChunks,
              WriteVectors, GateMove, PinReembed
<1> QED BY <1>1, <1>2, PTL DEF DocSpec

LEMMA DocTypesHold == DocSpec => []DocTypeOK
<1>1. DocInv /\ DocBounds => DocTypeOK
  <2> SUFFICES ASSUME DocInv, DocBounds PROVE DocTypeOK OBVIOUS
  <2>1. \A u \in Uploads :
          /\ doc[u].state \in {"none", "live", "deleted"}
          /\ doc[u].vector \in Labels /\ doc[u].label \in Labels
    BY DEF DocInv, DocTypes, DocRow
  <2>2. \A u \in Uploads :
          /\ up[u].model \in Labels
          /\ up[u].at \in {"idle", "gate", "dedup", "insert", "embed", "undo",
                          "done", "failed", "left", "lost"}
    BY DEF DocInv, DocTypes, UpRow
  <2>3. reembed.todo \subseteq Uploads /\ reembed.read \subseteq reembed.todo
    BY DEF DocInv, DocTypes, ReembedOK, ReembedRow
  <2> QED BY <2>1, <2>2, <2>3 DEF DocInv, DocTypes, DocBounds, DocTypeOK
<1> QED BY <1>1, DocInvHolds, DocBoundsHold, PTL

-----------------------------------------------------------------------------
(* A text is there once, although it is looked up in one transaction and    *)
(* inserted in a later one: the insert looks again.                         *)

RealRow == [kind : {"pinned", "auto"}, text : Texts, active : BOOLEAN]

TextOnce ==
  \A i, j \in RowIds : insight[i].text = insight[j].text => i = j \/ insight[i] = NoInsight

RealRows == \A i \in RowIds : insight[i] = NoInsight \/ insight[i] \in RealRow
RealTexts ==
  /\ \A p \in Pinners : pinner[p].at \in {"count", "insert"} => pinner[p].text \in Texts
  /\ \A s \in Savers : saver[s].at = "insert" => saver[s].text \in Texts
  /\ refining.answer \subseteq Texts /\ refining.read \subseteq Texts
  /\ snapshots \subseteq SUBSET Texts
  /\ edits \in 0 .. MaxEdits

TextInv == insight \in [RowIds -> InsightRow] /\ RealRows /\ TextOnce /\ RealTexts

(* One row gets a text that no row has.                                     *)
LEMMA NewText ==
  ASSUME TextInv, NEW r \in RowIds, NEW new \in RealRow, ~Known(new.text),
         insight' = [insight EXCEPT ![r] = new]
  PROVE  insight' \in [RowIds -> InsightRow] /\ RealRows' /\ TextOnce'
<1>1. insight \in [RowIds -> InsightRow] /\ RealRows /\ TextOnce BY DEF TextInv
<1>2. new \in InsightRow BY DEF RealRow, InsightRow
<1>3. insight' \in [RowIds -> InsightRow] BY <1>1, <1>2
<1>4. insight'[r] = new /\ \A i \in RowIds : i # r => insight'[i] = insight[i] /\ insight[i].text # new.text
  BY <1>1 DEF Known
<1>5. RealRows' BY <1>1, <1>4 DEF RealRows
<1>6. TextOnce' BY <1>1, <1>4 DEF TextOnce
<1> QED BY <1>3, <1>5, <1>6

LEMMA NewIsReal == \A kind \in {"pinned", "auto"}, t \in Texts :
  NewInsight(kind, t) \in RealRow /\ NewInsight(kind, t).text = t
BY DEF NewInsight, RealRow

LEMMA ReplacedTexts ==
  ASSUME TextInv, NEW texts \in SUBSET Texts, ReplacePins(texts)
  PROVE  insight' \in [RowIds -> InsightRow] /\ RealRows' /\ TextOnce'
<1> DEFINE stays == [i \in RowIds |-> IF insight[i].kind = "pinned" THEN NoInsight ELSE insight[i]]
           new == {t \in texts : \A i \in RowIds : stays[i].text # t}
           first == 1 + Max({0} \cup {i \in RowIds : stays[i] # NoInsight})
<1>1. insight \in [RowIds -> InsightRow] /\ RealRows /\ TextOnce BY DEF TextInv
<1>2. \A i \in RowIds : stays[i] = NoInsight \/ (stays[i] = insight[i] /\ stays[i] \in RealRow)
  BY <1>1 DEF RealRows
<1>3. \A t \in new : t \in Texts /\ \A i \in RowIds : stays[i].text # t OBVIOUS
<1>4. PICK place : insight' = [i \in RowIds |->
        IF \E t \in new : place[t] = i
        THEN NewInsight("pinned", CHOOSE t \in new : place[t] = i) ELSE stays[i]]
  BY DEF ReplacePins
<1> HIDE DEF stays, new, first
<1>5. ASSUME NEW i \in RowIds
      PROVE  \/ insight'[i] = stays[i]
             \/ \E t \in new : insight'[i] = NewInsight("pinned", t) /\ place[t] = i
  <2>1. CASE \E t \in new : place[t] = i
    <3>1. PICK t \in new : t = (CHOOSE u \in new : place[u] = i) /\ place[t] = i BY <2>1
    <3> QED BY <1>4, <2>1, <3>1
  <2>2. CASE ~\E t \in new : place[t] = i BY <1>4, <2>2
  <2> QED BY <2>1, <2>2
<1>6. \A i \in RowIds : insight'[i] = NoInsight \/ insight'[i] \in RealRow
  BY <1>2, <1>3, <1>5, NewIsReal
<1>7. ASSUME NEW i \in RowIds PROVE insight'[i] \in InsightRow
  <2>1. RealRow \subseteq InsightRow /\ NoInsight \in InsightRow BY DEF RealRow, InsightRow, NoInsight
  <2> QED BY <1>6, <2>1
<1>8. TextOnce'
  <2> SUFFICES ASSUME NEW i \in RowIds, NEW j \in RowIds, insight'[i].text = insight'[j].text,
                      i # j
               PROVE  insight'[i] = NoInsight
    BY DEF TextOnce
  <2>1. CASE insight'[i] = stays[i] /\ insight'[j] = stays[j]
    <3>1. NoInsight.text = NoText /\ NoText \notin Texts BY InsightsAssumption DEF NoInsight
    <3> QED BY <1>1, <1>2, <2>1, <3>1 DEF TextOnce, RealRow
  <2>2. ASSUME NEW t \in new, insight'[i] = NewInsight("pinned", t), place[t] = i PROVE FALSE
    <3>1. insight'[j].text = t BY <1>3, <2>2, NewIsReal
    <3>2. insight'[j] # stays[j] BY <1>3, <3>1
    <3>3. PICK u \in new : insight'[j] = NewInsight("pinned", u) /\ place[u] = j BY <1>5, <3>2
    <3>4. u = t BY <1>3, <3>1, <3>3, NewIsReal
    <3> QED BY <2>2, <3>3, <3>4
  <2>3. ASSUME NEW t \in new, insight'[j] = NewInsight("pinned", t), place[t] = j, insight'[i] = stays[i]
        PROVE  FALSE
    BY <1>3, <2>3, NewIsReal
  <2> QED BY <1>5, <2>1, <2>2, <2>3
<1>9. insight' \in [RowIds -> InsightRow] BY <1>4, <1>7
<1> QED BY <1>6, <1>8, <1>9 DEF RealRows


LEMMA PinnersKeepTexts ==
  ASSUME TextInv, pinner \in [Pinners -> PinnerRow], NEW p \in Pinners,
         (\E t \in Texts : LookUpPin(p, t)) \/ CountPins(p) \/ InsertPin(p)
  PROVE  TextInv'
<1>1. UNCHANGED <<saver, refining, snapshots, edits>> BY DEF LookUpPin, CountPins, InsertPin
<1>2. RealTexts BY DEF TextInv
<1>3. PICK r : /\ pinner' = [pinner EXCEPT ![p] = r]
               /\ r.at \in {"count", "insert"} => r.text \in Texts
  <2>1. ASSUME NEW t \in Texts, LookUpPin(p, t)
        PROVE  \E r : /\ pinner' = [pinner EXCEPT ![p] = r]
                      /\ r.at \in {"count", "insert"} => r.text \in Texts
    <3>1. [at |-> IF Known(t) THEN "done" ELSE "count", text |-> t].text \in Texts OBVIOUS
    <3> QED BY <2>1, <3>1 DEF LookUpPin
  <2>2. ASSUME NEW w, pinner' = [pinner EXCEPT ![p].at = w],
               w \in {"count", "insert"} => pinner[p].at \in {"count", "insert"}
        PROVE  \E r : /\ pinner' = [pinner EXCEPT ![p] = r]
                      /\ r.at \in {"count", "insert"} => r.text \in Texts
    <3>1. PICK r : r = [pinner[p] EXCEPT !.at = w] OBVIOUS
    <3>2. r.at = w /\ r.text = pinner[p].text BY <3>1 DEF PinnerRow
    <3>3. pinner' = [pinner EXCEPT ![p] = r] BY <2>2, <3>1
    <3> QED BY <1>2, <2>2, <3>2, <3>3 DEF RealTexts
  <2>3. CASE CountPins(p)
    <3>1. PICK w \in {"refused", "insert"} : pinner' = [pinner EXCEPT ![p].at = w]
      BY <2>3 DEF CountPins
    <3> QED BY <2>2, <2>3, <3>1 DEF CountPins
  <2>4. CASE InsertPin(p) BY <2>2, <2>4 DEF InsertPin
  <2> QED BY <2>1, <2>3, <2>4
<1>4. RealTexts' BY <1>1, <1>2, <1>3 DEF RealTexts
<1>5. insight' \in [RowIds -> InsightRow] /\ RealRows' /\ TextOnce'
  <2>1. CASE insight' = insight BY <2>1 DEF TextInv, RealRows, TextOnce
  <2>2. CASE insight' # insight
    <3>1. /\ pinner[p].at = "insert" /\ ~Known(pinner[p].text) /\ NextId \in RowIds
          /\ insight' = [insight EXCEPT ![NextId] = NewInsight("pinned", pinner[p].text)]
      BY <2>2 DEF InsertPin, LookUpPin, CountPins
    <3>2. pinner[p].text \in Texts BY <1>2, <3>1 DEF RealTexts
    <3>3. PICK new \in RealRow : new = NewInsight("pinned", pinner[p].text) /\ new.text = pinner[p].text
      BY <3>2, NewIsReal
    <3> QED BY <3>1, <3>3, NewText
  <2> QED BY <2>1, <2>2
<1> QED BY <1>4, <1>5 DEF TextInv

LEMMA SaversKeepTexts ==
  ASSUME TextInv, saver \in [Savers -> SaverRow], NEW s \in Savers,
         \/ \E t \in Texts : LookUpAuto(s, t)
         \/ InsertAuto(s) \/ ListOverCap(s) \/ FadeOverCap(s) \/ FailToFade(s)
  PROVE  TextInv'
<1>1. UNCHANGED <<pinner, refining, snapshots, edits>>
  BY DEF LookUpAuto, InsertAuto, ListOverCap, FadeOverCap, FailToFade
<1>2. RealTexts BY DEF TextInv
<1>3. /\ \A q \in Savers : q # s => saver'[q] = saver[q]
      /\ saver'[s].at = "insert" => saver'[s].text \in Texts
  <2>1. ASSUME NEW t \in Texts, LookUpAuto(s, t)
        PROVE  /\ \A q \in Savers : q # s => saver'[q] = saver[q]
               /\ saver'[s].text \in Texts
    BY <2>1 DEF LookUpAuto, SaverRow
  <2>2. ASSUME NEW w \in {"done", "evict", "failed"}, saver' = [saver EXCEPT ![s].at = w]
        PROVE  /\ \A q \in Savers : q # s => saver'[q] = saver[q]
               /\ saver'[s].at # "insert"
    BY <2>2 DEF SaverRow
  <2>3. CASE ListOverCap(s)
    <3>1. PICK w \in {"done", "fade"}, S \in SUBSET RowIds :
            saver' = [saver EXCEPT ![s].at = w, ![s].fades = S]
      BY <2>3 DEF ListOverCap, OverCap, Distilled, Of
    <3> QED BY <3>1 DEF SaverRow
  <2> QED BY <2>1, <2>2, <2>3 DEF InsertAuto, FadeOverCap, FailToFade
<1>4. RealTexts' BY <1>1, <1>2, <1>3 DEF RealTexts
<1>5. insight' \in [RowIds -> InsightRow] /\ RealRows' /\ TextOnce'
  <2>1. CASE insight' = insight BY <2>1 DEF TextInv, RealRows, TextOnce
  <2>2. CASE FadeOverCap(s)
    <3>1. insight \in [RowIds -> InsightRow] /\ RealRows /\ TextOnce BY DEF TextInv
    <3>2. \A i \in RowIds : insight[i] \in InsightRow BY <3>1
    <3>3. \A i \in RowIds : insight'[i] = insight[i] \/ insight'[i] = [insight[i] EXCEPT !.active = FALSE]
      BY <2>2 DEF FadeOverCap
    <3>4. \A i \in RowIds : insight'[i] \in InsightRow /\ insight'[i].text = insight[i].text
      BY <3>2, <3>3 DEF InsightRow
    <3>5. \A i \in RowIds : /\ insight[i] = NoInsight => insight'[i] = NoInsight
                            /\ insight[i] \in RealRow => insight'[i] \in RealRow
      <4>1. \A r \in RealRow : [r EXCEPT !.active = FALSE] \in RealRow BY DEF RealRow
      <4>2. [NoInsight EXCEPT !.active = FALSE] = NoInsight
        <5>1. PICK q : q = [NoInsight EXCEPT !.active = FALSE] OBVIOUS
        <5>2. NoInsight \in InsightRow BY DEF NoInsight, InsightRow
        <5>3. q \in InsightRow /\ q.kind = NoInsight.kind /\ q.text = NoInsight.text /\ q.active = FALSE
          BY <5>1, <5>2 DEF InsightRow
        <5>4. NoInsight.active = FALSE BY DEF NoInsight
        <5>5. q = NoInsight BY <5>2, <5>3, <5>4 DEF InsightRow
        <5> QED BY <5>1, <5>5
      <4> QED BY <3>3, <4>1, <4>2
    <3>6. RealRows' /\ TextOnce' BY <3>1, <3>4, <3>5 DEF RealRows, TextOnce
    <3>7. insight' \in [RowIds -> InsightRow] BY <2>2, <3>4 DEF FadeOverCap
    <3> QED BY <3>6, <3>7
  <2>3. CASE insight' # insight /\ ~FadeOverCap(s)
    <3>1. /\ saver[s].at = "insert" /\ ~Known(saver[s].text) /\ NextId \in RowIds
          /\ insight' = [insight EXCEPT ![NextId] = NewInsight("auto", saver[s].text)]
      BY <2>3 DEF InsertAuto, LookUpAuto, ListOverCap, FailToFade
    <3>2. saver[s].text \in Texts BY <1>2, <3>1 DEF RealTexts
    <3>3. PICK new \in RealRow : new = NewInsight("auto", saver[s].text) /\ new.text = saver[s].text
      BY <3>2, NewIsReal
    <3> QED BY <3>1, <3>3, NewText
  <2> QED BY <2>1, <2>2, <2>3
<1> QED BY <1>4, <1>5 DEF TextInv

LEMMA UserKeepsTexts ==
  ASSUME TextInv, NEW i \in RowIds, UnpinInsight(i) \/ \E t \in Texts : EditInsight(i, t)
  PROVE  TextInv'
<1>1. /\ UNCHANGED <<pinner, saver, refining, snapshots>>
      /\ edits < MaxEdits /\ edits' = edits + 1
  BY DEF UnpinInsight, EditInsight
<1>2. RealTexts' BY <1>1, InsightsAssumption DEF TextInv, RealTexts
<1>3. insight \in [RowIds -> InsightRow] /\ RealRows /\ TextOnce BY DEF TextInv
<1>4. CASE UnpinInsight(i)
  <2>1. insight' = [insight EXCEPT ![i] = NoInsight] BY <1>4 DEF UnpinInsight
  <2>2. NoInsight \in InsightRow /\ NoInsight.text = NoText BY DEF NoInsight, InsightRow
  <2>3. insight' \in [RowIds -> InsightRow] /\ RealRows' BY <1>3, <2>1, <2>2 DEF RealRows
  <2>4. \A j \in RowIds : j # i => insight'[j] = insight[j] BY <1>3, <2>1
  <2>5. insight'[i] = NoInsight BY <1>3, <2>1
  <2>6. \A j \in RowIds : insight'[j].text = NoText => insight'[j] = NoInsight
    BY <2>3, InsightsAssumption DEF RealRows, RealRow
  <2>7. TextOnce' BY <1>3, <2>2, <2>4, <2>5, <2>6 DEF TextOnce
  <2> QED BY <1>2, <2>3, <2>7 DEF TextInv
<1>5. ASSUME NEW t \in Texts, EditInsight(i, t) PROVE TextInv'
  <2>1. insight[i] # NoInsight /\ ~Known(t) /\ insight' = [insight EXCEPT ![i].text = t]
    BY <1>5 DEF EditInsight
  <2>2. insight[i] \in RealRow BY <1>3, <2>1 DEF RealRows
  <2>3. PICK new : new = [insight[i] EXCEPT !.text = t] OBVIOUS
  <2>4. new \in RealRow /\ new.text = t BY <2>2, <2>3 DEF RealRow
  <2>5. insight' = [insight EXCEPT ![i] = new] BY <2>1, <2>3
  <2> QED BY <1>2, <2>1, <2>4, <2>5, NewText DEF TextInv
<1> QED BY <1>4, <1>5

LEMMA TextInvHolds == InsightsSpec => []TextInv
<1>1. InsightsInit => TextInv
  <2> SUFFICES ASSUME InsightsInit PROVE TextInv OBVIOUS
  <2>1. NoInsight \in InsightRow BY DEF NoInsight, InsightRow
  <2>2. insight \in [RowIds -> InsightRow] /\ RealRows /\ TextOnce
    BY <2>1 DEF InsightsInit, RealRows, TextOnce
  <2>3. RealTexts BY InsightsAssumption DEF InsightsInit, RealTexts
  <2> QED BY <2>2, <2>3 DEF TextInv
<1>2. TextInv /\ InsightInv /\ RefineTypes /\ [InsightsNext]_insightVars => TextInv'
  <2> SUFFICES ASSUME TextInv, InsightInv, RefineTypes, [InsightsNext]_insightVars PROVE TextInv' OBVIOUS
  <2>1. /\ pinner \in [Pinners -> PinnerRow] /\ saver \in [Savers -> SaverRow]
        /\ insight \in [RowIds -> InsightRow] /\ RealRows /\ TextOnce /\ RealTexts
    BY DEF InsightInv, InsightTypes, TextInv
  <2>2. ASSUME NEW snapshot \in snapshots, RestoreFromHistory(snapshot) PROVE TextInv'
    <3>1. /\ ReplacePins(snapshot) /\ UNCHANGED <<pinner, saver, refining, snapshots>>
          /\ edits < MaxEdits /\ edits' = edits + 1 /\ snapshot \in SUBSET Texts
      BY <2>1, <2>2 DEF RestoreFromHistory, RealTexts
    <3>2. RealTexts' BY <2>1, <3>1, InsightsAssumption DEF RealTexts
    <3> QED BY <3>1, <3>2, ReplacedTexts DEF TextInv
  <2>3. CASE ReadPins
    <3>1. /\ UNCHANGED <<insight, pinner, saver, snapshots, edits>>
          /\ refining' = [at |-> "call", read |-> TextsOf("pinned"), answer |-> {}]
      BY <2>3 DEF ReadPins
    <3>2. TextsOf("pinned") \subseteq Texts
      <4> SUFFICES ASSUME NEW i \in RowIds, insight[i].kind = "pinned" PROVE insight[i].text \in Texts
        BY DEF TextsOf, Of
      <4>1. insight[i] # NoInsight BY DEF NoInsight
      <4> QED BY <2>1, <4>1 DEF RealRows, RealRow
    <3>3. RealTexts' BY <2>1, <3>1, <3>2 DEF RealTexts
    <3> QED BY <2>1, <3>1, <3>3 DEF TextInv, RealRows, TextOnce
  <2>4. CASE AnswerRefine
    <3>1. UNCHANGED <<insight, pinner, saver, snapshots, edits>> BY <2>4 DEF AnswerRefine
    <3>2. refining'.answer \subseteq Texts /\ refining'.read \subseteq Texts
      <4>1. CASE refining' = [at |-> "idle", read |-> {}, answer |-> {}] BY <4>1
      <4>2. ASSUME NEW answer \in SUBSET Texts,
                   refining' = [refining EXCEPT !.at = "replace", !.answer = answer]
            PROVE  refining'.answer \subseteq Texts /\ refining'.read \subseteq Texts
        BY <2>1, <4>2 DEF RefineTypes, RealTexts
      <4> QED BY <2>4, <4>1, <4>2 DEF AnswerRefine
    <3>3. RealTexts' BY <2>1, <3>1, <3>2 DEF RealTexts
    <3> QED BY <2>1, <3>1, <3>3 DEF TextInv, RealRows, TextOnce
  <2>5. CASE ReplaceRefined
    <3>1. /\ ReplacePins(refining.answer) /\ UNCHANGED <<pinner, saver, edits>>
          /\ snapshots' = snapshots \cup {refining.read}
          /\ refining' = [at |-> "idle", read |-> {}, answer |-> {}]
      BY <2>5 DEF ReplaceRefined
    <3>2. RealTexts' BY <2>1, <3>1 DEF RealTexts
    <3>3. refining.answer \in SUBSET Texts BY <2>1 DEF RealTexts
    <3> QED BY <3>1, <3>2, <3>3, ReplacedTexts DEF TextInv
  <2>6. CASE UNCHANGED insightVars
    BY <2>6 DEF insightVars, TextInv, RealRows, TextOnce, RealTexts
  <2> QED BY <2>1, <2>2, <2>3, <2>4, <2>5, <2>6, PinnersKeepTexts, SaversKeepTexts, UserKeepsTexts
          DEF InsightsNext
<1> QED BY <1>1, <1>2, InsightInvHolds, PTL DEF InsightsSpec

LEMMA InsightTypesHold == InsightsSpec => []InsightsTypeOK
<1>1. InsightInv /\ RefineTypes /\ TextInv => InsightsTypeOK
  <2> SUFFICES ASSUME InsightInv, RefineTypes, TextInv PROVE InsightsTypeOK OBVIOUS
  <2>1. \A p \in Pinners : pinner[p].at \in {"idle", "count", "insert", "done", "refused"}
    BY DEF InsightInv, InsightTypes, PinnerRow
  <2>2. \A s \in Savers : saver[s].at \in {"idle", "insert", "evict", "fade", "done", "failed"}
    BY DEF InsightInv, InsightTypes, SaverRow
  <2>3. refining.at \in {"idle", "call", "replace"} BY DEF RefineTypes
  <2> QED BY <2>1, <2>2, <2>3 DEF TextInv, RealRows, RealRow, TextOnce, RealTexts, InsightsTypeOK
<1> QED BY <1>1, InsightInvHolds, TextInvHolds, PTL

(* Each of the four runs in the composition as it does alone.               *)
LEMMA FourTogether ==
  KnowledgeSpec => HistorySpec /\ InsightsSpec /\ EmbeddingsSpec /\ DocSpec
<1>1. KnowledgeInit => HistoryInit /\ InsightsInit /\ EmbeddingsInit /\ DocInit BY DEF KnowledgeInit
<1>2. [KnowledgeNext]_knowledgeVars =>
        /\ [HistoryNext]_historyVars /\ [InsightsNext]_insightVars
        /\ [EmbeddingsNext]_embeddingVars /\ [DocNext]_documentVars
  BY DEF KnowledgeNext, knowledgeVars
<1> QED BY <1>1, <1>2, PTL DEF KnowledgeSpec, HistorySpec, InsightsSpec, EmbeddingsSpec, DocSpec

(* Nothing of what the models remember ever leaves its type, and a text is *)
(* in a user's insights at most once, whoever pins, distills, edits,       *)
(* restores or refines it meanwhile (pin_insight, save_auto_insight,       *)
(* edit_insight, refine); a vector that is there has a model and a text.   *)
THEOREM KnowledgeTypesHold == KnowledgeSpec => []KnowledgeTypesOK
<1>1. HistoryTypeOK /\ InsightsTypeOK /\ EmbeddingsTypeOK /\ DocTypeOK => KnowledgeTypesOK
  BY DEF KnowledgeTypesOK
<1> QED BY <1>1, FourTogether, HistoryTypesHold, InsightTypesHold, EmbeddingTypesHold, DocTypesHold, PTL
=============================================================================
