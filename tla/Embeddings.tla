------------------------------ MODULE Embeddings ------------------------------
(***************************************************************************)
(* The vectors of the messages (memory_service: index_message,             *)
(* corpus_embedding_dimension, reindex, _insert_embedding_rows; POST       *)
(* /api/memory/reindex).                                                   *)
(*                                                                         *)
(* A finished turn indexes its messages in the background: it reads the    *)
(* text, asks the embedding server and inserts a row keyed by the message  *)
(* id. A message that is deleted takes its row along (foreign key), and    *)
(* SQLite gives the id of the last message away again.                     *)
(***************************************************************************)
EXTENDS Naturals, FiniteSets, FiniteSetsExt

CONSTANTS
  Contents,   \* texts of messages
  Models,     \* embedding models, each of a dimension of its own
  FirstModel, \* the one preferred at the start
  Indexers,   \* background calls of index_message
  None,       \* no message, no vector
  MaxMessages,\* bound: message ids
  MaxWrites,  \* bound: messages written
  MaxReindexes\* bound: reindexes

ASSUME EmbeddingsAssumption ==
  /\ FirstModel \in Models /\ None \notin Contents \cup Models
  /\ MaxMessages \in Nat /\ MaxWrites \in Nat /\ MaxReindexes \in Nat

MessageIds == 1 .. MaxMessages

VARIABLES
  text,      \* messages: the text of each, None when there is no such row
  vector,    \* message_embeddings: the model and the text it was made of
  prefers,   \* preferred_embedding_model_id
  indexer,   \* each index_message: where it is, what it read
  reindexing,\* app.state.reindex_task: where it is, its model, its work list
  writes, reindexes

embeddingVars == <<text, vector, prefers, indexer, reindexing, writes, reindexes>>

NoVector == [model |-> None, of |-> None]

EmbeddingsTypeOK ==
  /\ text \in [MessageIds -> Contents \cup {None}]
  /\ \A i \in MessageIds :
       vector[i] = NoVector \/ vector[i] \in [model : Models, of : Contents]
  /\ prefers \in Models
  /\ \A k \in Indexers : indexer[k].at \in {"idle", "embed", "insert", "done"}
  /\ reindexing.at \in {"idle", "probe", "select", "batch"}
  /\ \A w \in reindexing.todo : w.id \in MessageIds
  /\ writes \in 0 .. MaxWrites /\ reindexes \in 0 .. MaxReindexes

NoReindex == [at |-> "idle", model |-> FirstModel, todo |-> {}, some |-> FALSE, empty |-> FALSE]

EmbeddingsInit ==
  /\ text = [i \in MessageIds |-> None]
  /\ vector = [i \in MessageIds |-> NoVector]
  /\ prefers = FirstModel
  /\ indexer = [k \in Indexers |-> [at |-> "idle", id |-> 1, text |-> None, model |-> None]]
  /\ reindexing = NoReindex
  /\ writes = 0 /\ reindexes = 0

There == {i \in MessageIds : text[i] # None}
Corpus == {i \in MessageIds : vector[i] # NoVector}

-----------------------------------------------------------------------------
(* Turns and deletions, as far as the vectors see them.                    *)
WriteMessage ==
  /\ writes < MaxWrites /\ writes' = writes + 1
  /\ LET i == 1 + Max({0} \cup There) IN
       /\ i \in MessageIds
       /\ \E t \in Contents : text' = [text EXCEPT ![i] = t]
  /\ UNCHANGED <<vector, prefers, indexer, reindexing, reindexes>>
MessageDeleted(i) ==
  /\ i \in There
  /\ text' = [text EXCEPT ![i] = None]
  /\ vector' = [vector EXCEPT ![i] = NoVector]
  /\ UNCHANGED <<prefers, indexer, reindexing, writes, reindexes>>

-----------------------------------------------------------------------------
(* index_message: the text is read and the preferred model resolved; the   *)
(* dimension of any one row of the corpus is compared before the insert,   *)
(* which leaves a row that is there alone, and fails without the message.  *)
ReadMessage(k, i) ==
  /\ indexer[k].at = "idle" /\ i \in There
  /\ indexer' = [indexer EXCEPT ![k] =
       [at |-> "embed", id |-> i, text |-> text[i], model |-> prefers]]
  /\ UNCHANGED <<text, vector, prefers, reindexing, writes, reindexes>>
CompareDimension(k) ==
  /\ indexer[k].at = "embed"
  /\ indexer' = [indexer EXCEPT ![k].at =
       IF \E i \in Corpus : vector[i].model # indexer[k].model THEN "done" ELSE "insert"]
  /\ UNCHANGED <<text, vector, prefers, reindexing, writes, reindexes>>
InsertVector(k) ==
  LET i == indexer[k].id IN
  /\ indexer[k].at = "insert"
  /\ vector' = IF i \in There /\ i \notin Corpus
               THEN [vector EXCEPT ![i] = [model |-> indexer[k].model, of |-> indexer[k].text]]
               ELSE vector
  /\ indexer' = [indexer EXCEPT ![k].at = "done"]
  /\ UNCHANGED <<text, prefers, reindexing, writes, reindexes>>
(* No such model, or the embedding server fails.                           *)
GiveUpIndex(k) ==
  /\ indexer[k].at = "embed"
  /\ indexer' = [indexer EXCEPT ![k].at = "done"]
  /\ UNCHANGED <<text, vector, prefers, reindexing, writes, reindexes>>

-----------------------------------------------------------------------------
(* reindex: one at a time; the messages are counted; a probe of the target; *)
(* then those without a vector of it, with their texts; then batch after   *)
(* batch (here of one message each).                                       *)
StartReindex(m) ==
  /\ reindexing.at = "idle" /\ reindexes < MaxReindexes
  /\ reindexes' = reindexes + 1
  /\ reindexing' = [NoReindex EXCEPT !.at = "probe", !.model = m, !.empty = There = {}]
  /\ UNCHANGED <<text, vector, prefers, indexer, writes>>
AbortReindex ==
  /\ reindexing.at = "probe"
  /\ reindexing' = NoReindex
  /\ UNCHANGED <<text, vector, prefers, indexer, writes, reindexes>>

Stale(m) == {i \in There : vector[i].model # m}

(* Faulty: what is going to be replaced is deleted first.                  *)
SelectAndDrop ==
  /\ reindexing.at = "probe"
  /\ reindexing' = [reindexing EXCEPT !.at = "batch",
       !.todo = {[id |-> i, text |-> text[i]] : i \in Stale(reindexing.model)}]
  /\ vector' = [i \in MessageIds |->
       IF i \in Stale(reindexing.model) THEN NoVector ELSE vector[i]]
  /\ UNCHANGED <<text, prefers, indexer, writes, reindexes>>
SelectStale ==
  /\ reindexing.at = "probe"
  /\ reindexing' = [reindexing EXCEPT !.at = "batch",
       !.todo = {[id |-> i, text |-> text[i]] : i \in Stale(reindexing.model)}]
  /\ UNCHANGED <<text, vector, prefers, indexer, writes, reindexes>>

(* _insert_embedding_rows: delete and insert in one transaction, which     *)
(* fails, and ends the reindex, when the message is no longer there.       *)
SwapBatch(w) ==
  /\ reindexing.at = "batch" /\ w \in reindexing.todo
  /\ IF w.id \in There
     THEN /\ vector' = [vector EXCEPT ![w.id] = [model |-> reindexing.model, of |-> w.text]]
          /\ reindexing' = [reindexing EXCEPT !.todo = @ \ {w}, !.some = TRUE]
     ELSE reindexing' = NoReindex /\ UNCHANGED vector
  /\ UNCHANGED <<text, prefers, indexer, writes, reindexes>>
SkipBatch(w) ==
  /\ reindexing.at = "batch" /\ w \in reindexing.todo
  /\ reindexing' = [reindexing EXCEPT !.todo = @ \ {w}]
  /\ UNCHANGED <<text, vector, prefers, indexer, writes, reindexes>>
(* The target becomes the preferred model if something was re-embedded, or *)
(* there was nothing at the start.                                         *)
EndReindexing ==
  /\ reindexing.at = "batch" /\ reindexing.todo = {}
  /\ prefers' = IF reindexing.some \/ reindexing.empty THEN reindexing.model ELSE prefers
  /\ reindexing' = NoReindex
  /\ UNCHANGED <<text, vector, indexer, writes, reindexes>>

EmbeddingsNext ==
  \/ WriteMessage \/ \E i \in MessageIds : MessageDeleted(i)
  \/ \E k \in Indexers :
       (\E i \in MessageIds : ReadMessage(k, i)) \/ CompareDimension(k) \/ InsertVector(k)
         \/ GiveUpIndex(k)
  \/ (\E m \in Models : StartReindex(m)) \/ AbortReindex \/ SelectStale
  \/ (\E w \in reindexing.todo : SwapBatch(w) \/ SkipBatch(w)) \/ EndReindexing

EmbeddingsSpec == EmbeddingsInit /\ [][EmbeddingsNext]_embeddingVars

-----------------------------------------------------------------------------
(* A message that has a vector keeps one, of the old model or of the new,  *)
(* however a reindex goes ("so a message always has either its old         *)
(* (stale-but-searchable) vector or its new one, never neither").          *)
VectorKept ==
  [][\A i \in Corpus : text'[i] # None => vector'[i] # NoVector]_embeddingVars
=============================================================================
