---------------------------- MODULE MCKnowledge ----------------------------
(***************************************************************************)
(* Finite instances of what the models remember: the history of a chat and *)
(* its compaction, pinned and distilled insights, the vectors of messages, *)
(* documents and their chunks. Each behaviour explores one of them while   *)
(* the others stay where they start.                                       *)
(***************************************************************************)
EXTENDS History, Insights, Embeddings, Documents, TLC

VARIABLE part

knowledgeVars == <<part, historyVars, insightVars, embeddingVars, documentVars>>

KnowledgeInit ==
  /\ part \in {"history", "insights", "embeddings", "documents"}
  /\ HistoryInit /\ InsightsInit /\ EmbeddingsInit /\ DocInit
  /\ part # "documents" => loaded = {}

KnowledgeNext ==
  /\ \/ /\ part = "history" /\ HistoryNext
        /\ UNCHANGED <<insightVars, embeddingVars, documentVars>>
     \/ /\ part = "insights" /\ InsightsNext
        /\ UNCHANGED <<historyVars, embeddingVars, documentVars>>
     \/ /\ part = "embeddings" /\ EmbeddingsNext
        /\ UNCHANGED <<historyVars, insightVars, documentVars>>
     \/ /\ part = "documents" /\ DocNext
        /\ UNCHANGED <<historyVars, insightVars, embeddingVars>>
  /\ UNCHANGED part

KnowledgeSpec == KnowledgeInit /\ [][KnowledgeNext]_knowledgeVars

(* Bound: of a swap of the embedding model, a stop of the process, a       *)
(* compensating delete that fails and an upload of white space, two do not *)
(* meet in one behaviour.                                                  *)
Mishaps(u) == up[u].at # "idle" /\ (up[u].at = "left" \/ up[u].file \in Blank)
OneMishap == swaps + halts + Cardinality({u \in Uploads : Mishaps(u)}) <= 1

(* No upload is singled out.                                               *)
UploadSymmetry == Permutations(Uploads)

(* Every variable of the four has its type (rows, locks and what requests  *)
(* keep between two awaits).                                               *)
KnowledgeTypesOK == HistoryTypeOK /\ InsightsTypeOK /\ EmbeddingsTypeOK /\ DocTypeOK
=============================================================================
