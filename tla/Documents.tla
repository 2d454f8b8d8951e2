------------------------------ MODULE Documents ------------------------------
(***************************************************************************)
(* The documents of a project and the embedding model their vectors are of *)
(* (documents_service: upload_document, chunk_and_embed,                   *)
(* re_embed_project_documents, set_document_project_id, delete_document).  *)
(*                                                                         *)
(* A project is pinned to one embedding model when something is attached   *)
(* to it. Each chunk keeps the model its row says it was embedded under:   *)
(* retrieval embeds the query under that model and compares. The admin     *)
(* loads and unloads models of the server at any time, and every step of   *)
(* an upload is a transaction, or an HTTP call, of its own.                *)
(***************************************************************************)
EXTENDS Naturals, FiniteSets

CONSTANTS
  Uploads,     \* uploads, and the documents row each of them inserts
  Files,       \* contents (their sha256)
  Blank,       \* those whose text is white space only
  Projects,    \* projects of one user
  Embedders,   \* embedding models of the catalog
  DefaultEmbedder,  \* DEFAULT_EMBEDDING_MODEL_KEY
  NoEmbedder,  \* no model: an unset pin, preference or resolution
  MaxSwaps,    \* bound: changes of the loaded models or of the preference
  MaxHalts     \* bound: stops of the process

ASSUME DocumentsAssumption ==
  /\ DefaultEmbedder \in Embedders /\ NoEmbedder \notin Embedders
  /\ Files # {} /\ Projects # {} /\ Blank \subseteq Files
  /\ MaxSwaps \in Nat /\ MaxHalts \in Nat

Labels == Embedders \cup {NoEmbedder}

VARIABLES
  loaded,     \* embedding models with a loaded instance
  preferred,  \* server_lm_studio_default.preferred_embedding_model_id
  pin,        \* projects.embedding_model_id
  doc,        \* documents and their chunks, one vector standing for all
  up,         \* where each upload is, and what it resolved
  move,       \* the move of a document under way
  reembed,    \* the re-embedding under way
  swaps, halts

documentVars == <<loaded, preferred, pin, doc, up, move, reembed, swaps, halts>>

NoDoc == [state |-> "none", file |-> CHOOSE f \in Files : TRUE,
          project |-> CHOOSE p \in Projects : TRUE,
          vector |-> NoEmbedder, label |-> NoEmbedder, moved |-> FALSE]
NoUpload == [at |-> "idle", file |-> NoDoc.file, project |-> NoDoc.project, model |-> NoEmbedder, late |-> FALSE]
NoMove == [at |-> "idle", doc |-> CHOOSE u \in Uploads : TRUE, project |-> NoDoc.project]
NoReembed == [at |-> "idle", project |-> NoDoc.project, model |-> NoEmbedder,
              todo |-> {}, read |-> {}]

DocTypeOK ==
  /\ loaded \subseteq Embedders /\ preferred \in Labels
  /\ pin \in [Projects -> Labels]
  /\ \A u \in Uploads :
       /\ doc[u].state \in {"none", "live", "deleted"}
       /\ doc[u].vector \in Labels /\ doc[u].label \in Labels
       /\ up[u].model \in Labels
       /\ up[u].at \in {"idle", "gate", "dedup", "insert", "embed", "undo",
                       "done", "failed", "left", "lost"}
  /\ reembed.todo \subseteq Uploads /\ reembed.read \subseteq reembed.todo
  /\ swaps \in 0 .. MaxSwaps /\ halts \in 0 .. MaxHalts

DocInit ==
  /\ loaded \in SUBSET Embedders
  /\ preferred = NoEmbedder
  /\ pin = [p \in Projects |-> NoEmbedder]
  /\ doc = [u \in Uploads |-> NoDoc]
  /\ up = [u \in Uploads |-> NoUpload]
  /\ move = NoMove
  /\ reembed = NoReembed
  /\ swaps = 0 /\ halts = 0

Embedded(u) == doc[u].vector # NoEmbedder

-----------------------------------------------------------------------------
(* The admin: models are loaded and unloaded, the preference is set.       *)
SwapModels ==
  /\ swaps < MaxSwaps /\ swaps' = swaps + 1
  /\ \/ loaded' \in SUBSET Embedders /\ UNCHANGED preferred
     \/ preferred' \in loaded /\ UNCHANGED loaded
  /\ UNCHANGED <<pin, doc, up, move, reembed, halts>>

(* resolve_active_embedding_model_key: the stored preference, or else the  *)
(* default one, which becomes the preference; a preferred model that is    *)
(* not loaded is an error, nothing loaded is no model.                     *)
PreferredMissing == preferred # NoEmbedder /\ preferred \notin loaded
Resolved ==
  IF preferred # NoEmbedder THEN preferred
  ELSE IF DefaultEmbedder \in loaded THEN DefaultEmbedder ELSE NoEmbedder
Remember == preferred' = IF preferred = NoEmbedder THEN Resolved ELSE preferred

(* _enforce_embedding_pin_or_pin, for a model that was resolved before:    *)
(* compare and swap of the pin; what it read decides.                      *)
MayAttach(p, model) == model = NoEmbedder \/ pin[p] \in {model, NoEmbedder}
Pinned(p, model) ==
  IF model = NoEmbedder \/ pin[p] # NoEmbedder THEN pin ELSE [pin EXCEPT ![p] = model]
-----------------------------------------------------------------------------
(* upload_document                                                         *)

ResolveUpload(u) ==
  /\ up[u].at = "idle"
  /\ \E f \in Files, p \in Projects :
       up' = [up EXCEPT ![u] =
         [at |-> IF PreferredMissing THEN "failed" ELSE "gate",
          file |-> f, project |-> p, model |-> Resolved, late |-> Resolved = NoEmbedder]]
  /\ Remember
  /\ UNCHANGED <<loaded, pin, doc, move, reembed, swaps, halts>>

(* The model the gate finds by itself: the first loaded one (by key, the   *)
(* order is left open), or none.                                           *)
FirstLoaded == IF loaded = {} THEN {NoEmbedder} ELSE loaded

(* The gate resolves once more when nothing was resolved.                  *)
GateUpload(u) ==
  /\ up[u].at = "gate"
  /\ \E model \in IF up[u].model = NoEmbedder THEN FirstLoaded ELSE {up[u].model} :
       IF MayAttach(up[u].project, model)
       THEN up' = [up EXCEPT ![u].at = "dedup"] /\ pin' = Pinned(up[u].project, model)
       ELSE up' = [up EXCEPT ![u].at = "failed"] /\ UNCHANGED pin
  /\ UNCHANGED <<loaded, preferred, doc, move, reembed, swaps, halts>>

(* A live row of the same bytes in the project is the answer.              *)
DedupUpload(u) ==
  /\ up[u].at = "dedup"
  /\ up' = [up EXCEPT ![u].at =
       IF \E v \in Uploads : doc[v].state = "live" /\ doc[v].file = up[u].file
                               /\ doc[v].project = up[u].project
       THEN "done" ELSE "insert"]
  /\ UNCHANGED <<loaded, preferred, pin, doc, move, reembed, swaps, halts>>

InsertDocument(u) ==
  /\ up[u].at = "insert"
  /\ up' = [up EXCEPT ![u].at = "embed"]
  /\ doc' = [doc EXCEPT ![u] =
       [NoDoc EXCEPT !.state = "live", !.file = up[u].file, !.project = up[u].project]]
  /\ UNCHANGED <<loaded, preferred, pin, move, reembed, swaps, halts>>

(* chunk_and_embed without a model resolves by itself.                     *)
ResolveAtEmbed(u) ==
  /\ up[u].at = "embed" /\ up[u].model = NoEmbedder
  /\ ~PreferredMissing /\ Resolved # NoEmbedder
  /\ up' = [up EXCEPT ![u].model = Resolved]
  /\ Remember
  /\ UNCHANGED <<loaded, pin, doc, move, reembed, swaps, halts>>

(* Faulty: the model is resolved again when the chunks are embedded.       *)
StoreChunksResolved(u) ==
  /\ up[u].at = "embed" /\ Resolved # NoEmbedder
  /\ doc' = [doc EXCEPT ![u].vector = Resolved, ![u].label = Resolved]
  /\ up' = [up EXCEPT ![u].at = "done"]
  /\ UNCHANGED <<loaded, preferred, pin, move, reembed, swaps, halts>>

(* The chunks and their count are written; nothing looks whether the       *)
(* document was deleted or moved meanwhile. A text of white space has no   *)
(* chunks, nothing is embedded, and the upload has succeeded all the same. *)
StoreChunks(u) ==
  /\ up[u].at = "embed" /\ up[u].model # NoEmbedder
  /\ doc' = IF up[u].file \in Blank THEN doc
            ELSE [doc EXCEPT ![u].vector = up[u].model, ![u].label = up[u].model]
  /\ up' = [up EXCEPT ![u].at = "done"]
  /\ UNCHANGED <<loaded, preferred, pin, move, reembed, swaps, halts>>

(* Faulty: the row of an upload that could not be embedded stays.          *)
EmbedFailsUndone(u) ==
  /\ up[u].at = "embed"
  /\ up' = [up EXCEPT ![u].at = "failed"]
  /\ UNCHANGED <<loaded, preferred, pin, doc, move, reembed, swaps, halts>>

(* No model, or the embedding call or the write of the chunks fails: a     *)
(* compensating soft delete, in a transaction of its own.                  *)
EmbedFails(u) ==
  /\ up[u].at = "embed"
  /\ up' = [up EXCEPT ![u].at = "undo"]
  /\ UNCHANGED <<loaded, preferred, pin, doc, move, reembed, swaps, halts>>

UndoUpload(u) ==
  /\ up[u].at = "undo"
  /\ up' = [up EXCEPT ![u].at = "failed"]
  /\ doc' = [doc EXCEPT ![u].state = "deleted"]
  /\ UNCHANGED <<loaded, preferred, pin, move, reembed, swaps, halts>>

(* It fails too, its retries included: the upload is refused with that     *)
(* error and the row stays.                                                *)
UndoFails(u) ==
  /\ up[u].at = "undo"
  /\ up' = [up EXCEPT ![u].at = "left"]
  /\ UNCHANGED <<loaded, preferred, pin, doc, move, reembed, swaps, halts>>

Upload(u) ==
  \/ ResolveUpload(u) \/ GateUpload(u) \/ DedupUpload(u) \/ InsertDocument(u)
  \/ ResolveAtEmbed(u) \/ StoreChunks(u) \/ EmbedFails(u) \/ UndoUpload(u) \/ UndoFails(u)

-----------------------------------------------------------------------------
(* delete_document: the chunks go, the row is marked.                      *)
DeleteDocument(u) ==
  /\ doc[u].state = "live"
  /\ doc' = [doc EXCEPT ![u].state = "deleted", ![u].vector = NoEmbedder, ![u].label = NoEmbedder]
  /\ UNCHANGED <<loaded, preferred, pin, up, move, reembed, swaps, halts>>

(* set_document_project_id: the gate asks for the first loaded model, not  *)
(* for the one the document's chunks are of.                               *)
GateMove(u, p) ==
  /\ move.at = "idle" /\ doc[u].state = "live" /\ doc[u].project # p
  /\ \E model \in FirstLoaded : MayAttach(p, model) /\ pin' = Pinned(p, model)
  /\ move' = [at |-> "update", doc |-> u, project |-> p]
  /\ UNCHANGED <<loaded, preferred, doc, up, reembed, swaps, halts>>

UpdateMove ==
  /\ move.at = "update"
  /\ doc' = IF doc[move.doc].state # "live" THEN doc
            ELSE [doc EXCEPT ![move.doc].project = move.project, ![move.doc].moved = TRUE]
  /\ move' = [move EXCEPT !.at = "done"]
  /\ UNCHANGED <<loaded, preferred, pin, up, reembed, swaps, halts>>

-----------------------------------------------------------------------------
(* re_embed_project_documents: the pin first, then the list, then each.    *)
PinReembed(p) ==
  /\ reembed.at = "idle" /\ ~PreferredMissing /\ Resolved # NoEmbedder
  /\ Remember
  /\ pin' = [pin EXCEPT ![p] = Resolved]
  /\ reembed' = [at |-> "list", project |-> p, model |-> Resolved,
                 todo |-> {}, read |-> {}]
  /\ UNCHANGED <<loaded, doc, up, move, swaps, halts>>

ListReembed ==
  /\ reembed.at = "list"
  /\ reembed' = [reembed EXCEPT !.at = "each", !.todo =
       {u \in Uploads : doc[u].state = "live" /\ doc[u].project = reembed.project}]
  /\ UNCHANGED <<loaded, preferred, pin, doc, up, move, swaps, halts>>

(* The chunks of a document are read; one without chunks is done with.     *)
ReadChunks(u) ==
  /\ reembed.at = "each" /\ reembed.read = {} /\ u \in reembed.todo
  /\ reembed' = IF Embedded(u) THEN [reembed EXCEPT !.read = {u}]
                ELSE [reembed EXCEPT !.todo = @ \ {u}]
  /\ UNCHANGED <<loaded, preferred, pin, doc, up, move, swaps, halts>>

(* Their text has been embedded again: the vector is replaced, with the    *)
(* model of the document; the row of the chunk keeps its label. Chunks     *)
(* that were deleted meanwhile are not there to be updated.                *)
WriteVectors(u) ==
  /\ u \in reembed.read
  /\ reembed' = [reembed EXCEPT !.todo = @ \ {u}, !.read = {}]
  /\ doc' = IF Embedded(u) THEN [doc EXCEPT ![u].vector = reembed.model] ELSE doc
  /\ UNCHANGED <<loaded, preferred, pin, up, move, swaps, halts>>

(* All done, or the embedding call fails: the rest keeps what it has.      *)
EndReembed ==
  /\ reembed.at = "each"
  /\ reembed' = [reembed EXCEPT !.at = "done", !.todo = {}, !.read = {}]
  /\ UNCHANGED <<loaded, preferred, pin, doc, up, move, swaps, halts>>

(* The process stops: nothing resumes what it was doing.                   *)
Halt ==
  /\ halts < MaxHalts /\ halts' = halts + 1
  /\ up' = [u \in Uploads |->
       IF up[u].at \in {"idle", "done", "failed", "left"} THEN up[u]
       ELSE [up[u] EXCEPT !.at = "lost"]]
  /\ move' = IF move.at = "update" THEN [move EXCEPT !.at = "done"] ELSE move
  /\ reembed' = IF reembed.at = "idle" THEN reembed
              ELSE [reembed EXCEPT !.at = "done", !.todo = {}, !.read = {}]
  /\ UNCHANGED <<loaded, preferred, pin, doc, swaps>>

DocNext ==
  \/ SwapModels \/ UpdateMove \/ ListReembed \/ EndReembed \/ Halt
  \/ \E u \in Uploads : Upload(u) \/ DeleteDocument(u) \/ ReadChunks(u) \/ WriteVectors(u)
  \/ \E u \in Uploads, p \in Projects : GateMove(u, p)
  \/ \E p \in Projects : PinReembed(p)

DocSpec == DocInit /\ [][DocNext]_documentVars

-----------------------------------------------------------------------------
(* A live document without chunks, which the dedup would give as the       *)
(* answer to every later upload of the same bytes (upload_document, the    *)
(* compensating delete), is one whose upload is still under way, one of    *)
(* white space only, or one left by a process that stopped or by a         *)
(* compensating delete that failed. No other failure leaves one.           *)
NoDeadDocument ==
  \A u \in Uploads :
    doc[u].state = "live" /\ ~Embedded(u) /\ doc[u].file \notin Blank =>
      up[u].at \in {"embed", "undo", "left", "lost"}

(* What an upload that resolved its model before the gate stored is of the *)
(* model its project is pinned to, whatever the admin loaded meanwhile and *)
(* whatever other uploads attached ("so the pin and chunk embeddings land  *)
(* under the same model id"). Documents moved in and projects re-embedded  *)
(* are not meant: their gates look at something else.                      *)
UploadedUnderPin ==
  \A u \in Uploads :
    Embedded(u) /\ ~doc[u].moved /\ ~up[u].late
    /\ (reembed.at = "idle" \/ reembed.project # doc[u].project) =>
      pin[doc[u].project] = doc[u].vector

(* A chunk is compared with a query embedded under the model its row says  *)
(* ("Tracks which embedding model produced this vector so the read path    *)
(* can embed the query under the same model").                             *)
VectorsLabelled == \A u \in Uploads : Embedded(u) => doc[u].vector = doc[u].label
=============================================================================
