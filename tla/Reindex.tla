------------------------------ MODULE Reindex ------------------------------
(***************************************************************************)
(* The rebuild of an organization's search index (services/reindex.py)     *)
(* after the embedding provider was changed, while documents go on being   *)
(* processed and deleted.  Chunks are read page by page, by offset, in the *)
(* order of their ids, which are random; each page is committed.           *)
(***************************************************************************)
EXTENDS Integers, FiniteSets

CONSTANTS
    Rows,           \* the ids a DocumentChunk can get: numbers, in their order
    BatchSize,      \* BATCH_SIZE
    OldDim, NewDim, \* dimensions of the vectors of the provider before and of the new one
    Learns,         \* whether the new provider learns its dimension from its first answer
    MaxMoves        \* bound: chunks inserted or deleted while a rebuild runs

ASSUME ReindexAssumption ==
    /\ Rows \subseteq Int /\ IsFiniteSet(Rows) /\ BatchSize \in Nat \ {0}
    /\ OldDim \in Nat \ {0} /\ NewDim \in Nat \ {0} /\ OldDim # NewDim
    /\ Learns \in BOOLEAN /\ MaxMoves \in Nat

VARIABLES
    vector,     \* DocumentChunk.embedding: its dimension, or 0 where there is no row
    dim,        \* Embedder.dim of the process
    step,       \* of the rebuild: "idle", "looping", "embedding", "done" or "failed"
    total, offset, updated, batch,  \* its local variables
    moves,      \* history: chunks inserted and deleted since it began, those
                \* inserted with an old vector twice
    status      \* the last index_status shown: [total, stale], and whether dim was known

reindexVars == <<vector, dim, step, total, offset, updated, batch, moves, status>>
rebuild == <<step, total, offset, updated, batch>>

Chunks == {c \in Rows : vector[c] # 0}
NoStatus == [total |-> 0, stale |-> 0, known |-> FALSE]

ReindexInit ==
    /\ vector \in [Rows -> {0, OldDim}]
    /\ dim = IF Learns THEN 0 ELSE NewDim
    /\ step = "idle" /\ total = 0 /\ offset = 0 /\ updated = 0 /\ batch = {}
    /\ moves = 0 /\ status = NoStatus

(* The rows at positions offset .. offset + BatchSize - 1 of ORDER BY id. *)
Page(from) ==
    {c \in Chunks : LET before == Cardinality({b \in Chunks : b < c})
                    IN from <= before /\ before < from + BatchSize}

(* reindex_organization counts the chunks once ... *)
BeginRebuild ==
    /\ step \in {"idle", "done", "failed"}
    /\ step' = "looping" /\ total' = Cardinality(Chunks) /\ offset' = 0 /\ updated' = 0
    /\ batch' = {} /\ moves' = 0
    /\ UNCHANGED <<vector, dim, status>>

(* ... selects a page ... *)
SelectPage ==
    /\ step = "looping" /\ offset < total /\ Page(offset) # {}
    /\ step' = "embedding" /\ batch' = Page(offset)
    /\ UNCHANGED <<vector, dim, total, offset, updated, moves, status>>

EndRebuild ==
    /\ step = "looping" /\ (offset >= total \/ Page(offset) = {})
    /\ step' = "done"
    /\ UNCHANGED <<vector, dim, total, offset, updated, batch, moves, status>>

(* Mistake: the next page begins after as many rows as were updated, not skipped. *)
WritePageTwoOn ==
    /\ step = "embedding"
    /\ vector' = [c \in Rows |-> IF c \in batch \cap Chunks THEN NewDim ELSE vector[c]]
    /\ dim' = NewDim
    /\ step' = "looping" /\ updated' = updated + Cardinality(batch)
    /\ offset' = offset + BatchSize + 1
    /\ UNCHANGED <<total, batch, moves, status>>

(* ... and writes the vectors it got.  Of a row that was deleted meanwhile the driver may
   not notice that nothing was updated ... *)
WritePage ==
    /\ step = "embedding"
    /\ vector' = [c \in Rows |-> IF c \in batch \cap Chunks THEN NewDim ELSE vector[c]]
    /\ dim' = NewDim
    /\ step' = "looping" /\ updated' = updated + Cardinality(batch)
    /\ offset' = offset + BatchSize
    /\ UNCHANGED <<total, batch, moves, status>>

(* ... or does, or the provider fails: the page is rolled back, those before it stay. *)
FailPage ==
    /\ step = "embedding"
    /\ step' = "failed" /\ dim' \in {dim, NewDim}
    /\ UNCHANGED <<vector, total, offset, updated, batch, moves, status>>

(* process_document of a worker that still has the old provider, or has the new one. *)
InsertChunk(c) ==
    /\ vector[c] = 0 /\ moves < MaxMoves
    /\ \E d \in {OldDim, NewDim} :
         /\ vector' = [vector EXCEPT ![c] = d]
         /\ moves' = moves + IF d = OldDim THEN 2 ELSE 1
    /\ UNCHANGED <<dim, rebuild, status>>

DeleteChunk(c) ==
    /\ vector[c] # 0 /\ moves < MaxMoves /\ moves' = moves + 1
    /\ vector' = [vector EXCEPT ![c] = 0]
    /\ UNCHANGED <<dim, rebuild, status>>

(* index_status: with no dimension known only chunks without a vector would be stale. *)
Status ==
    /\ step # "embedding"
    /\ status' = [total |-> Cardinality(Chunks), known |-> dim # 0,
                  stale |-> Cardinality({c \in Chunks : dim # 0 /\ vector[c] # dim})]
    /\ UNCHANGED <<vector, dim, rebuild, moves>>

ReindexNext ==
    \/ BeginRebuild
    \/ SelectPage
    \/ EndRebuild
    \/ WritePage
    \/ FailPage
    \/ \E c \in Rows : InsertChunk(c)
    \/ \E c \in Rows : DeleteChunk(c)
    \/ Status

ReindexSpec == ReindexInit /\ [][ReindexNext]_reindexVars

-----------------------------------------------------------------------------
Outdated == {c \in Chunks : vector[c] # NewDim}

(* A rebuild that ends well leaves no chunk with a vector of the old provider, which no
   search would find, but for at most one for each chunk that was inserted or deleted while
   it ran and so moved the pages, and those that came with an old vector themselves; and
   when nothing moved, its count is exact. *)
RebuildMissesFew ==
    step = "done" =>
        /\ Cardinality(Outdated) <= moves
        /\ moves = 0 => updated = total /\ total = Cardinality(Chunks)

=============================================================================
