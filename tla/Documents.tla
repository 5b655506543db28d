------------------------------ MODULE Documents ------------------------------
(***************************************************************************)
(* The document pipeline of one organization: upload under the plan quota, *)
(* extraction and indexing (inline or by Celery workers), deletion.        *)
(*                                                                         *)
(* Every request handler and every worker has a database session of its    *)
(* own and gives up control at each await, so an action below is one       *)
(* database transaction or one blob store call.  A failed commit rolls     *)
(* back, so a row changes only in the action that commits it.              *)
(***************************************************************************)
EXTENDS Naturals, FiniteSets, Functions

CONSTANTS
    Docs,             \* document ids (uuid4), each given to at most one upload
    Clients,          \* API request handlers
    Workers,          \* Celery worker processes
    NoDoc,            \* the document of an idle process
    SizeOf,           \* SizeOf[d]: size_bytes of the file uploaded as d
    ChunksOf,         \* ChunksOf[d]: number of chunks its text is split into
    DocLimit,         \* documents allowed by the organization's plan
    ByteLimit,        \* bytes allowed by the organization's plan
    EagerModes,       \* what PROCESS_DOCUMENTS_EAGER may be set to
    MaxAborts,        \* bound: how many times a process dies or loses a service
    MaxRedeliveries   \* bound: how many messages the broker delivers again

ASSUME DocsAssumption ==
    /\ IsFiniteSet(Docs) /\ NoDoc \notin Docs
    /\ SizeOf \in [Docs -> Nat] /\ ChunksOf \in [Docs -> Nat]
ASSUME ProcsAssumption ==
    /\ IsFiniteSet(Clients) /\ Clients # {} /\ Clients \cap Workers = {}
ASSUME LimitsAssumption ==
    /\ DocLimit \in Nat /\ ByteLimit \in Nat /\ EagerModes \subseteq BOOLEAN
    /\ MaxAborts \in Nat /\ MaxRedeliveries \in Nat

Procs == Clients \cup Workers

VARIABLES
    status,        \* Document.status of each row, "none" when there is no row
    chunk_count,   \* Document.chunk_count
    chunks,        \* number of DocumentChunk rows of each document
    blobs,         \* keys present in the object store
    used,          \* ids handed out by uuid4()
    queue,         \* documents.process messages in the broker, per document
    proc,          \* per handler or worker: its next step, its document and
                   \* the status of it that its session has loaded
    eager,         \* settings.PROCESS_DOCUMENTS_EAGER of this deployment
    aborts, redeliveries   \* counters for the two bounds

vars == <<status, chunk_count, chunks, blobs, used, queue, proc, eager, aborts,
          redeliveries>>
rowVars == <<status, chunk_count, chunks>>
envVars == <<eager, aborts, redeliveries>>

Status == {"none", "uploaded", "processing", "ready", "failed"}
UploadPc == {"counted", "checked", "stored", "inserted"}
DeletePc == {"deleting", "unlinked"}
ProcessPc == {"loaded", "processing", "embedding", "failing"}
Idle == [pc |-> "idle", doc |-> NoDoc, seen |-> "none"]

Rows == {d \in Docs : status[d] # "none"}

TypeOK ==
    /\ status \in [Docs -> Status]
    /\ chunk_count \in [Docs -> Nat] /\ chunks \in [Docs -> Nat]
    /\ blobs \in SUBSET Docs /\ used \in SUBSET Docs
    /\ queue \in [Docs -> Nat]
    /\ proc \in [Procs -> {Idle} \cup
                  [pc : UploadPc \cup DeletePc \cup ProcessPc,
                   doc : Docs, seen : Status]]
    /\ eager \in EagerModes
    /\ aborts \in 0..MaxAborts /\ redeliveries \in 0..MaxRedeliveries

Init ==
    /\ status = [d \in Docs |-> "none"]
    /\ chunk_count = [d \in Docs |-> 0] /\ chunks = [d \in Docs |-> 0]
    /\ blobs = {} /\ used = {}
    /\ queue = [d \in Docs |-> 0]
    /\ proc = [p \in Procs |-> Idle]
    /\ eager \in EagerModes /\ aborts = 0 /\ redeliveries = 0

At(p, label) == proc[p].pc = label
Start(p, label, d, s) ==
    proc' = [proc EXCEPT ![p] = [pc |-> label, doc |-> d, seen |-> s]]
GoOn(p, label) == Start(p, label, proc[p].doc, "none")
Stop(p) == proc' = [proc EXCEPT ![p] = Idle]

------------------------------------------------------------------------------
(***************************************************************************)
(* upload_document                                                         *)
(***************************************************************************)

\* Mistake: the comparison lets one document too many through.
CountFitsOffByOne == Cardinality(Rows) <= DocLimit

\* The two halves of ensure_document_quota, each a query of its own.
CountFits == Cardinality(Rows) < DocLimit
BytesFit(d) == SumFunctionOnSet(SizeOf, Rows) + SizeOf[d] <= ByteLimit

CheckCount(c, d) ==
    /\ At(c, "idle") /\ d \notin used /\ CountFits
    /\ Start(c, "counted", d, "none")
    /\ used' = used \cup {d}
    /\ UNCHANGED <<rowVars, blobs, queue, envVars>>

CheckBytes(c) ==
    /\ At(c, "counted")
    /\ IF BytesFit(proc[c].doc) THEN GoOn(c, "checked") ELSE Stop(c)
    /\ UNCHANGED <<rowVars, blobs, used, queue, envVars>>

PutBlob(c) ==
    /\ At(c, "checked") /\ GoOn(c, "stored")
    /\ blobs' = blobs \cup {proc[c].doc}
    /\ UNCHANGED <<rowVars, used, queue, envVars>>

InsertRow(c) ==
    /\ At(c, "stored") /\ GoOn(c, "inserted")
    /\ status' = [status EXCEPT ![proc[c].doc] = "uploaded"]
    /\ UNCHANGED <<chunk_count, chunks, blobs, used, queue, envVars>>

\* db.refresh raises when the row is already gone; otherwise this very request
\* processes the document, or sends its id to the workers.
HandOver(c) ==
    LET d == proc[c].doc  here == status[d] # "none" IN
    /\ At(c, "inserted")
    /\ IF here /\ eager THEN Start(c, "loaded", d, status[d]) ELSE Stop(c)
    /\ queue' = IF here /\ ~eager THEN [queue EXCEPT ![d] = @ + 1] ELSE queue
    /\ UNCHANGED <<rowVars, blobs, used, envVars>>

------------------------------------------------------------------------------
(***************************************************************************)
(* delete_document: the file goes first, then the row and its chunks       *)
(***************************************************************************)

StartDelete(c, d) ==
    /\ At(c, "idle") /\ d \in Rows
    /\ Start(c, "deleting", d, "none")
    /\ UNCHANGED <<rowVars, blobs, used, queue, envVars>>

\* Mistake: the file is left behind.
KeepBlob(c) ==
    /\ At(c, "deleting") /\ GoOn(c, "unlinked")
    /\ UNCHANGED <<rowVars, blobs, used, queue, envVars>>

DeleteBlob(c) ==
    /\ At(c, "deleting") /\ GoOn(c, "unlinked")
    /\ blobs' = blobs \ {proc[c].doc}
    /\ UNCHANGED <<rowVars, used, queue, envVars>>

\* Mistake: the chunks of the document are left behind.
DeleteRowOnly(c) ==
    /\ At(c, "unlinked") /\ Stop(c)
    /\ status' = [status EXCEPT ![proc[c].doc] = "none"]
    /\ UNCHANGED <<chunk_count, chunks, blobs, used, queue, envVars>>

\* A row that somebody else has deleted meanwhile is only warned about.
DeleteRow(c) ==
    /\ At(c, "unlinked") /\ Stop(c)
    /\ status' = [status EXCEPT ![proc[c].doc] = "none"]
    /\ chunk_count' = [chunk_count EXCEPT ![proc[c].doc] = 0]
    /\ chunks' = [chunks EXCEPT ![proc[c].doc] = 0]
    /\ UNCHANGED <<blobs, used, queue, envVars>>

------------------------------------------------------------------------------
(***************************************************************************)
(* process_document, run by a worker or, when eager, by the uploader       *)
(***************************************************************************)

\* What _run finds for the id of a message: a document deleted meanwhile is
\* skipped.
Load(w, d) ==
    IF status[d] = "none" THEN UNCHANGED proc ELSE Start(w, "loaded", d, status[d])

\* process_document_task: the message is acknowledged before the task runs.
TakeTask(w, d) ==
    /\ At(w, "idle") /\ queue[d] > 0 /\ Load(w, d)
    /\ queue' = [queue EXCEPT ![d] = @ - 1]
    /\ UNCHANGED <<rowVars, blobs, used, envVars>>

\* The ORM writes a status only when it differs from the one it loaded, and an
\* UPDATE that matches no row raises StaleDataError, here outside the try block.
MarkProcessing(p) ==
    LET d == proc[p].doc  dirty == proc[p].seen # "processing" IN
    /\ At(p, "loaded")
    /\ IF dirty /\ status[d] = "none" THEN Stop(p) ELSE GoOn(p, "processing")
    /\ status' = IF dirty /\ status[d] # "none"
                   THEN [status EXCEPT ![d] = "processing"] ELSE status
    /\ UNCHANGED <<chunk_count, chunks, blobs, used, queue, envVars>>

ReadBlob(p) ==
    /\ At(p, "processing")
    /\ GoOn(p, IF proc[p].doc \in blobs THEN "embedding" ELSE "failing")
    /\ UNCHANGED <<rowVars, blobs, used, queue, envVars>>

\* Extraction, chunking or the embedding service fails.
FailProcessing(p) ==
    /\ At(p, "embedding") /\ GoOn(p, "failing")
    /\ UNCHANGED <<rowVars, blobs, used, queue, envVars>>

\* One commit for the chunks, the counts and READY.  When the row is gone the
\* UPDATE raises and the except block takes over.
SaveChunks(p) ==
    LET d == proc[p].doc IN
    /\ At(p, "embedding")
    /\ IF status[d] = "none"
         THEN GoOn(p, "failing") /\ UNCHANGED rowVars
         ELSE /\ Stop(p)
              /\ chunks' = [chunks EXCEPT ![d] = @ + ChunksOf[d]]
              /\ chunk_count' = [chunk_count EXCEPT ![d] = ChunksOf[d]]
              /\ status' = [status EXCEPT ![d] = "ready"]
    /\ UNCHANGED <<blobs, used, queue, envVars>>

\* Mistake: the failure is swallowed and the status stays "processing".
SwallowFailure(p) ==
    /\ At(p, "failing") /\ Stop(p)
    /\ UNCHANGED <<rowVars, blobs, used, queue, envVars>>

\* The except block; its own UPDATE raises, uncaught, when the row is gone.
MarkFailed(p) ==
    LET d == proc[p].doc IN
    /\ At(p, "failing") /\ Stop(p)
    /\ status' = IF status[d] = "none" THEN status
                                       ELSE [status EXCEPT ![d] = "failed"]
    /\ UNCHANGED <<chunk_count, chunks, blobs, used, queue, envVars>>

------------------------------------------------------------------------------
(***************************************************************************)
(* The environment                                                         *)
(***************************************************************************)

\* The process is killed, or the blob store, database or broker call it makes
\* next raises: nothing it has committed is undone, and nothing retries it.
Abort(p) ==
    /\ aborts < MaxAborts /\ aborts' = aborts + 1
    /\ ~At(p, "idle") /\ Stop(p)
    /\ UNCHANGED <<rowVars, blobs, used, queue, eager, redeliveries>>

\* A message that a worker has prefetched and not acknowledged is delivered
\* again once the visibility timeout of the Redis transport has passed.
Redeliver(d) ==
    /\ redeliveries < MaxRedeliveries /\ redeliveries' = redeliveries + 1
    /\ queue[d] > 0
    /\ queue' = [queue EXCEPT ![d] = @ + 1]
    /\ UNCHANGED <<rowVars, blobs, used, proc, eager, aborts>>

ProcessStep(p) ==
    MarkProcessing(p) \/ ReadBlob(p) \/ SaveChunks(p) \/ FailProcessing(p)
      \/ MarkFailed(p)
UploadStep(c) == CheckBytes(c) \/ PutBlob(c) \/ InsertRow(c) \/ HandOver(c)
DeleteStep(c) == DeleteBlob(c) \/ DeleteRow(c)

Next ==
    \/ \E c \in Clients, d \in Docs : CheckCount(c, d) \/ StartDelete(c, d)
    \/ \E c \in Clients : UploadStep(c) \/ DeleteStep(c)
    \/ \E w \in Workers, d \in Docs : TakeTask(w, d)
    \/ \E p \in Procs : ProcessStep(p) \/ Abort(p)
    \/ \E d \in Docs : Redeliver(d)

Spec == Init /\ [][Next]_vars

\* A process that is running goes on, and an idle worker takes some message.
Fairness ==
    /\ \A c \in Clients : WF_vars(UploadStep(c)) /\ WF_vars(DeleteStep(c))
    /\ \A p \in Procs : WF_vars(ProcessStep(p))
    /\ WF_vars(\E w \in Workers, d \in Docs : TakeTask(w, d))

FairSpec == Spec /\ Fairness
------------------------------------------------------------------------------
(***************************************************************************)
(* Properties                                                              *)
(***************************************************************************)

\* The quota is checked some transactions before the row is inserted, so it can
\* be overshot, but by no more than the uploads that were in flight together:
\* ensure_document_quota lets nobody in once the limit is reached.
CountOvershootBounded == Cardinality(Rows) < DocLimit + Cardinality(Clients)

\* Uploads that have taken an id and not committed its row yet.
NotInserted == UploadPc \ {"inserted"}
Uploading(d) == \E p \in Procs : proc[p].pc \in NotInserted /\ proc[p].doc = d

\* Storage and database are written one after the other: a file with no row
\* belongs to an upload that is about to insert it, a row with no file to a
\* deletion that is about to remove it ...
StrayBlob(d) == d \in blobs \ Rows /\ ~\E p \in Procs : At(p, "stored") /\ proc[p].doc = d
LostBlob(d) == d \in Rows \ blobs /\ ~\E p \in Procs : At(p, "unlinked") /\ proc[p].doc = d
Damaged == {d \in Docs : StrayBlob(d) \/ LostBlob(d)}

\* ... except for the documents of processes that died in between, one for each:
\* no interleaving of upload_document, delete_document and process_document
\* alone loses or leaks a file.
DamageBounded == Cardinality(Damaged) <= aborts

\* The life of each document as its owner sees it.
lifeOf == [d \in Docs |->
    CASE status[d] \in {"uploaded", "processing"} -> "pending"
      [] status[d] \in {"ready", "failed"} -> status[d]
      [] status[d] = "none" ->
           IF d \in used /\ ~Uploading(d) THEN "gone" ELSE "absent"]

Life == INSTANCE DocumentLife WITH life <- lifeOf, searchable <- chunks

\* process_document keeps the promise of DocumentLife, whatever is deleted or
\* dies while it runs, as long as the broker delivers each message once.
KeepsLife == Life!Spec

\* An id belongs to one upload: until its row is committed nothing else in the
\* system knows the id, so no deletion or task can meet a half-made document.
UploadInv ==
    /\ \A d \in Docs : (d \in Rows \cup blobs \/ queue[d] > 0) => d \in used
    /\ \A p \in Procs : ~At(p, "idle") => proc[p].doc \in used
    /\ \A p \in Procs : At(p, "unlinked") => proc[p].doc \notin blobs
    /\ \A p \in Procs : proc[p].pc \in NotInserted =>
         LET d == proc[p].doc IN
         /\ status[d] = "none" /\ queue[d] = 0
         /\ At(p, "stored") => d \in blobs
         /\ \A q \in Procs \ {p} : proc[q].doc # d

Carries(p) == proc[p].pc \in UploadPc \cup ProcessPc

\* When no message is delivered twice, a document is with one upload, one
\* message or one process_document at a time, its status is the one that holder
\* left, and chunks exist only for READY documents, all of them.
OneHolder ==
    /\ \A p \in Procs : Carries(p) =>
         LET d == proc[p].doc IN
         /\ queue[d] = 0
         /\ \A q \in Procs \ {p} : Carries(q) => proc[q].doc # d
         /\ proc[p].pc \in {"inserted", "loaded"} => status[d] \in {"none", "uploaded"}
         /\ At(p, "loaded") => proc[p].seen = "uploaded"
         /\ proc[p].pc \in ProcessPc \ {"loaded"} => status[d] \in {"none", "processing"}
    /\ \A d \in Docs :
         /\ queue[d] > 0 => queue[d] = 1 /\ status[d] \in {"none", "uploaded"}
         /\ chunks[d] = IF status[d] = "ready" THEN ChunksOf[d] ELSE 0

\* A document whose handlers and workers keep running does not stay "uploaded"
\* or "processing": it becomes ready, failed, or is deleted.
Settles == \A d \in Docs :
    status[d] \in {"uploaded", "processing"} ~> status[d] \in {"none", "ready", "failed"}
==============================================================================
