------------------------------ MODULE Workspace ------------------------------
(***************************************************************************)
(* What an organization has in the storage, and the erasure of the account *)
(* of its only owner (delete_account of services/gdpr.py): the files are   *)
(* deleted one by one, then all rows in one commit.  Documents are         *)
(* uploaded, shared and deleted, and results exported, meanwhile (Sharing, *)
(* Exports).                                                               *)
(***************************************************************************)
EXTENDS Exports, Sharing

VARIABLES
    org,        \* "there" or "gone"
    logged,     \* whether it has rows in activity_logs
    elsewhere,  \* whether the user has rows there in other organizations, which stay
    appendOnly, \* whether the trigger of migration 0007 is there: on PostgreSQL
    erase,      \* delete_account: [pc, docs, exports], the rows whose files it has yet to delete
    troubled    \* history: a file was left behind, or an erasure met other work

(* The state without the history. *)
liveVars == <<result, export, made, work, documentVars, link, urls, visit,
              org, logged, elsewhere, appendOnly, erase>>
workspaceVars == <<liveVars, mishaps, linkHistory, crowded, troubled>>

NotErasing == [pc |-> "idle", docs |-> {}, exports |-> {}]
Erasing == erase.pc \in {"documents", "exports"}

WorkspaceInit ==
    /\ ExportsInit /\ SharingInit
    /\ org = "there" /\ logged = FALSE /\ elsewhere = FALSE /\ appendOnly \in BOOLEAN
    /\ erase = NotErasing /\ troubled = FALSE

-----------------------------------------------------------------------------
(* The history. *)

(* Files that no row names: it is gone, was never written, or says FAILED. *)
Strays == {e \in made : export[e].status \in {"gone", "failed"}} \cup {d \in bytes : paper[d] = "gone"}

Busy == \/ \E e \in ExportIds : work[e] \in Working
        \/ \E d \in Docs : InHand(d)

NoteTrouble ==
    /\ NoteCrowd
    /\ troubled' = \/ troubled
                   \/ mishaps' > 0
                   \/ Erasing' /\ Busy'
                   \/ org' = "there" /\ Strays' # {}

-----------------------------------------------------------------------------
(* The organization at work.  Uploading one document, deleting one, making, revoking and
   opening a link and ordering an export are written to the activity log; uploading a batch
   is not. *)

InExports(logs) ==
    /\ logged' = (logged \/ logs)
    /\ UNCHANGED <<documentVars, link, urls, visit, linkHistory, org, elsewhere, appendOnly, erase>>
    /\ NoteTrouble
InSharing(logs) ==
    /\ logged' = (logged \/ logs)
    /\ UNCHANGED <<exportVars, org, elsewhere, appendOnly, erase>>
    /\ NoteTrouble

OrderExport(e) == \E r \in Results : CreateExport(e, r) /\ InExports(FALSE)

(* Where the organization is gone nothing can be logged, and the request fails. *)
PassOn(e) ==
    \/ org = "there" /\ SendMessage(e) /\ InExports(TRUE)
    \/ org = "gone" /\ work[e] = "inserted" /\ GoOn(e, "over")
       /\ UNCHANGED <<result, export, made, mishaps>> /\ InExports(FALSE)

RunExport(e) == Run(e) /\ InExports(FALSE)
StopExport(e) == Stop(e) /\ InExports(FALSE)
RemoveResult(r) == DeleteResult(r) /\ InExports(FALSE)

Upload(d) ==
    \/ org = "there" /\ PutDocument(d) /\ InSharing(FALSE)
    \/ org = "there" /\ InsertDocument(d) /\ \E single \in BOOLEAN : InSharing(single)

(* At any time, and where the organization that the row of an upload needs is gone. *)
GiveUp(d) == Abandon(d) /\ InSharing(FALSE)

RemoveDocument(d) ==
    \/ DeleteFile(d) /\ InSharing(FALSE)
    \/ DeleteRow(d) /\ InSharing(org = "there")

Offer(l) ==
    \/ \E d \in Docs, download, personal \in BOOLEAN :
         CreateShare(l, d, download, personal) /\ InSharing(TRUE)
    \/ RevokeShare(l) /\ InSharing(TRUE)
    \/ ShareExpires(l) /\ InSharing(FALSE)

Sign(d) == (CreateUrl(d) \/ UrlExpires(d)) /\ InSharing(FALSE)

Visit(v) ==
    \/ \E l \in Links, file, proof \in BOOLEAN : Resolve(v, l, file, proof) /\ InSharing(FALSE)
    \/ RegisterAccess(v) /\ InSharing(org = "there")
    \/ \E d \in Docs : RedeemUrl(v, d) /\ InSharing(FALSE)
    \/ Serve(v) /\ InSharing(FALSE)

(* The user does something in an organization with other owners. *)
WorkElsewhere ==
    /\ ~elsewhere /\ erase.pc # "over" /\ elsewhere' = TRUE
    /\ UNCHANGED <<exportVars, documentVars, link, urls, visit, linkHistory, org, logged,
                   appendOnly, erase>>
    /\ NoteTrouble

-----------------------------------------------------------------------------
(* delete_account: the rows are read and the files deleted, documents first ... *)

BeginErase ==
    /\ erase.pc = "idle"
    /\ erase' = [pc |-> "documents", docs |-> {d \in Docs : paper[d] = "there"}, exports |-> {}]
    /\ UNCHANGED <<exportVars, documentVars, link, urls, visit, linkHistory, org, logged,
                   elsewhere, appendOnly>>
    /\ NoteTrouble

EraseDocument(d) ==
    /\ erase.pc = "documents" /\ d \in erase.docs
    /\ erase' = [erase EXCEPT !.docs = @ \ {d}]
    /\ bytes' = bytes \ {d}
    /\ UNCHANGED <<exportVars, paper, handling, link, urls, visit, linkHistory, org, logged,
                   elsewhere, appendOnly>>
    /\ NoteTrouble

(* Mistake: the exports are forgotten. *)
ListNoExports ==
    /\ erase.pc = "documents" /\ erase.docs = {}
    /\ erase' = [erase EXCEPT !.pc = "exports"]
    /\ UNCHANGED <<exportVars, documentVars, link, urls, visit, linkHistory, org, logged,
                   elsewhere, appendOnly>>
    /\ NoteTrouble

ListExports ==
    /\ erase.pc = "documents" /\ erase.docs = {}
    /\ erase' = [pc |-> "exports", docs |-> {}, exports |-> {e \in ExportIds : Readable(e)}]
    /\ UNCHANGED <<exportVars, documentVars, link, urls, visit, linkHistory, org, logged,
                   elsewhere, appendOnly>>
    /\ NoteTrouble

EraseExport(e) ==
    /\ erase.pc = "exports" /\ e \in erase.exports
    /\ erase' = [erase EXCEPT !.exports = @ \ {e}]
    /\ made' = made \ {e}
    /\ UNCHANGED <<result, export, work, mishaps, documentVars, link, urls, visit, linkHistory,
                   org, logged, elsewhere, appendOnly>>
    /\ NoteTrouble

(* A file that cannot be deleted is passed over. *)
PassOver ==
    /\ mishaps < MaxMishaps /\ mishaps' = mishaps + 1
    /\ \/ \E d \in erase.docs : erase' = [erase EXCEPT !.docs = @ \ {d}]
       \/ \E e \in erase.exports : erase' = [erase EXCEPT !.exports = @ \ {e}]
    /\ UNCHANGED <<result, export, made, work, documentVars, link, urls, visit, linkHistory,
                   org, logged, elsewhere, appendOnly>>
    /\ NoteTrouble

(* Rows of activity_logs would be deleted with the organization, or updated with the user. *)
Forbidden == appendOnly /\ (logged \/ elsewhere)

(* ... then one commit deletes the organization, and with it all that is the organization's,
   by cascades, and the user; the user's activity elsewhere loses his name ... *)
CommitErase ==
    /\ erase.pc = "exports" /\ erase.exports = {}
    /\ ~Forbidden
    /\ erase' = [erase EXCEPT !.pc = "over"]
    /\ org' = "gone" /\ logged' = FALSE
    /\ result' = [r \in Results |-> "gone"]
    /\ export' = [e \in ExportIds |-> IF HasRow(e) THEN [export[e] EXCEPT !.status = "gone"]
                                       ELSE export[e]]
    /\ paper' = [d \in Docs |-> IF paper[d] = "there" THEN "gone" ELSE paper[d]]
    /\ link' = CloseLinks(Docs)
    /\ UNCHANGED <<made, work, mishaps, bytes, handling, urls, visit, linkHistory, elsewhere,
                   appendOnly>>
    /\ NoteTrouble

(* ... unless the trigger of activity_logs forbids it: nothing but the files is gone. *)
CommitRefused ==
    /\ erase.pc = "exports" /\ erase.exports = {}
    /\ Forbidden
    /\ erase' = [erase EXCEPT !.pc = "refused"]
    /\ UNCHANGED <<exportVars, documentVars, link, urls, visit, linkHistory, org, logged,
                   elsewhere, appendOnly>>
    /\ NoteTrouble

StopErase ==
    /\ Erasing
    /\ mishaps < MaxMishaps /\ mishaps' = mishaps + 1
    /\ erase' = [NotErasing EXCEPT !.pc = "refused"]
    /\ UNCHANGED <<result, export, made, work, documentVars, link, urls, visit, linkHistory,
                   org, logged, elsewhere, appendOnly>>
    /\ NoteTrouble

-----------------------------------------------------------------------------
WorkspaceNext ==
    \/ \E e \in ExportIds : OrderExport(e)
    \/ \E e \in ExportIds : PassOn(e)
    \/ \E e \in ExportIds : RunExport(e)
    \/ \E e \in ExportIds : StopExport(e)
    \/ \E r \in Results : RemoveResult(r)
    \/ \E d \in Docs : Upload(d)
    \/ \E d \in Docs : GiveUp(d)
    \/ \E d \in Docs : RemoveDocument(d)
    \/ \E l \in Links : Offer(l)
    \/ \E d \in Docs : Sign(d)
    \/ \E v \in Visitors : Visit(v)
    \/ WorkElsewhere
    \/ BeginErase
    \/ \E d \in Docs : EraseDocument(d)
    \/ ListExports
    \/ \E e \in ExportIds : EraseExport(e)
    \/ PassOver
    \/ CommitErase
    \/ CommitRefused
    \/ StopErase

WorkspaceSpec == WorkspaceInit /\ [][WorkspaceNext]_workspaceVars

(* Requests and workers go on. *)
Fairness ==
    \A e \in ExportIds : WF_liveVars(PassOn(e)) /\ WF_liveVars(RunExport(e))

FairSpec == WorkspaceSpec /\ Fairness

-----------------------------------------------------------------------------
(* What a row promises is in the storage: the file of every export that is DONE, and of every
   document that is not just being deleted and whose deletion has not stopped half-way; only
   an erasure under way, or one that did not come to its end, may have taken it away. *)
RowsHaveFiles ==
    erase.pc \in {"idle", "over"} =>
        /\ \A e \in ExportIds : Readable(e) => e \in made
        /\ \A d \in Docs : paper[d] = "there" /\ handling[d] = "none" => d \in bytes

(* "Hesabi ve tek sahibi olunan organizasyonlari kalici olarak siler": once the organization
   is gone, so are all its files, unless one was left behind before (by a deleted AI job, an
   upload or a worker that stopped, an export whose last commit failed), could not be deleted,
   or belongs to an upload or an export that was under way meanwhile; and only a failure or
   the append-only log, of this organization or of another, keeps it from going. *)
ErasureIsWhole ==
    /\ org = "gone" /\ ~troubled => made = {} /\ bytes = {}
    /\ erase.pc = "refused" => mishaps > 0 \/ Forbidden
=============================================================================
