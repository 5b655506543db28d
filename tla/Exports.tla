------------------------------- MODULE Exports -------------------------------
(***************************************************************************)
(* The life of an export (services/exports.py, workers/export_tasks.py):   *)
(* a row is written, a worker renders the result of an AI job, stores the  *)
(* file and names it in the row.  The request and the worker are one       *)
(* activity per export, which may stop at any point.  What the file shows  *)
(* is the matter of AiContent.                                             *)
(***************************************************************************)
EXTENDS Integers, FiniteSets

CONSTANTS
    Results,    \* AI jobs that are DONE
    ExportIds,  \* ids of ExportJob rows
    MaxMishaps   \* bound: requests and workers that stop half-way, files that cannot be deleted

ASSUME ExportsAssumption == MaxMishaps \in Nat

VARIABLES
    result,     \* [Results -> {"there", "gone"}]
    export,     \* ExportJob: [of, status], "none" and "gone" without a row
    made,       \* the exports whose file is in the storage
    work,       \* where the request or the worker of each export is
    mishaps      \* history: how often one of them stopped half-way

exportVars == <<result, export, made, work, mishaps>>

NoResult == "none"
Working == {"inserted", "queued", "started", "rendered", "stored", "failing"}
HasRow(e) == export[e].status \notin {"none", "gone"}

ExportsInit ==
    /\ result = [r \in Results |-> "there"]
    /\ export = [e \in ExportIds |-> [of |-> NoResult, status |-> "none"]]
    /\ made = {}
    /\ work = [e \in ExportIds |-> "none"]
    /\ mishaps = 0

GoOn(e, pc) == work' = [work EXCEPT ![e] = pc]

(* create_export: the row, then the activity log ... *)
CreateExport(e, r) ==
    /\ work[e] = "none" /\ result[r] = "there"
    /\ export' = [export EXCEPT ![e] = [of |-> r, status |-> "pending"]]
    /\ GoOn(e, "inserted")
    /\ UNCHANGED <<result, made, mishaps>>

(* ... then the message; with EXPORTS_EAGER the request itself goes on. *)
SendMessage(e) ==
    /\ work[e] = "inserted" /\ GoOn(e, "queued")
    /\ UNCHANGED <<result, export, made, mishaps>>

(* run_export_task and run_export: a message without a row is dropped. *)
StartExport(e) ==
    /\ work[e] = "queued"
    /\ IF HasRow(e)
       THEN export' = [export EXCEPT ![e].status = "running"] /\ GoOn(e, "started")
       ELSE GoOn(e, "over") /\ UNCHANGED export
    /\ UNCHANGED <<result, made, mishaps>>

(* _load_job finds the result, and it can be rendered. *)
RenderResult(e) ==
    /\ work[e] = "started" /\ result[export[e].of] = "there"
    /\ GoOn(e, "rendered")
    /\ UNCHANGED <<result, export, made, mishaps>>

StoreFile(e) ==
    /\ work[e] = "rendered" /\ GoOn(e, "stored")
    /\ made' = made \cup {e}
    /\ UNCHANGED <<result, export, mishaps>>

(* Mistake: the row says DONE before the file is stored. *)
CommitDoneFirst(e) ==
    /\ work[e] = "rendered" /\ HasRow(e) /\ GoOn(e, "over")
    /\ export' = [export EXCEPT ![e].status = "done"]
    /\ UNCHANGED <<result, made, mishaps>>

CommitDone(e) ==
    /\ work[e] = "stored" /\ HasRow(e) /\ GoOn(e, "over")
    /\ export' = [export EXCEPT ![e].status = "done"]
    /\ UNCHANGED <<result, made, mishaps>>

(* The result is gone or cannot be rendered, the storage fails, or the commit of DONE does,
   as it must when the row is gone: then the file stays, and no row names it. *)
RunFails(e) ==
    /\ work[e] \in {"started", "rendered", "stored"}
    /\ GoOn(e, "failing")
    /\ UNCHANGED <<result, export, made, mishaps>>

(* Mistake: the failure is not written down. *)
FailQuietly(e) ==
    /\ work[e] = "failing" /\ GoOn(e, "over")
    /\ UNCHANGED <<result, export, made, mishaps>>

(* The failure is written into the row, if it is still there. *)
CommitFailed(e) ==
    /\ work[e] = "failing" /\ GoOn(e, "over")
    /\ export' = IF HasRow(e) THEN [export EXCEPT ![e].status = "failed"] ELSE export
    /\ UNCHANGED <<result, made, mishaps>>

Stop(e) ==
    /\ work[e] \in Working /\ GoOn(e, "over")
    /\ mishaps < MaxMishaps /\ mishaps' = mishaps + 1
    /\ UNCHANGED <<result, export, made>>

(* delete_job of ai_features.py: the rows of its exports go with it, their files stay. *)
DeleteResult(r) ==
    /\ result[r] = "there"
    /\ result' = [result EXCEPT ![r] = "gone"]
    /\ export' = [e \in ExportIds |-> IF export[e].of = r /\ HasRow(e)
                                      THEN [export[e] EXCEPT !.status = "gone"] ELSE export[e]]
    /\ UNCHANGED <<made, work, mishaps>>

(* What a worker does when it is not stopped. *)
Run(e) ==
    \/ StartExport(e)
    \/ RenderResult(e)
    \/ StoreFile(e)
    \/ CommitDone(e)
    \/ RunFails(e)
    \/ CommitFailed(e)

(* read_export gives the file of an export that is DONE. *)
Readable(e) == export[e].status = "done"

(* An export that was ordered is made or fails, or is deleted, unless its request or its
   worker stopped half-way: it does not stay PENDING or RUNNING for ever. *)
ExportSettles == \A e \in ExportIds :
    export[e].status \in {"pending", "running"}
        ~> mishaps > 0 \/ export[e].status \in {"done", "failed", "gone"}
=============================================================================
