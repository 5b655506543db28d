------------------------------- MODULE Sharing -------------------------------
(***************************************************************************)
(* Who gets at a document of an organization from outside: share links     *)
(* (services/sharing.py, api/v1/shares.py) and signed download URLs        *)
(* (api/v1/documents.py), while documents are uploaded and deleted and     *)
(* links are revoked and expire.  A visitor is one request to a public     *)
(* endpoint; it checks the link first, then counts the access, then reads  *)
(* the file.                                                               *)
(***************************************************************************)
EXTENDS Integers, FiniteSets

CONSTANTS
    Docs,       \* ids of documents
    Links,      \* share links, known by their raw tokens
    Visitors,   \* public requests that can be served at a time
    MaxViews    \* bound: accesses that are told apart

ASSUME SharingAssumption ==
    /\ MaxViews \in Nat \ {0} /\ IsFiniteSet(Visitors)
    /\ "none" \notin Docs \cup Links

VARIABLES
    paper,      \* the row of each document: "none", "there" or "gone"
    bytes,      \* the documents whose file is in the storage
    handling,   \* what each document is in: "none", "uploading" or "deleting";
                \* "halted": a deletion has stopped between the file and the row
    link,       \* ShareLink: [of, state, download, personal, expired, views]
    urls,       \* the documents with a signed URL that has not expired
    visit,      \* each visitor: [pc, link, doc, views, file]
    opened,     \* history: accesses by each link
    late,       \* history: of these, the ones when it no longer was valid
    crowded     \* history: two visitors had resolved the same link at a time

sharingVars == <<paper, bytes, handling, link, urls, visit, opened, late, crowded>>
documentVars == <<paper, bytes, handling>>
linkHistory == <<opened, late>>

NoDoc == "none"
NoLink == [of |-> NoDoc, state |-> "none", download |-> FALSE, personal |-> FALSE,
           expired |-> FALSE, views |-> 0]
NoVisit == [pc |-> "idle", link |-> "none", doc |-> NoDoc, views |-> 0, file |-> FALSE]

SharingInit ==
    /\ paper = [d \in Docs |-> "none"] /\ bytes = {}
    /\ handling = [d \in Docs |-> "none"]
    /\ link = [l \in Links |-> NoLink] /\ urls = {}
    /\ visit = [v \in Visitors |-> NoVisit]
    /\ opened = [l \in Links |-> 0] /\ late = [l \in Links |-> 0] /\ crowded = FALSE

-----------------------------------------------------------------------------
(* Documents: the file is stored before the row is written, and deleted before it.  In
   between the request can die, or its commit fail. *)

InHand(d) == handling[d] \in {"uploading", "deleting"}

PutDocument(d) ==
    /\ paper[d] = "none" /\ handling[d] = "none"
    /\ handling' = [handling EXCEPT ![d] = "uploading"]
    /\ bytes' = bytes \cup {d}
    /\ UNCHANGED <<paper, link, urls, visit, linkHistory>>

InsertDocument(d) ==
    /\ handling[d] = "uploading"
    /\ handling' = [handling EXCEPT ![d] = "none"]
    /\ paper' = [paper EXCEPT ![d] = "there"]
    /\ UNCHANGED <<bytes, link, urls, visit, linkHistory>>

DeleteFile(d) ==
    /\ paper[d] = "there" /\ ~InHand(d)
    /\ handling' = [handling EXCEPT ![d] = "deleting"]
    /\ bytes' = bytes \ {d}
    /\ UNCHANGED <<paper, link, urls, visit, linkHistory>>

(* The links of these documents, or all, go with them. *)
CloseLinks(ds) ==
    [l \in Links |-> IF link[l].of \in ds THEN [link[l] EXCEPT !.state = "gone"] ELSE link[l]]

DeleteRow(d) ==
    /\ handling[d] = "deleting"
    /\ handling' = [handling EXCEPT ![d] = "none"]
    /\ paper' = [paper EXCEPT ![d] = "gone"]
    /\ link' = CloseLinks({d})
    /\ UNCHANGED <<bytes, urls, visit, linkHistory>>

(* An upload leaves its file without a row, never to be used ("gone"); a deletion its row
   without the file, which can be deleted again. *)
Abandon(d) ==
    /\ \/ /\ handling[d] = "uploading"
          /\ handling' = [handling EXCEPT ![d] = "none"]
          /\ paper' = [paper EXCEPT ![d] = "gone"]
       \/ /\ handling[d] = "deleting"
          /\ handling' = [handling EXCEPT ![d] = "halted"]
          /\ UNCHANGED paper
    /\ UNCHANGED <<bytes, link, urls, visit, linkHistory>>

-----------------------------------------------------------------------------
(* Links and signed URLs. *)

(* create_share_link *)
CreateShare(l, d, download, personal) ==
    /\ link[l] = NoLink /\ paper[d] = "there"
    /\ link' = [link EXCEPT ![l] = [of |-> d, state |-> "open", download |-> download,
                                    personal |-> personal, expired |-> FALSE, views |-> 0]]
    /\ UNCHANGED <<documentVars, urls, visit, linkHistory>>

RevokeShare(l) ==
    /\ link[l].state = "open"
    /\ link' = [link EXCEPT ![l].state = "revoked"]
    /\ UNCHANGED <<documentVars, urls, visit, linkHistory>>

ShareExpires(l) ==
    /\ link[l].state = "open" /\ ~link[l].expired
    /\ link' = [link EXCEPT ![l].expired = TRUE]
    /\ UNCHANGED <<documentVars, urls, visit, linkHistory>>

(* get_download_url *)
CreateUrl(d) ==
    /\ paper[d] = "there" /\ urls' = urls \cup {d}
    /\ UNCHANGED <<documentVars, link, visit, linkHistory>>

UrlExpires(d) ==
    /\ d \in urls /\ urls' = urls \ {d}
    /\ UNCHANGED <<documentVars, link, visit, linkHistory>>

-----------------------------------------------------------------------------
(* The public endpoints. *)

Enter(v, pc, l, d, file) ==
    visit' = [visit EXCEPT ![v] = [pc |-> pc, link |-> l, doc |-> d, file |-> file,
                                   views |-> IF l \in Links THEN link[l].views ELSE 0]]

Valid(l) == link[l].state = "open" /\ ~link[l].expired

(* Mistake: revocation is not looked at. *)
ResolveRevoked(v, l, file, proof) ==
    /\ visit[v].pc = "idle"
    /\ link[l].state \in {"open", "revoked"} /\ ~link[l].expired
    /\ link[l].personal => proof
    /\ file => link[l].download
    /\ Enter(v, "resolved", l, link[l].of, file)
    /\ UNCHANGED <<documentVars, link, urls, linkHistory>>

(* resolve_share, and can_download for the file: whoever fails a check leaves no trace. *)
Resolve(v, l, file, proof) ==
    /\ visit[v].pc = "idle"
    /\ Valid(l)
    /\ link[l].personal => proof
    /\ file => link[l].download
    /\ Enter(v, "resolved", l, link[l].of, file)
    /\ UNCHANGED <<documentVars, link, urls, linkHistory>>

(* register_access: view_count += 1 on the row as resolve_share has read it; the link may be
   gone by now. *)
RegisterAccess(v) ==
    LET l == visit[v].link IN
    /\ visit[v].pc = "resolved" /\ opened[l] < MaxViews
    /\ IF link[l].state = "gone"
       THEN visit' = [visit EXCEPT ![v] = NoVisit] /\ UNCHANGED <<link, linkHistory>>
       ELSE /\ visit' = [visit EXCEPT ![v].pc = "admitted"]
            /\ link' = [link EXCEPT ![l].views = visit[v].views + 1]
            /\ opened' = [opened EXCEPT ![l] = @ + 1]
            /\ late' = [late EXCEPT ![l] = @ + IF Valid(l) THEN 0 ELSE 1]
    /\ UNCHANGED <<documentVars, urls>>

(* download_file, with a token of a signed URL *)
RedeemUrl(v, d) ==
    /\ visit[v].pc = "idle" /\ d \in urls /\ paper[d] = "there"
    /\ Enter(v, "admitted", "none", d, TRUE)
    /\ UNCHANGED <<documentVars, link, urls, linkHistory>>

(* The answer: the summary, or the file, if it is still there. *)
Serve(v) ==
    /\ visit[v].pc = "admitted" /\ visit' = [visit EXCEPT ![v] = NoVisit]
    /\ UNCHANGED <<documentVars, link, urls, linkHistory>>

Crowd(l) == {v \in Visitors : visit[v].link = l /\ visit[v].pc = "resolved"}

NoteCrowd == crowded' = (crowded \/ \E l \in Links : Cardinality(Crowd(l)') > 1)

-----------------------------------------------------------------------------
(* A link opens its own document, and the file only where the link allows it; once it is
   revoked or expired there is at most one more access for each visitor, by the requests that
   had checked it before; and where no two visitors met at a link, every access was counted. *)
SharesHold ==
    /\ \A v \in Visitors : LET l == visit[v].link IN
         visit[v].pc = "admitted" /\ l \in Links =>
            visit[v].doc = link[l].of /\ (visit[v].file => link[l].download)
    /\ \A l \in Links :
         /\ late[l] <= Cardinality(Visitors)
         /\ link[l].views <= opened[l]
         /\ ~crowded => link[l].views = opened[l]
=============================================================================
