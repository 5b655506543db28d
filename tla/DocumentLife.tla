---------------------------- MODULE DocumentLife ----------------------------
(***************************************************************************)
(* What the document pipeline promises of each document id: it is accepted *)
(* at most once, settles at most once, all its chunks become searchable in *)
(* the step that makes it ready, and nothing of it is left once removed.   *)
(***************************************************************************)
EXTENDS Naturals

CONSTANTS Docs, ChunksOf

VARIABLES
    life,         \* where each document is in its life
    searchable    \* number of its chunks that are stored

lifeVars == <<life, searchable>>

Init ==
    /\ life = [d \in Docs |-> "absent"]
    /\ searchable = [d \in Docs |-> 0]

Become(d, from, to) == life[d] \in from /\ life' = [life EXCEPT ![d] = to]

Accept(d) == Become(d, {"absent"}, "pending") /\ UNCHANGED searchable

\* Refused for its size, or the upload died before the row was committed.
Refuse(d) == Become(d, {"absent"}, "gone") /\ UNCHANGED searchable

Index(d) ==
    /\ Become(d, {"pending"}, "ready")
    /\ searchable' = [searchable EXCEPT ![d] = ChunksOf[d]]

Reject(d) == Become(d, {"pending"}, "failed") /\ UNCHANGED searchable

Remove(d) ==
    /\ Become(d, {"pending", "ready", "failed"}, "gone")
    /\ searchable' = [searchable EXCEPT ![d] = 0]

Next == \E d \in Docs :
    Accept(d) \/ Refuse(d) \/ Index(d) \/ Reject(d) \/ Remove(d)

Spec == Init /\ [][Next]_lifeVars
=============================================================================
