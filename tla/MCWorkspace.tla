---------------------------- MODULE MCWorkspace ----------------------------
(***************************************************************************)
(* Two scenes of the workspace: the erasure, with one visit to a link, and *)
(* a crowd at the links of an organization that stays.                     *)
(***************************************************************************)
EXTENDS Workspace

CONSTANT First  \* the visitor of the first scene

VARIABLE scene

MCInit ==
    /\ WorkspaceInit /\ scene \in {"erasure", "crowd"}
    /\ scene = "crowd" => ~appendOnly

MCNext ==
    /\ WorkspaceNext /\ UNCHANGED scene
    /\ scene = "erasure" => /\ \A v \in Visitors \ {First} : visit'[v] = NoVisit
                           /\ \A l \in Links : opened'[l] <= 1
    /\ ~appendOnly \/ logged \/ ~Erasing => UNCHANGED elsewhere
       \* only the commit of an erasure reads it, so that it need not come earlier
    /\ scene = "crowd" => UNCHANGED <<exportVars, erase, appendOnly>>

MCSpec == MCInit /\ [][MCNext]_<<workspaceVars, scene>> /\ Fairness
=============================================================================
