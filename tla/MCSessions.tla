----------------------------- MODULE MCSessions -----------------------------
(***************************************************************************)
(* Two scenes: requests of the user from anywhere, or from the tabs of one *)
(* browser.                                                                *)
(***************************************************************************)
EXTENDS ApiClient, TLC

VARIABLE scene

MCInit == ClientInit /\ scene \in {"server", "client"}

ServerScene == scene = "server" /\ Next /\ UNCHANGED <<clientVars, scene>>
ClientScene == scene = "client" /\ ClientNext /\ UNCHANGED scene

MCNext == ServerScene \/ ClientScene

MCSpec == MCInit /\ [][MCNext]_<<vars, clientVars, scene>>

\* Once tokens have met in the browser only the server promises something, and what it
\* promises is the matter of the other scene.
Unmixed == ~mixed

Symmetry == Permutations(Handlers) \cup Permutations(Tokens) \cup Permutations(ResetTokens)
            \cup Permutations(Tabs) \cup Permutations(Calls)
=============================================================================
