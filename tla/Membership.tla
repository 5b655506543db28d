----------------------------- MODULE Membership -----------------------------
(***************************************************************************)
(* Who belongs to one organization, and as what: invitations, role         *)
(* changes, removals, and accounts that are deleted with their             *)
(* memberships.                                                            *)
(*                                                                         *)
(* A request asks the database several times (who is asking, who is meant, *)
(* which owners there are) before it writes and commits; whatever other    *)
(* requests commit in between, it goes on with what it has read.           *)
(***************************************************************************)
EXTENDS Naturals, FiniteSets

CONSTANTS
    Users,      \* accounts
    Founder,    \* who created the organization
    Invites,    \* bound: the invitations that can be sent
    Handlers,   \* API requests that can be open at a time
    Offered,    \* bound: the roles that requests ask for
    Nobody      \* no user, no invitation

Roles == {"owner", "admin", "member", "viewer"}
\* Roles of ADMIN level and above.
Managers == {"owner", "admin"}

ASSUME MembershipAssumption ==
    /\ Founder \in Users /\ Nobody \notin Users \cup Invites /\ Offered \subseteq Roles

VARIABLES
    exists,     \* the Organization row has not been deleted
    role,       \* Membership rows: the role of each user, "none" without a row
    deleted,    \* accounts that are gone
    invite,     \* Invitation rows: for whom and as what
    accepted,   \* Invitation.accepted
    expired,    \* those whose expires_at has passed
    admitted,   \* history: the memberships that each invitation has made
    req,        \* the open requests
    overlapped  \* history: two requests have been open at a time

inviteVars == <<invite, accepted, expired, admitted>>
memberVars == <<exists, role, deleted, inviteVars, req>>
vars == <<memberVars, overlapped>>

NoInvite == [for |-> Nobody, role |-> "none"]
Invitations == [for : Users \cup {Nobody}, role : Roles \cup {"none"}]

Labels == {"idle", "authorized", "counting", "changing", "inviting", "sending",
           "accepting", "joining", "asking", "leaving", "closing"}

\* by asks for on to become to ("none" for a removal); own and was are the roles of
\* the two as the request has read them, inv the invitation it has read.
Requests == [pc : Labels, by : Users \cup {Nobody}, on : Users \cup {Nobody},
             to : Roles \cup {"none"}, own : Roles \cup {"none"},
             was : Roles \cup {"none"}, inv : Invites \cup {Nobody}]
Idle == [pc |-> "idle", by |-> Nobody, on |-> Nobody, to |-> "none",
         own |-> "none", was |-> "none", inv |-> Nobody]

TypeOK ==
    /\ exists \in BOOLEAN /\ role \in [Users -> Roles \cup {"none"}]
    /\ deleted \in SUBSET Users
    /\ invite \in [Invites -> Invitations]
    /\ \A i \in Invites : invite[i].role # "owner"
    /\ accepted \in SUBSET Invites /\ expired \in SUBSET Invites
    /\ admitted \in [Invites -> Nat]
    /\ req \in [Handlers -> Requests] /\ overlapped \in BOOLEAN
    /\ \A u \in Users : role[u] # "none" => exists /\ u \notin deleted

\* create_organization and register make the founder its owner; the others are what
\* earlier invitations and role changes have made them.
Init ==
    /\ exists = TRUE /\ deleted = {}
    /\ role \in [Users -> Roles \cup {"none"}] /\ role[Founder] = "owner"
    /\ invite = [i \in Invites |-> NoInvite]
    /\ accepted = {} /\ expired = {} /\ admitted = [i \in Invites |-> 0]
    /\ req = [h \in Handlers |-> Idle] /\ overlapped = FALSE

At(h, label) == req[h].pc = label
Close(h) == req' = [req EXCEPT ![h] = Idle]

\* A request that has loaded the row of u can no longer change anything when the
\* row is gone: its UPDATE raises and its DELETE finds nothing.
Loaded(g, u) == req[g].on = u /\ (req[g].pc \in {"counting", "changing"} \/ req[g].by = u)
CloseAndDrop(h, u) ==
    req' = [g \in Handlers |-> IF g = h \/ Loaded(g, u) THEN Idle ELSE req[g]]

------------------------------------------------------------------------------
(***************************************************************************)
(* update_member_role, remove_member                                       *)
(***************************************************************************)

\* _require_role(ADMIN) at the beginning of every change and invitation.
Authorize(h, u, v, r, label) ==
    /\ At(h, "idle") /\ role[u] \in Managers
    /\ req' = [req EXCEPT ![h] = [Idle EXCEPT !.pc = label, !.by = u, !.on = v, !.to = r,
                                              !.own = role[u]]]
    /\ UNCHANGED <<exists, role, deleted, inviteVars>>

StartChange(h, u, v) ==
    \E r \in Offered \cup {"none"} : Authorize(h, u, v, r, "authorized")

\* Mistake: an admin may change an owner.
ReadTargetOfAnyone(h) ==
    LET q == req[h]
        was == IF q.on = q.by THEN q.own ELSE role[q.on]
    IN
    /\ At(h, "authorized") /\ role[q.on] # "none"
    /\ q.to = "owner" => q.own = "owner"
    /\ req' = [req EXCEPT
         ![h].pc = IF was = "owner" /\ q.to # "owner" THEN "counting" ELSE "changing",
         ![h].was = was]
    /\ UNCHANGED <<exists, role, deleted, inviteVars>>

\* Who is meant, and may an admin do that?  Who asks about himself gets the row
\* that the session has loaded already.
ReadTarget(h) ==
    LET q == req[h]
        was == IF q.on = q.by THEN q.own ELSE role[q.on]
    IN
    /\ At(h, "authorized") /\ role[q.on] # "none"
    /\ was = "owner" \/ q.to = "owner" => q.own = "owner"
    /\ req' = [req EXCEPT
         ![h].pc = IF was = "owner" /\ q.to # "owner" THEN "counting" ELSE "changing",
         ![h].was = was]
    /\ UNCHANGED <<exists, role, deleted, inviteVars>>

\* Mistake: the owner that is about to go is counted.
CountEveryOwner(h) ==
    /\ At(h, "counting") /\ \E v \in Users : role[v] = "owner"
    /\ req' = [req EXCEPT ![h].pc = "changing"]
    /\ UNCHANGED <<exists, role, deleted, inviteVars>>

\* _ensure_not_last_owner
CountOwners(h) ==
    /\ At(h, "counting") /\ \E v \in Users \ {req[h].on} : role[v] = "owner"
    /\ req' = [req EXCEPT ![h].pc = "changing"]
    /\ UNCHANGED <<exists, role, deleted, inviteVars>>

\* A role that equals the one that was read is not written.
CommitRole(h) ==
    LET q == req[h] IN
    /\ At(h, "changing") /\ q.to # "none"
    /\ role' = IF q.to = q.was THEN role ELSE [role EXCEPT ![q.on] = q.to]
    /\ Close(h)
    /\ UNCHANGED <<exists, deleted, inviteVars>>

CommitRemoval(h) ==
    LET q == req[h] IN
    /\ At(h, "changing") /\ q.to = "none"
    /\ role' = [role EXCEPT ![q.on] = "none"]
    /\ CloseAndDrop(h, q.on)
    /\ UNCHANGED <<exists, deleted, inviteVars>>

------------------------------------------------------------------------------
(***************************************************************************)
(* invite_member, accept_invite                                            *)
(***************************************************************************)

StartInvite(h, u, v) ==
    \E r \in Offered \ {"owner"} : Authorize(h, u, v, r, "inviting")

\* Someone who is a member is not invited.
FindNoMember(h) ==
    /\ At(h, "inviting") /\ role[req[h].on] = "none"
    /\ req' = [req EXCEPT ![h].pc = "sending"]
    /\ UNCHANGED <<exists, role, deleted, inviteVars>>

CommitInvite(h, i) ==
    /\ At(h, "sending") /\ exists /\ invite[i] = NoInvite
    /\ invite' = [invite EXCEPT ![i] = [for |-> req[h].on, role |-> req[h].to]]
    /\ Close(h)
    /\ UNCHANGED <<exists, role, deleted, accepted, expired, admitted>>

\* Mistake: an invitation can be used again.
StartAcceptAgain(h, i) ==
    /\ At(h, "idle") /\ invite[i].for \in Users \ deleted /\ i \notin expired
    /\ req' = [req EXCEPT ![h] = [Idle EXCEPT !.pc = "accepting", !.by = invite[i].for,
                                              !.inv = i]]
    /\ UNCHANGED <<exists, role, deleted, inviteVars>>

\* Only the user it was sent to can accept an invitation, once and in time.
StartAccept(h, i) ==
    /\ At(h, "idle")
    /\ invite[i].for \in Users \ deleted /\ i \notin accepted \cup expired
    /\ req' = [req EXCEPT ![h] = [Idle EXCEPT !.pc = "accepting", !.by = invite[i].for,
                                              !.inv = i]]
    /\ UNCHANGED <<exists, role, deleted, inviteVars>>

\* A member already: the invitation is spent all the same.
AcceptAsMember(h) ==
    /\ At(h, "accepting") /\ role[req[h].by] # "none"
    /\ accepted' = accepted \cup {req[h].inv}
    /\ Close(h)
    /\ UNCHANGED <<exists, role, deleted, invite, expired, admitted>>

FindNoMembership(h) ==
    /\ At(h, "accepting") /\ role[req[h].by] = "none"
    /\ req' = [req EXCEPT ![h].pc = "joining"]
    /\ UNCHANGED <<exists, role, deleted, inviteVars>>

\* The unique index and the foreign keys refuse the row when the user has become
\* a member or one of the two rows it refers to is gone.
Join(h) ==
    LET u == req[h].by
        i == req[h].inv
    IN
    /\ At(h, "joining") /\ exists /\ u \notin deleted /\ role[u] = "none"
    /\ role' = [role EXCEPT ![u] = invite[i].role]
    /\ accepted' = accepted \cup {i}
    /\ admitted' = [admitted EXCEPT ![i] = @ + 1]
    /\ Close(h)
    /\ UNCHANGED <<exists, deleted, invite, expired>>

------------------------------------------------------------------------------
(***************************************************************************)
(* delete_account                                                          *)
(***************************************************************************)

\* _sole_owner_org_ids: the organizations the user owns, and then which of them
\* have another owner.
StartDeleteAccount(h, u) ==
    /\ At(h, "idle") /\ u \notin deleted
    /\ req' = [req EXCEPT ![h] =
         [Idle EXCEPT !.pc = IF role[u] = "owner" THEN "asking" ELSE "leaving", !.by = u]]
    /\ UNCHANGED <<exists, role, deleted, inviteVars>>

FindOtherOwners(h) ==
    /\ At(h, "asking")
    /\ req' = [req EXCEPT ![h].pc =
         IF \E v \in Users \ {req[h].by} : role[v] = "owner" THEN "leaving" ELSE "closing"]
    /\ UNCHANGED <<exists, role, deleted, inviteVars>>

\* The memberships go with the account.
Leave(h) ==
    LET u == req[h].by IN
    /\ At(h, "leaving")
    /\ deleted' = deleted \cup {u} /\ role' = [role EXCEPT ![u] = "none"]
    /\ CloseAndDrop(h, u)
    /\ UNCHANGED <<exists, inviteVars>>

\* The organization goes too, with every membership and invitation.
CloseOrganization(h) ==
    /\ At(h, "closing")
    /\ deleted' = deleted \cup {req[h].by} /\ exists' = FALSE
    /\ role' = [u \in Users |-> "none"]
    /\ invite' = [i \in Invites |-> NoInvite]
    /\ req' = [g \in Handlers |-> Idle]
    /\ UNCHANGED <<accepted, expired, admitted>>

------------------------------------------------------------------------------
\* A check fails, the database refuses, or the process dies.
Refuse(h) ==
    /\ ~At(h, "idle") /\ Close(h)
    /\ UNCHANGED <<exists, role, deleted, inviteVars>>

Expire(i) ==
    /\ invite[i] # NoInvite /\ i \notin expired /\ expired' = expired \cup {i}
    /\ UNCHANGED <<exists, role, deleted, invite, accepted, admitted, req>>

\* Requests one at a time.
Serial == \A g, h \in Handlers : ~At(g, "idle") /\ ~At(h, "idle") => g = h

\* Every step takes note of whether requests overlap.
Observe == overlapped' = (overlapped \/ ~Serial')

Change(h) ==
    \/ \E u, v \in Users : StartChange(h, u, v) /\ Observe
    \/ ReadTarget(h) /\ Observe
    \/ CountOwners(h) /\ Observe
    \/ CommitRole(h) /\ Observe
    \/ CommitRemoval(h) /\ Observe
Invite(h) ==
    \/ \E u, v \in Users : StartInvite(h, u, v) /\ Observe
    \/ FindNoMember(h) /\ Observe
    \/ \E i \in Invites : CommitInvite(h, i) /\ Observe
    \/ \E i \in Invites : StartAccept(h, i) /\ Observe
    \/ AcceptAsMember(h) /\ Observe
    \/ FindNoMembership(h) /\ Observe
    \/ Join(h) /\ Observe
DeleteAccount(h) ==
    \/ \E u \in Users : StartDeleteAccount(h, u) /\ Observe
    \/ FindOtherOwners(h) /\ Observe
    \/ Leave(h) /\ Observe
    \/ CloseOrganization(h) /\ Observe

Next ==
    \/ \E h \in Handlers : Change(h) \/ Invite(h) \/ DeleteAccount(h)
    \/ \E h \in Handlers : Refuse(h) /\ Observe
    \/ \E i \in Invites : Expire(i) /\ Observe

Spec == Init /\ [][Next]_vars

------------------------------------------------------------------------------
(***************************************************************************)
(* Properties                                                              *)
(***************************************************************************)

Owners == {u \in Users : role[u] = "owner"}

\* "Organizasyonda en az bir Owner kalmali", said by _ensure_not_last_owner: an
\* organization that exists has somebody who can manage its owners.
HasOwner == exists => Owners # {}
\* Role changes, removals and account deletions that have not overlapped see to it.
SerialHasOwner == ~overlapped => HasOwner

\* An invitation admits somebody once, when requests have not overlapped, however
\* often he leaves or is removed.
SerialInviteOnce == ~overlapped => \A i \in Invites :
    admitted[i] <= 1 /\ (admitted[i] = 1 => i \in accepted)

\* "Owner rolunu yalnizca Owner degistirebilir": whoever becomes an owner or is one
\* no longer was changed by an owner or has deleted his account; no invitation and
\* no admin does it, when requests have not overlapped.
SerialOwnersChangeOwners ==
    [][~overlapped' => (Owners' # Owners =>
         \E h \in Handlers : At(h, "idle")' /\ req[h].by \in Owners)]_vars
=============================================================================
