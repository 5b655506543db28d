-------------------------- MODULE MembershipProofs --------------------------
(***************************************************************************)
(* Theorems about what is an organization's: its members (Membership), for *)
(* any number of users, invitations and requests, and its documents,       *)
(* exports and share links and their erasure (Workspace), for any number   *)
(* of these and of visitors.                                               *)
(***************************************************************************)
EXTENDS Membership, Workspace, FiniteSetTheorems, TLAPS

USE MembershipAssumption

Asks(h) == req[h].pc \in {"authorized", "counting", "changing", "inviting", "sending"}

\* What an open request refers to exists, and the row it is about to write is there.
RequestInv == \A h \in Handlers :
    /\ Asks(h) => req[h].by \in Users /\ req[h].on \in Users
    /\ req[h].pc \in {"inviting", "sending"} => req[h].to # "owner"
    /\ req[h].pc \in {"counting", "changing"} => role[req[h].on] # "none"
    /\ req[h].pc \in {"accepting", "joining"} => req[h].by \in Users /\ req[h].inv \in Invites
    /\ req[h].pc \in {"asking", "leaving", "closing"} => req[h].by \in Users

TypeInv == TypeOK /\ RequestInv

\* Every step notes whether requests overlap.
LEMMA Observed == Next => Observe
BY DEF Next, Change, Invite, DeleteAccount

LEMMA IdleType == Idle \in Requests /\ Idle.pc = "idle"
BY DEF Idle, Requests, Labels

\* A request that ends takes those with it whose row it has removed.
LEMMA DropType ==
    ASSUME TypeInv, NEW h \in Handlers, NEW u \in Users, CloseAndDrop(h, u)
    PROVE  /\ req' \in [Handlers -> Requests]
           /\ \A g \in Handlers : req'[g] = Idle \/ (req'[g] = req[g] /\ ~Loaded(g, u))
BY IdleType DEF TypeInv, TypeOK, CloseAndDrop

LEMMA TypeStep == TypeInv /\ [Next]_vars => TypeInv'
<1> SUFFICES ASSUME TypeInv, [Next]_vars PROVE TypeInv'
  OBVIOUS
<1>o. overlapped' \in BOOLEAN
  BY Observed DEF Observe, TypeInv, TypeOK, Next, vars
<1>t. /\ exists \in BOOLEAN /\ role \in [Users -> Roles \cup {"none"}]
      /\ deleted \in SUBSET Users /\ invite \in [Invites -> Invitations]
      /\ \A i \in Invites : invite[i].role # "owner"
      /\ accepted \in SUBSET Invites /\ expired \in SUBSET Invites
      /\ admitted \in [Invites -> Nat] /\ req \in [Handlers -> Requests]
      /\ \A u \in Users : role[u] # "none" => exists /\ u \notin deleted
      /\ RequestInv
  BY DEF TypeInv, TypeOK
<1>q. \A h \in Handlers : req[h] \in Requests
  BY <1>t
<1> DEFINE Typed == /\ exists \in BOOLEAN /\ role \in [Users -> Roles \cup {"none"}]
                    /\ deleted \in SUBSET Users /\ invite \in [Invites -> Invitations]
                    /\ \A i \in Invites : invite[i].role # "owner"
                    /\ accepted \in SUBSET Invites /\ expired \in SUBSET Invites
                    /\ admitted \in [Invites -> Nat] /\ req \in [Handlers -> Requests]
                    /\ \A u \in Users : role[u] # "none" => exists /\ u \notin deleted
<1>u. ASSUME Typed', RequestInv' PROVE TypeInv'
  BY <1>u, <1>o DEF TypeInv, TypeOK
<1> USE DEF At, Close, inviteVars, RequestInv, Asks
<1>1. ASSUME NEW h \in Handlers, NEW u \in Users, NEW v \in Users,
             NEW r \in Roles \cup {"none"}, NEW label \in {"authorized", "inviting"},
             Authorize(h, u, v, r, label), label = "inviting" => r # "owner"
      PROVE  TypeInv'
  <2>1. [Idle EXCEPT !.pc = label, !.by = u, !.on = v, !.to = r, !.own = role[u]] \in Requests
    BY <1>1, <1>t DEF Authorize, Idle, Requests, Labels, Managers, Roles
  <2> QED
    BY <1>t, <1>u, <1>1, <2>1, IdleType DEF Authorize, Idle
<1>2. ASSUME NEW h \in Handlers, ReadTarget(h) PROVE TypeInv'
  <2>1. req[h].on \in Users /\ req[h].by \in Users
    BY <1>t, <1>2 DEF ReadTarget
  <2>2. PICK was \in Roles \cup {"none"}, label \in {"counting", "changing"} :
          req' = [req EXCEPT ![h] = [req[h] EXCEPT !.pc = label, !.was = was]]
    BY <1>t, <1>q, <1>2, <2>1, ZenonT(30) DEF ReadTarget, Requests
  <2>3. [req[h] EXCEPT !.pc = label, !.was = was] \in Requests
    BY <1>q, <2>2 DEF Requests, Labels
  <2>4. UNCHANGED <<exists, role, deleted, inviteVars>> /\ role[req[h].on] # "none"
    BY <1>2 DEF ReadTarget
  <2>5. Typed'
    BY <1>t, <2>2, <2>3, <2>4
  <2>6. RequestInv'
    BY <1>t, <1>q, <2>1, <2>2, <2>4 DEF Requests
  <2> QED
    BY <1>u, <2>5, <2>6
<1>3. ASSUME NEW h \in Handlers, CountOwners(h) PROVE TypeInv'
  <2>1. [req[h] EXCEPT !.pc = "changing"] \in Requests
    BY <1>q DEF Requests, Labels
  <2> QED
    BY <1>t, <1>u, <1>q, <1>3, <2>1 DEF CountOwners, Requests
<1>4. ASSUME NEW h \in Handlers, CommitRole(h) PROVE TypeInv'
  <2>1. req[h].to \in Roles /\ req[h].on \in Users /\ role[req[h].on] # "none"
    BY <1>t, <1>q, <1>4 DEF CommitRole, Requests
  <2>2. \A u \in Users : (role[u] = "none") <=> (role'[u] = "none")
    BY <1>t, <1>4, <2>1 DEF CommitRole, Roles
  <2>3. role' \in [Users -> Roles \cup {"none"}]
    BY <1>t, <1>4, <2>1 DEF CommitRole
  <2>4. req' \in [Handlers -> Requests] /\ \A g \in Handlers : req'[g] = Idle \/ req'[g] = req[g]
    BY <1>t, <1>4, IdleType DEF CommitRole
  <2> QED
    BY <1>t, <1>u, <1>4, <2>2, <2>3, <2>4, IdleType DEF CommitRole
<1>5. ASSUME NEW h \in Handlers, CommitRemoval(h) PROVE TypeInv'
  <2>1. req[h].on \in Users
    BY <1>t, <1>5 DEF CommitRemoval
  <2>2. /\ req' \in [Handlers -> Requests]
        /\ \A g \in Handlers : req'[g] = Idle \/ (req'[g] = req[g] /\ ~Loaded(g, req[h].on))
    BY <1>5, <2>1, DropType DEF CommitRemoval
  <2>3. \A u \in Users : role'[u] = IF u = req[h].on THEN "none" ELSE role[u]
    BY <1>t, <1>5 DEF CommitRemoval
  <2>4. Typed'
    BY <1>t, <1>5, <2>1, <2>2, <2>3 DEF CommitRemoval
  <2>5. RequestInv'
    BY <1>t, <2>2, <2>3, IdleType DEF Loaded
  <2> QED
    BY <1>u, <2>4, <2>5
<1>6. ASSUME NEW h \in Handlers, FindNoMember(h) PROVE TypeInv'
  <2>1. [req[h] EXCEPT !.pc = "sending"] \in Requests
    BY <1>q DEF Requests, Labels
  <2> QED
    BY <1>t, <1>u, <1>q, <1>6, <2>1 DEF FindNoMember, Requests
<1>7. ASSUME NEW h \in Handlers, NEW i \in Invites, CommitInvite(h, i) PROVE TypeInv'
  <2>1. /\ [for |-> req[h].on, role |-> req[h].to] \in Invitations
        /\ req[h].to # "owner"
    BY <1>t, <1>q, <1>7 DEF CommitInvite, Invitations, Requests
  <2> QED
    BY <1>t, <1>u, <1>7, <2>1, IdleType DEF CommitInvite
<1>8. ASSUME NEW h \in Handlers, NEW i \in Invites, StartAccept(h, i) PROVE TypeInv'
  <2>1. [Idle EXCEPT !.pc = "accepting", !.by = invite[i].for, !.inv = i] \in Requests
    BY <1>8 DEF StartAccept, Idle, Requests, Labels
  <2> QED
    BY <1>t, <1>u, <1>8, <2>1, IdleType DEF StartAccept, Idle
<1>9. ASSUME NEW h \in Handlers, AcceptAsMember(h) PROVE TypeInv'
  <2>1. req[h].inv \in Invites
    BY <1>t, <1>9 DEF AcceptAsMember
  <2> QED
    BY <1>t, <1>u, <1>9, <2>1, IdleType DEF AcceptAsMember
<1>10. ASSUME NEW h \in Handlers, FindNoMembership(h) PROVE TypeInv'
  <2>1. [req[h] EXCEPT !.pc = "joining"] \in Requests
    BY <1>q DEF Requests, Labels
  <2> QED
    BY <1>t, <1>u, <1>q, <1>10, <2>1 DEF FindNoMembership, Requests
<1>11. ASSUME NEW h \in Handlers, Join(h) PROVE TypeInv'
  <2>1. /\ req[h].inv \in Invites /\ req[h].by \in Users
        /\ invite[req[h].inv].role \in Roles \cup {"none"}
    BY <1>t, <1>11 DEF Join, Invitations
  <2>2. /\ role' \in [Users -> Roles \cup {"none"}] /\ admitted' \in [Invites -> Nat]
        /\ \A u \in Users : role'[u] # "none" => exists' /\ u \notin deleted'
    BY <1>t, <1>11, <2>1 DEF Join
  <2>3. req' \in [Handlers -> Requests] /\ \A g \in Handlers : req'[g] = Idle \/ req'[g] = req[g]
    BY <1>t, <1>11, IdleType DEF Join
  <2>4. Typed'
    BY <1>t, <1>11, <2>1, <2>2, <2>3 DEF Join
  <2>5. \A u \in Users : role[u] # "none" => role'[u] # "none"
    BY <1>t, <1>11, <2>1 DEF Join
  <2>6. RequestInv'
    BY <1>t, <2>3, <2>5, IdleType
  <2> QED
    BY <1>u, <2>4, <2>6
<1>12. ASSUME NEW h \in Handlers, NEW u \in Users, StartDeleteAccount(h, u) PROVE TypeInv'
  <2>1. PICK label \in {"asking", "leaving"} :
          req' = [req EXCEPT ![h] = [Idle EXCEPT !.pc = label, !.by = u]]
    BY <1>12 DEF StartDeleteAccount
  <2>2. [Idle EXCEPT !.pc = label, !.by = u] \in Requests
    BY DEF Idle, Requests, Labels
  <2> QED
    BY <1>t, <1>u, <1>12, <2>1, <2>2, IdleType DEF StartDeleteAccount, Idle
<1>13. ASSUME NEW h \in Handlers, FindOtherOwners(h) PROVE TypeInv'
  <2>1. PICK label \in {"closing", "leaving"} :
          req' = [req EXCEPT ![h] = [req[h] EXCEPT !.pc = label]]
    BY <1>13 DEF FindOtherOwners
  <2>2. [req[h] EXCEPT !.pc = label] \in Requests
    BY <1>q DEF Requests, Labels
  <2> QED
    BY <1>t, <1>u, <1>q, <1>13, <2>1, <2>2 DEF FindOtherOwners, Requests
<1>14. ASSUME NEW h \in Handlers, Leave(h) PROVE TypeInv'
  <2>1. req[h].by \in Users
    BY <1>t, <1>14 DEF Leave
  <2>2. /\ req' \in [Handlers -> Requests]
        /\ \A g \in Handlers : req'[g] = Idle \/ (req'[g] = req[g] /\ ~Loaded(g, req[h].by))
    BY <1>14, <2>1, DropType DEF Leave
  <2>3. \A u \in Users : role'[u] = IF u = req[h].by THEN "none" ELSE role[u]
    BY <1>t, <1>14 DEF Leave
  <2>4. Typed'
    BY <1>t, <1>14, <2>1, <2>2, <2>3 DEF Leave
  <2>5. RequestInv'
    BY <1>t, <2>2, <2>3, IdleType DEF Loaded
  <2> QED
    BY <1>u, <2>4, <2>5
<1>15. ASSUME NEW h \in Handlers, CloseOrganization(h) PROVE TypeInv'
  <2>1. req[h].by \in Users
    BY <1>t, <1>15 DEF CloseOrganization
  <2>2. NoInvite \in Invitations /\ NoInvite.role # "owner"
    BY DEF NoInvite, Invitations
  <2>3. req' = [g \in Handlers |-> Idle]
    BY <1>15 DEF CloseOrganization
  <2>4. Typed'
    BY <1>t, <1>15, <2>1, <2>2, <2>3, IdleType DEF CloseOrganization
  <2>5. RequestInv'
    BY <2>3, IdleType
  <2> QED
    BY <1>u, <2>4, <2>5
<1>16. ASSUME NEW h \in Handlers, Refuse(h) PROVE TypeInv'
  BY <1>t, <1>u, <1>16, IdleType DEF Refuse
<1>17. ASSUME NEW i \in Invites, Expire(i) PROVE TypeInv'
  BY <1>t, <1>u, <1>17 DEF Expire
<1>18. CASE UNCHANGED vars
  BY <1>t, <1>u, <1>18 DEF vars, memberVars
<1>19. ASSUME NEW h \in Handlers, Change(h) PROVE TypeInv'
  BY <1>1, <1>2, <1>3, <1>4, <1>5, <1>19 DEF Change, StartChange
<1>20. ASSUME NEW h \in Handlers, Invite(h) PROVE TypeInv'
  BY <1>1, <1>6, <1>7, <1>8, <1>9, <1>10, <1>11, <1>20 DEF Invite, StartInvite
<1>21. ASSUME NEW h \in Handlers, DeleteAccount(h) PROVE TypeInv'
  BY <1>12, <1>13, <1>14, <1>15, <1>21 DEF DeleteAccount
<1> QED
  BY <1>16, <1>17, <1>18, <1>19, <1>20, <1>21 DEF Next

\* Memberships, invitations and open requests keep their types.
THEOREM TypeInvariant == Spec => []TypeInv
<1>1. Init => TypeInv
  <2> SUFFICES ASSUME Init PROVE TypeInv
    OBVIOUS
  <2>1. overlapped \in BOOLEAN
    BY DEF Init
  <2>2. req \in [Handlers -> Requests] /\ \A h \in Handlers : req[h].pc = "idle"
    BY IdleType DEF Init
  <2>3. /\ role \in [Users -> Roles \cup {"none"}] /\ exists = TRUE /\ deleted = {}
        /\ invite \in [Invites -> Invitations] /\ \A i \in Invites : invite[i].role # "owner"
        /\ accepted = {} /\ expired = {} /\ admitted \in [Invites -> Nat]
    BY DEF Init, NoInvite, Invitations, Roles
  <2>4. RequestInv
    BY <2>2 DEF RequestInv, Asks
  <2> QED
    BY <2>1, <2>2, <2>3, <2>4 DEF TypeInv, TypeOK
<1> QED
  BY <1>1, TypeStep, PTL DEF Spec

\* Whatever requests overlap, memberships are those of accounts and of an
\* organization that exist, and no invitation makes an owner.
THEOREM TypeCorrect == Spec => []TypeOK
<1>1. TypeInv => TypeOK
  BY DEF TypeInv
<1> QED
  BY <1>1, TypeInvariant, PTL

------------------------------------------------------------------------------
(***************************************************************************)
(* Requests that have not overlapped.                                      *)
(***************************************************************************)

\* What the one open request has read still holds when it commits.
ReadInv(h) ==
    /\ Asks(h) => req[h].own \in Managers /\ role[req[h].by] = req[h].own
    /\ req[h].pc \in {"counting", "changing"} =>
         /\ req[h].was = role[req[h].on]
         /\ req[h].was = "owner" \/ req[h].to = "owner" => req[h].own = "owner"
    /\ At(h, "changing") /\ req[h].was = "owner" /\ req[h].to # "owner" =>
         \E v \in Owners : v # req[h].on
    /\ req[h].pc \in {"accepting", "joining"} => req[h].inv \notin accepted
    /\ req[h].pc \in {"asking", "closing"} => req[h].by \in Owners
    /\ At(h, "leaving") /\ exists => \E v \in Owners : v # req[h].by

SerialInv ==
    /\ Serial /\ HasOwner
    /\ \A i \in Invites : admitted[i] <= 1 /\ (admitted[i] = 1 => i \in accepted)
    /\ \A h \in Handlers : ReadInv(h)

LEMMA SerialStep ==
    ASSUME TypeInv, ~overlapped => SerialInv, [Next]_vars, ~overlapped'
    PROVE  SerialInv'
<1>i. SerialInv
  BY Observed DEF Observe, TypeInv, TypeOK, Next, vars
<1>s. Serial'
  <2>1. CASE Next
    BY <2>1, Observed DEF Observe
  <2>2. CASE UNCHANGED vars
    BY <1>i, <2>2 DEF SerialInv, Serial, At, vars, memberVars
  <2> QED
    BY <2>1, <2>2
<1>t. /\ role \in [Users -> Roles \cup {"none"}] /\ admitted \in [Invites -> Nat]
      /\ invite \in [Invites -> Invitations]
      /\ \A i \in Invites : invite[i].role # "owner"
      /\ req \in [Handlers -> Requests] /\ RequestInv
      /\ \A u \in Users : role[u] # "none" => exists /\ u \notin deleted
  BY DEF TypeInv, TypeOK
<1>q. \A h \in Handlers : req[h] \in Requests
  BY <1>t
<1> DEFINE Once == \A i \in Invites : admitted[i] <= 1 /\ (admitted[i] = 1 => i \in accepted)
<1>e. HasOwner /\ Once /\ \A h \in Handlers : ReadInv(h)
  BY <1>i DEF SerialInv
\* The request that steps is the only one that is open before or after its step.
<1>u. ASSUME NEW h \in Handlers, req[h].pc # "idle" \/ req'[h].pc # "idle",
             \A g \in Handlers \ {h} : req'[g] = Idle \/ req'[g] = req[g],
             HasOwner', Once', ReadInv(h)'
      PROVE  SerialInv'
  <2>1. ASSUME NEW g \in Handlers \ {h} PROVE req'[g].pc = "idle"
    BY <1>i, <1>s, <1>u, <2>1, IdleType DEF SerialInv, Serial, At
  <2>2. ASSUME NEW g \in Handlers \ {h} PROVE ReadInv(g)'
    BY <2>1 DEF ReadInv, Asks, At
  <2> QED
    BY <1>s, <1>u, <2>2 DEF SerialInv
<1>x. ASSUME NEW h \in Handlers, req'[h] = Idle PROVE ReadInv(h)'
  BY <1>x, IdleType DEF ReadInv, Asks, At
\* A request that only reads.
<1>r. ASSUME UNCHANGED <<exists, role, admitted, accepted>> PROVE HasOwner' /\ Once'
  BY <1>e, <1>r DEF HasOwner, Owners
<1> USE DEF At, Close, inviteVars
<1>1. ASSUME NEW h \in Handlers, NEW u \in Users, NEW v \in Users,
             NEW r \in Roles \cup {"none"}, NEW label \in {"authorized", "inviting"},
             Authorize(h, u, v, r, label)
      PROVE  SerialInv'
  <2>1. /\ req'[h] = [Idle EXCEPT !.pc = label, !.by = u, !.on = v, !.to = r, !.own = role[u]]
        /\ \A g \in Handlers \ {h} : req'[g] = req[g]
    BY <1>t, <1>1 DEF Authorize
  <2>2. ReadInv(h)'
    BY <1>1, <2>1 DEF Authorize, ReadInv, Asks, Idle
  <2>3. HasOwner' /\ Once' /\ req'[h].pc # "idle"
    BY <1>r, <1>1, <2>1 DEF Authorize, Idle
  <2> QED
    BY <1>u, <2>1, <2>2, <2>3
<1>2. ASSUME NEW h \in Handlers, ReadTarget(h) PROVE SerialInv'
  <2>1. req[h].on \in Users /\ req[h].by \in Users /\ role[req[h].by] = req[h].own
    BY <1>t, <1>e, <1>2 DEF ReadTarget, RequestInv, ReadInv, Asks
  <2>2. PICK label : /\ req' = [req EXCEPT ![h] = [req[h] EXCEPT !.pc = label, !.was = role[req[h].on]]]
                     /\ label = IF role[req[h].on] = "owner" /\ req[h].to # "owner"
                                  THEN "counting" ELSE "changing"
    BY <1>t, <1>2, <2>1 DEF ReadTarget
  <2>3. role[req[h].on] = "owner" \/ req[h].to = "owner" => req[h].own = "owner"
    BY <1>2, <2>1 DEF ReadTarget
  <2>4. req'[h] = [req[h] EXCEPT !.pc = label, !.was = role[req[h].on]]
    BY <1>t, <2>2
  <2>6. /\ req'[h].pc = label /\ req'[h].was = role[req[h].on] /\ req'[h].on = req[h].on
        /\ req'[h].by = req[h].by /\ req'[h].own = req[h].own /\ req'[h].to = req[h].to
    BY <1>q, <2>4 DEF Requests
  <2>7. /\ req[h].own \in Managers /\ role' = role /\ label \in {"counting", "changing"}
        /\ label = "changing" => ~(role[req[h].on] = "owner" /\ req[h].to # "owner")
    BY <1>e, <1>2, <2>2 DEF ReadTarget, ReadInv, Asks
  <2>5. ReadInv(h)'
    BY <2>1, <2>3, <2>6, <2>7 DEF ReadInv, Asks
  <2> QED
    BY <1>r, <1>t, <1>u, <1>2, <2>2, <2>5 DEF ReadTarget
<1>3. ASSUME NEW h \in Handlers, CountOwners(h) PROVE SerialInv'
  <2>1. req'[h] = [req[h] EXCEPT !.pc = "changing"]
    BY <1>t, <1>3 DEF CountOwners
  <2>2. ReadInv(h)'
    BY <1>e, <1>q, <1>3, <2>1 DEF CountOwners, ReadInv, Asks, Requests, Owners
  <2> QED
    BY <1>r, <1>t, <1>u, <1>3, <2>2 DEF CountOwners
<1>4. ASSUME NEW h \in Handlers, CommitRole(h) PROVE SerialInv'
  <2>1. /\ req[h].on \in Users /\ req[h].was = role[req[h].on]
        /\ role[req[h].on] = "owner" /\ req[h].to # "owner" =>
             \E v \in Owners : v # req[h].on
    BY <1>t, <1>e, <1>4 DEF CommitRole, RequestInv, ReadInv, Asks
  <2>2. role' = [role EXCEPT ![req[h].on] = req[h].to]
    BY <1>t, <1>4, <2>1 DEF CommitRole
  <2>3. HasOwner'
    BY <1>t, <1>e, <1>4, <2>1, <2>2 DEF CommitRole, HasOwner, Owners
  <2>4. Once' /\ req'[h] = Idle /\ \A g \in Handlers \ {h} : req'[g] = req[g]
    BY <1>t, <1>e, <1>4 DEF CommitRole
  <2> QED
    BY <1>u, <1>x, <1>4, <2>3, <2>4 DEF CommitRole
<1>5. ASSUME NEW h \in Handlers, CommitRemoval(h) PROVE SerialInv'
  <2>1. /\ req[h].on \in Users /\ req[h].was = role[req[h].on]
        /\ role[req[h].on] = "owner" => \E v \in Owners : v # req[h].on
    BY <1>t, <1>e, <1>5 DEF CommitRemoval, RequestInv, ReadInv, Asks
  <2>2. HasOwner'
    BY <1>t, <1>e, <1>5, <2>1 DEF CommitRemoval, HasOwner, Owners
  <2>3. /\ Once' /\ req'[h] = Idle
        /\ \A g \in Handlers \ {h} : req'[g] = Idle \/ req'[g] = req[g]
    BY <1>t, <1>e, <1>5 DEF CommitRemoval, CloseAndDrop
  <2> QED
    BY <1>u, <1>x, <1>5, <2>2, <2>3 DEF CommitRemoval
<1>6. ASSUME NEW h \in Handlers, FindNoMember(h) PROVE SerialInv'
  <2>1. req'[h] = [req[h] EXCEPT !.pc = "sending"]
    BY <1>t, <1>6 DEF FindNoMember
  <2>2. ReadInv(h)'
    BY <1>e, <1>q, <1>6, <2>1 DEF FindNoMember, ReadInv, Asks, Requests
  <2> QED
    BY <1>r, <1>t, <1>u, <1>6, <2>2 DEF FindNoMember
<1>7. ASSUME NEW h \in Handlers, NEW i \in Invites, CommitInvite(h, i) PROVE SerialInv'
  BY <1>r, <1>t, <1>u, <1>x, <1>7 DEF CommitInvite
<1>8. ASSUME NEW h \in Handlers, NEW i \in Invites, StartAccept(h, i) PROVE SerialInv'
  <2>1. req'[h] = [Idle EXCEPT !.pc = "accepting", !.by = invite[i].for, !.inv = i]
    BY <1>t, <1>8 DEF StartAccept
  <2>3. req'[h].pc = "accepting" /\ req'[h].inv = i /\ i \notin accepted'
    BY <1>8, <2>1 DEF StartAccept, Idle
  <2>2. ReadInv(h)' /\ req'[h].pc # "idle"
    BY <2>3 DEF ReadInv, Asks
  <2> QED
    BY <1>r, <1>t, <1>u, <1>8, <2>2 DEF StartAccept
<1>9. ASSUME NEW h \in Handlers, AcceptAsMember(h) PROVE SerialInv'
  <2>1. HasOwner' /\ Once'
    BY <1>e, <1>9 DEF AcceptAsMember, HasOwner, Owners
  <2> QED
    BY <1>t, <1>u, <1>x, <1>9, <2>1 DEF AcceptAsMember
<1>10. ASSUME NEW h \in Handlers, FindNoMembership(h) PROVE SerialInv'
  <2>1. req'[h] = [req[h] EXCEPT !.pc = "joining"]
    BY <1>t, <1>10 DEF FindNoMembership
  <2>2. ReadInv(h)'
    BY <1>e, <1>q, <1>10, <2>1 DEF FindNoMembership, ReadInv, Asks, Requests
  <2> QED
    BY <1>r, <1>t, <1>u, <1>10, <2>2 DEF FindNoMembership
<1>11. ASSUME NEW h \in Handlers, Join(h) PROVE SerialInv'
  <2>1. req[h].inv \in Invites /\ req[h].by \in Users /\ req[h].inv \notin accepted
    BY <1>t, <1>e, <1>11 DEF Join, RequestInv, ReadInv
  <2>2. Once'
    BY <1>t, <1>e, <1>11, <2>1 DEF Join
  <2>3. HasOwner'
    BY <1>t, <1>e, <1>11, <2>1 DEF Join, HasOwner, Owners
  <2> QED
    BY <1>t, <1>u, <1>x, <1>11, <2>2, <2>3 DEF Join
<1>12. ASSUME NEW h \in Handlers, NEW u \in Users, StartDeleteAccount(h, u) PROVE SerialInv'
  <2>1. req'[h] = [Idle EXCEPT !.pc = IF role[u] = "owner" THEN "asking" ELSE "leaving", !.by = u]
    BY <1>t, <1>12 DEF StartDeleteAccount
  <2>3. /\ req'[h].pc = IF role[u] = "owner" THEN "asking" ELSE "leaving"
        /\ req'[h].by = u /\ exists' = exists /\ Owners' = Owners
    BY <1>12, <2>1, ZenonT(30) DEF StartDeleteAccount, Idle, Owners
  <2>4. role[u] # "owner" /\ exists => \E v \in Owners : v # u
    BY <1>e DEF HasOwner, Owners
  <2>2. ReadInv(h)' /\ req'[h].pc # "idle"
    BY <2>3, <2>4 DEF ReadInv, Asks, Owners
  <2> QED
    BY <1>r, <1>t, <1>u, <1>12, <2>2 DEF StartDeleteAccount
<1>13. ASSUME NEW h \in Handlers, FindOtherOwners(h) PROVE SerialInv'
  <2>1. req'[h] = [req[h] EXCEPT !.pc = IF \E v \in Users \ {req[h].by} : role[v] = "owner"
                                        THEN "leaving" ELSE "closing"]
    BY <1>t, <1>13 DEF FindOtherOwners
  <2>2. ReadInv(h)'
    BY <1>e, <1>q, <1>13, <2>1 DEF FindOtherOwners, ReadInv, Asks, Requests, Owners
  <2> QED
    BY <1>r, <1>t, <1>u, <1>13, <2>2 DEF FindOtherOwners
<1>14. ASSUME NEW h \in Handlers, Leave(h) PROVE SerialInv'
  <2>1. req[h].by \in Users /\ (exists => \E v \in Owners : v # req[h].by)
    BY <1>t, <1>e, <1>14 DEF Leave, RequestInv, ReadInv
  <2>2. HasOwner'
    BY <1>t, <1>e, <1>14, <2>1 DEF Leave, HasOwner, Owners
  <2>3. /\ Once' /\ req'[h] = Idle
        /\ \A g \in Handlers \ {h} : req'[g] = Idle \/ req'[g] = req[g]
    BY <1>t, <1>e, <1>14 DEF Leave, CloseAndDrop
  <2> QED
    BY <1>u, <1>x, <1>14, <2>2, <2>3 DEF Leave
<1>15. ASSUME NEW h \in Handlers, CloseOrganization(h) PROVE SerialInv'
  <2>1. HasOwner' /\ Once'
    BY <1>e, <1>15 DEF CloseOrganization, HasOwner
  <2> QED
    BY <1>u, <1>x, <1>15, <2>1 DEF CloseOrganization
<1>16. ASSUME NEW h \in Handlers, Refuse(h) PROVE SerialInv'
  BY <1>r, <1>t, <1>u, <1>x, <1>16 DEF Refuse
<1>17. ASSUME NEW i \in Invites, Expire(i) PROVE SerialInv'
  <2>1. \A h \in Handlers : ReadInv(h)'
    BY <1>e, <1>17 DEF Expire, ReadInv, Asks, Owners
  <2> QED
    BY <1>r, <1>s, <1>17, <2>1 DEF Expire, SerialInv
<1>18. CASE UNCHANGED vars
  <2>1. \A h \in Handlers : ReadInv(h)'
    BY <1>e, <1>18 DEF ReadInv, Asks, Owners, vars, memberVars
  <2> QED
    BY <1>r, <1>s, <1>18, <2>1 DEF SerialInv, vars, memberVars
<1>19. ASSUME NEW h \in Handlers, Change(h) PROVE SerialInv'
  BY <1>1, <1>2, <1>3, <1>4, <1>5, <1>19 DEF Change, StartChange
<1>20. ASSUME NEW h \in Handlers, Invite(h) PROVE SerialInv'
  BY <1>1, <1>6, <1>7, <1>8, <1>9, <1>10, <1>11, <1>20 DEF Invite, StartInvite
<1>21. ASSUME NEW h \in Handlers, DeleteAccount(h) PROVE SerialInv'
  BY <1>12, <1>13, <1>14, <1>15, <1>21 DEF DeleteAccount
<1> QED
  BY <1>16, <1>17, <1>18, <1>19, <1>20, <1>21 DEF Next

\* What the only open request has read is still true, until requests overlap.
THEOREM SerialInvariant == Spec => [](TypeInv /\ (~overlapped => SerialInv))
<1>1. Init => SerialInv
  BY IdleType DEF Init, SerialInv, Serial, HasOwner, Owners, ReadInv, Asks, At
<1>2. TypeInv /\ (~overlapped => SerialInv) /\ [Next]_vars => (~overlapped => SerialInv)'
  BY SerialStep
<1> QED
  BY <1>1, <1>2, TypeInvariant, PTL DEF Spec

\* For as long as no requests have overlapped, an organization that exists has an
\* owner, whoever is demoted, is removed or deletes his account.
THEOREM OrganizationsHaveOwners == Spec => []SerialHasOwner
<1>1. (~overlapped => SerialInv) => SerialHasOwner
  BY DEF SerialInv, SerialHasOwner
<1> QED
  BY <1>1, SerialInvariant, PTL

\* Likewise no invitation makes two memberships.
THEOREM InvitationsWorkOnce == Spec => []SerialInviteOnce
<1>1. (~overlapped => SerialInv) => SerialInviteOnce
  BY DEF SerialInv, SerialInviteOnce
<1> QED
  BY <1>1, SerialInvariant, PTL

\* Likewise nobody but an owner makes or unmakes an owner: no admin, no invitation.
THEOREM OwnersChangeOwners == Spec => SerialOwnersChangeOwners
<1>1. TypeInv /\ (~overlapped => SerialInv) /\ [Next]_vars
        => [~overlapped' => (Owners' # Owners =>
              \E h \in Handlers : At(h, "idle")' /\ req[h].by \in Owners)]_vars
  <2> SUFFICES ASSUME TypeInv, ~overlapped => SerialInv, Next, ~overlapped', Owners' # Owners
               PROVE  \E h \in Handlers : At(h, "idle")' /\ req[h].by \in Owners
    OBVIOUS
  <2>i. SerialInv /\ Next /\ role' # role
    BY Observed DEF Observe, TypeInv, TypeOK, Owners
  <2>t. /\ role \in [Users -> Roles \cup {"none"}] /\ req \in [Handlers -> Requests]
        /\ \A i \in Invites : invite[i].role # "owner"
        /\ RequestInv /\ \A h \in Handlers : ReadInv(h)
    BY <2>i DEF TypeInv, TypeOK, SerialInv
  <2>1. PICK h \in Handlers : CommitRole(h) \/ CommitRemoval(h) \/ Join(h) \/ Leave(h)
                               \/ CloseOrganization(h)
    BY <2>i DEF Next, Change, Invite, DeleteAccount, StartChange, StartInvite, Authorize,
       ReadTarget, CountOwners, FindNoMember, CommitInvite, StartAccept, AcceptAsMember,
       FindNoMembership, StartDeleteAccount, FindOtherOwners, Refuse, Expire
  <2>2. At(h, "idle")'
    BY <2>1, <2>t, IdleType DEF At, CommitRole, CommitRemoval, Join, Leave, CloseOrganization,
       Close, CloseAndDrop
  <2>3. CASE CommitRole(h) \/ CommitRemoval(h)
    <3>1. /\ req[h].on \in Users /\ req[h].by \in Users /\ req[h].was = role[req[h].on]
          /\ role[req[h].by] = req[h].own
          /\ req[h].was = "owner" \/ req[h].to = "owner" => req[h].own = "owner"
      BY <2>3, <2>t DEF CommitRole, CommitRemoval, At, RequestInv, ReadInv, Asks
    <3>2. req[h].was = "owner" \/ req[h].to = "owner"
      BY <2>3, <2>t, <3>1 DEF CommitRole, CommitRemoval, Owners
    <3> QED
      BY <2>2, <3>1, <3>2 DEF Owners
  <2>4. CASE Join(h)
    <3>1. req[h].by \in Users /\ req[h].inv \in Invites
      BY <2>4, <2>t DEF Join, At, RequestInv
    <3> QED
      BY <2>4, <2>t, <3>1 DEF Join, Owners
  <2>5. CASE Leave(h)
    <3>1. req[h].by \in Users
      BY <2>5, <2>t DEF Leave, At, RequestInv
    <3> QED
      BY <2>2, <2>5, <2>t, <3>1 DEF Leave, Owners
  <2>6. CASE CloseOrganization(h)
    BY <2>2, <2>6, <2>t DEF CloseOrganization, At, ReadInv
  <2> QED
    BY <2>1, <2>3, <2>4, <2>5, <2>6
<1> QED
  BY <1>1, SerialInvariant, PTL DEF Spec, SerialOwnersChangeOwners

-----------------------------------------------------------------------------
(* Share links, for any number of documents, links and visitors. *)

LinkRows == [of : Docs \cup {NoDoc}, state : {"none", "open", "revoked", "gone"},
             download : BOOLEAN, personal : BOOLEAN, expired : BOOLEAN, views : Nat]
Visits == [pc : {"idle", "resolved", "admitted"}, link : Links \cup {"none"},
           doc : Docs \cup {NoDoc}, views : Nat, file : BOOLEAN]

SharingTypeOK ==
    /\ link \in [Links -> LinkRows] /\ visit \in [Visitors -> Visits]
    /\ opened \in [Links -> Nat] /\ late \in [Links -> Nat] /\ crowded \in BOOLEAN

\* A visitor past the check is at the document of a link that was made.
VisitsHold == \A v \in Visitors : LET l == visit[v].link IN
    /\ visit[v].pc = "resolved" => l \in Links /\ visit[v].views <= opened[l]
    /\ visit[v].pc # "idle" /\ l \in Links =>
         link[l].state # "none" /\ visit[v].doc = link[l].of /\ (visit[v].file => link[l].download)

\* While a link is valid no access is late; then each visitor at it has one to come.
LateBound == \A l \in Links :
    /\ link[l].state = "none" => link[l] = NoLink
    /\ Valid(l) \/ link[l].state = "none" => late[l] = 0
    /\ ~Valid(l) /\ link[l].state # "none" =>
         late[l] + Cardinality(Crowd(l)) <= Cardinality(Visitors)

\* A visitor by himself writes back what the row says.
CountsHold == \A l \in Links :
    /\ link[l].views <= opened[l]
    /\ ~crowded => link[l].views = opened[l]
    /\ ~crowded => \A v, w \in Crowd(l) : v = w /\ visit[v].views = link[l].views

SharingInv == SharingTypeOK /\ VisitsHold /\ LateBound /\ CountsHold

\* What cannot be counted to two has one member at most.
LEMMA AtMostOne ==
    ASSUME NEW S, IsFiniteSet(S), Cardinality(S) <= 1, NEW v \in S, NEW w \in S
    PROVE  v = w
<1>1. /\ IsFiniteSet(S \ {v}) /\ Cardinality(S \ {v}) = Cardinality(S) - 1
      /\ Cardinality(S \ {v}) \in Nat /\ Cardinality(S) \in Nat
  BY FS_RemoveElement, FS_CardinalityType
<1>2. S \ {v} = {}
  BY <1>1, FS_EmptySet
<1> QED
  BY <1>2

LEMMA CrowdFinite ==
    \A l : IsFiniteSet(Crowd(l)) /\ Cardinality(Crowd(l)) \in Nat
           /\ Cardinality(Crowd(l)) <= Cardinality(Visitors) /\ Cardinality(Visitors) \in Nat
<1>1. \A l : Crowd(l) \in SUBSET Visitors
  BY DEF Crowd
<1> QED
  BY <1>1, SharingAssumption, FS_Subset, FS_CardinalityType

LEMMA CrowdFiniteNext ==
    \A l : IsFiniteSet(Crowd(l)') /\ Cardinality(Crowd(l)') \in Nat
           /\ Cardinality(Crowd(l)') <= Cardinality(Visitors)
<1>1. \A l : Crowd(l)' \in SUBSET Visitors
  BY DEF Crowd
<1> QED
  BY <1>1, SharingAssumption, FS_Subset, FS_CardinalityType

\* A step that is noted tells whether two visitors are at a link.
LEMMA Alone ==
    ASSUME NoteCrowd, ~crowded', NEW l \in Links
    PROVE  ~crowded /\ \A v, w \in Crowd(l)' : v = w
<1>1. ~crowded /\ ~(Cardinality(Crowd(l)') > 1)
  BY DEF NoteCrowd
<1>2. IsFiniteSet(Crowd(l)') /\ Cardinality(Crowd(l)') <= 1
  BY <1>1, CrowdFiniteNext
<1> QED
  BY <1>1, <1>2, AtMostOne

LEMMA CrowdedIsBoolean == NoteCrowd /\ crowded \in BOOLEAN => crowded' \in BOOLEAN
BY DEF NoteCrowd

\* Links that are revoked, expire or go with their documents.
LEMMA LinksCloseStep ==
    ASSUME SharingInv, NoteCrowd, UNCHANGED <<visit, linkHistory>>,
           link' \in [Links -> LinkRows],
           \A l \in Links :
              /\ link'[l].of = link[l].of /\ link'[l].download = link[l].download
              /\ link'[l].views = link[l].views
              /\ link[l].state = "none" => link'[l] = link[l]
              /\ link[l].state # "none" => link'[l].state # "none"
              /\ link'[l].state = "open" /\ ~link'[l].expired => Valid(l)
    PROVE  SharingInv'
<1>0. SharingTypeOK /\ VisitsHold /\ LateBound /\ CountsHold
  BY DEF SharingInv
<1>a. visit' = visit /\ opened' = opened /\ late' = late
  BY DEF linkHistory
<1>b. \A l : Crowd(l)' = Crowd(l)
  BY <1>a DEF Crowd
<1>1. SharingTypeOK'
  BY <1>0, <1>a, CrowdedIsBoolean DEF SharingTypeOK
<1>2. VisitsHold'
  BY <1>0, <1>a DEF VisitsHold
<1>3. LateBound'
  <2> SUFFICES ASSUME NEW l \in Links
      PROVE  /\ link'[l].state = "none" => link'[l] = NoLink
             /\ Valid(l)' \/ link'[l].state = "none" => late'[l] = 0
             /\ ~Valid(l)' /\ link'[l].state # "none" =>
                  late'[l] + Cardinality(Crowd(l)') <= Cardinality(Visitors)
    BY DEF LateBound
  <2>1. CASE link[l].state = "none"
    BY <2>1, <1>0, <1>a DEF LateBound, Valid
  <2>2. CASE Valid(l)
    <3>1. late[l] = 0 /\ link'[l].state # "none"
      BY <1>0, <2>2 DEF LateBound, Valid
    <3> QED
      BY <3>1, <1>a, <1>b, CrowdFinite
  <2>3. CASE ~Valid(l) /\ link[l].state # "none"
    BY <2>3, <1>0, <1>a, <1>b DEF LateBound, Valid
  <2> QED
    BY <2>1, <2>2, <2>3
<1>4. CountsHold'
  BY <1>0, <1>a, <1>b, Alone DEF CountsHold
<1> QED
  BY <1>1, <1>2, <1>3, <1>4 DEF SharingInv

\* Links, visitors and counts as they were.
LEMMA SharingStutter ==
    ASSUME SharingInv, NoteCrowd, UNCHANGED <<link, visit, linkHistory>>
    PROVE  SharingInv'
<1>1. link \in [Links -> LinkRows]
  BY DEF SharingInv, SharingTypeOK
<1> QED
  BY <1>1, LinksCloseStep DEF Valid

LEMMA CloseLinksStep ==
    ASSUME SharingInv, NoteCrowd, UNCHANGED <<visit, linkHistory>>,
           NEW ds \in SUBSET Docs, link' = CloseLinks(ds)
    PROVE  SharingInv'
<1>0. SharingTypeOK /\ LateBound
  BY DEF SharingInv
<1>1. \A l \in Links : link'[l] = IF link[l].of \in ds THEN [link[l] EXCEPT !.state = "gone"] ELSE link[l]
  BY DEF CloseLinks
<1>2. \A l \in Links : link[l] \in LinkRows
  BY <1>0 DEF SharingTypeOK
<1>3. \A l \in Links : link[l].state = "none" => link[l].of \notin ds
  BY <1>0, SharingAssumption DEF LateBound, NoLink, NoDoc
<1>4. \A l \in Links : [link[l] EXCEPT !.state = "gone"] \in LinkRows
  BY <1>2 DEF LinkRows
<1>5. link' \in [Links -> LinkRows]
  BY <1>2, <1>4 DEF CloseLinks
<1>6. \A l \in Links :
              /\ link'[l].of = link[l].of /\ link'[l].download = link[l].download
              /\ link'[l].views = link[l].views
              /\ link[l].state = "none" => link'[l] = link[l]
              /\ link[l].state # "none" => link'[l].state # "none"
              /\ link'[l].state = "open" /\ ~link'[l].expired => Valid(l)
  BY <1>1, <1>2, <1>3, ZenonT(30) DEF LinkRows, Valid
<1> QED
  BY <1>5, <1>6, LinksCloseStep

LEMMA RevokeStep ==
    ASSUME SharingInv, NoteCrowd, NEW l \in Links, RevokeShare(l) \/ ShareExpires(l)
    PROVE  SharingInv'
<1>0. SharingTypeOK
  BY DEF SharingInv
<1>1. /\ UNCHANGED <<visit, linkHistory>> /\ link[l].state = "open"
      /\ \/ link' = [link EXCEPT ![l] = [link[l] EXCEPT !.state = "revoked"]]
         \/ ~link[l].expired /\ link' = [link EXCEPT ![l] = [link[l] EXCEPT !.expired = TRUE]]
  BY DEF RevokeShare, ShareExpires
<1>2. \A m \in Links : link[m] \in LinkRows
  BY <1>0 DEF SharingTypeOK
<1>3. [link[l] EXCEPT !.state = "revoked"] \in LinkRows /\ [link[l] EXCEPT !.expired = TRUE] \in LinkRows
  BY <1>2 DEF LinkRows
<1>4. link' \in [Links -> LinkRows]
  BY <1>0, <1>1, <1>3 DEF SharingTypeOK
<1>5. \A m \in Links :
              /\ link'[m].of = link[m].of /\ link'[m].download = link[m].download
              /\ link'[m].views = link[m].views
              /\ link[m].state = "none" => link'[m] = link[m]
              /\ link[m].state # "none" => link'[m].state # "none"
              /\ link'[m].state = "open" /\ ~link'[m].expired => Valid(m)
  BY <1>0, <1>1, <1>2 DEF LinkRows, Valid, SharingTypeOK
<1> QED
  BY <1>1, <1>4, <1>5, LinksCloseStep

LEMMA CreateShareStep ==
    ASSUME SharingInv, NoteCrowd, NEW l \in Links, NEW d \in Docs,
           NEW download \in BOOLEAN, NEW personal \in BOOLEAN,
           CreateShare(l, d, download, personal)
    PROVE  SharingInv'
<1>0. SharingTypeOK /\ VisitsHold /\ LateBound /\ CountsHold
  BY DEF SharingInv
<1> DEFINE new == [of |-> d, state |-> "open", download |-> download, personal |-> personal,
                   expired |-> FALSE, views |-> 0]
<1>1. link' = [link EXCEPT ![l] = new] /\ link[l] = NoLink
  BY DEF CreateShare
<1>2. new \in LinkRows /\ NoLink \in LinkRows
  BY DEF LinkRows, NoLink
<1>3. /\ new.of = d /\ new.state = "open" /\ new.expired = FALSE /\ new.views = 0
      /\ NoLink.state = "none" /\ NoLink.views = 0
  BY DEF NoLink
<1> HIDE DEF new
<1>a. visit' = visit /\ opened' = opened /\ late' = late
  BY DEF CreateShare, linkHistory
<1>b. \A m : Crowd(m)' = Crowd(m)
  BY <1>a DEF Crowd
<1>c. link'[l] = new /\ \A m \in Links \ {l} : link'[m] = link[m]
  BY <1>0, <1>1 DEF SharingTypeOK
<1>d. \A v \in Visitors : visit[v].pc # "idle" => visit[v].link # l
  BY <1>0, <1>1, <1>3 DEF VisitsHold
<1>4. SharingTypeOK'
  BY <1>0, <1>1, <1>2, <1>a, CrowdedIsBoolean DEF SharingTypeOK
<1>5. VisitsHold'
  BY <1>0, <1>a, <1>c, <1>d DEF VisitsHold
<1>6. LateBound'
  BY <1>0, <1>1, <1>3, <1>a, <1>b, <1>c DEF LateBound, Valid
<1>7. CountsHold'
  <2>1. Crowd(l) = {}
    BY <1>d DEF Crowd
  <2>2. link'[l].views <= opened'[l] /\ (~crowded => link'[l].views = opened'[l])
    BY <1>0, <1>1, <1>3, <1>a, <1>c DEF CountsHold
  <2>3. \A m \in Links \ {l} : /\ link'[m].views <= opened'[m]
                               /\ ~crowded => link'[m].views = opened'[m]
                               /\ ~crowded => \A v \in Crowd(m) : visit'[v].views = link'[m].views
    BY <1>0, <1>a, <1>c DEF CountsHold
  <2> QED
    BY <1>b, <2>1, <2>2, <2>3, Alone DEF CountsHold
<1> QED
  BY <1>4, <1>5, <1>6, <1>7 DEF SharingInv

LEMMA EnterRecord ==
    ASSUME SharingTypeOK, NEW v \in Visitors, NEW l \in Links \cup {"none"},
           NEW pc \in {"resolved", "admitted"}, NEW d \in Docs \cup {NoDoc}, NEW file \in BOOLEAN,
           Enter(v, pc, l, d, file)
    PROVE  /\ visit' \in [Visitors -> Visits]
           /\ visit'[v].pc = pc /\ visit'[v].link = l /\ visit'[v].doc = d /\ visit'[v].file = file
           /\ l \in Links => visit'[v].views = link[l].views
           /\ \A w \in Visitors \ {v} : visit'[w] = visit[w]
<1> DEFINE views == IF l \in Links THEN link[l].views ELSE 0
<1> DEFINE new == [pc |-> pc, link |-> l, doc |-> d, file |-> file, views |-> views]
<1>1. views \in Nat /\ (l \in Links => views = link[l].views)
  BY DEF SharingTypeOK, LinkRows
<1>2. visit' = [visit EXCEPT ![v] = new]
  BY DEF Enter
<1> HIDE DEF views
<1>3. new \in Visits
  BY <1>1 DEF Visits
<1>4. new.pc = pc /\ new.link = l /\ new.doc = d /\ new.file = file /\ new.views = views
  OBVIOUS
<1> HIDE DEF new
<1> QED
  BY <1>1, <1>2, <1>3, <1>4 DEF SharingTypeOK

LEMMA ResolveStep ==
    ASSUME SharingInv, NoteCrowd, NEW v \in Visitors, NEW l \in Links,
           NEW file \in BOOLEAN, NEW proof \in BOOLEAN, Resolve(v, l, file, proof)
    PROVE  SharingInv'
<1>0. SharingTypeOK /\ VisitsHold /\ LateBound /\ CountsHold
  BY DEF SharingInv
<1>a. link' = link /\ opened' = opened /\ late' = late
  BY DEF Resolve, linkHistory
<1>1. Valid(l) /\ visit[v].pc = "idle" /\ (file => link[l].download)
      /\ Enter(v, "resolved", l, link[l].of, file) /\ link[l].state = "open"
  BY DEF Resolve, Valid
<1>2. link[l].of \in Docs \cup {NoDoc}
  BY <1>0 DEF SharingTypeOK, LinkRows
<1>3. /\ visit' \in [Visitors -> Visits]
      /\ visit'[v].pc = "resolved" /\ visit'[v].link = l /\ visit'[v].doc = link[l].of
      /\ visit'[v].file = file /\ visit'[v].views = link[l].views
      /\ \A w \in Visitors \ {v} : visit'[w] = visit[w]
  BY <1>0, <1>1, <1>2, EnterRecord
<1>4. \A m \in Links \ {l} : Crowd(m)' = Crowd(m)
  BY <1>1, <1>3 DEF Crowd
<1>5. v \in Crowd(l)'
  BY <1>3 DEF Crowd
<1>6. SharingTypeOK'
  BY <1>0, <1>a, <1>3, CrowdedIsBoolean DEF SharingTypeOK
<1>7. VisitsHold'
  BY <1>0, <1>a, <1>1, <1>3 DEF VisitsHold, CountsHold
<1>8. LateBound'
  BY <1>0, <1>a, <1>1, <1>4 DEF LateBound, Valid
<1>9. CountsHold'
  <2>1. \A m \in Links : ~crowded' => \A w, u \in Crowd(m)' : w = u
    BY Alone
  <2>2. \A m \in Links : ~crowded' => \A w \in Crowd(m)' : visit'[w].views = link'[m].views
    <3> SUFFICES ASSUME NEW m \in Links, ~crowded', NEW w \in Crowd(m)'
        PROVE  visit'[w].views = link'[m].views
      OBVIOUS
    <3>1. CASE m = l
      BY <3>1, <2>1, <1>5, <1>3, <1>a
    <3>2. CASE m # l
      <4>1. w \in Crowd(m) /\ w # v /\ w \in Visitors
        BY <3>2, <1>3, <1>4 DEF Crowd
      <4> QED
        BY <4>1, <1>0, <1>3, <1>a, Alone DEF CountsHold
    <3> QED
      BY <3>1, <3>2
  <2> QED
    BY <1>0, <1>a, <2>1, <2>2, Alone DEF CountsHold
<1> QED
  BY <1>6, <1>7, <1>8, <1>9 DEF SharingInv

\* A visitor that was not waiting at a link, and is not now.
LEMMA PassingBy ==
    ASSUME SharingInv, NoteCrowd, UNCHANGED <<link, linkHistory>>, NEW v \in Visitors,
           visit' \in [Visitors -> Visits], visit[v].pc # "resolved", visit'[v].pc # "resolved",
           visit'[v].pc # "idle" => visit'[v].link = "none",
           \A w \in Visitors \ {v} : visit'[w] = visit[w]
    PROVE  SharingInv'
<1>0. SharingTypeOK /\ VisitsHold /\ LateBound /\ CountsHold
  BY DEF SharingInv
<1>a. link' = link /\ opened' = opened /\ late' = late
  BY DEF linkHistory
<1>b. \A m : Crowd(m)' = Crowd(m)
  BY DEF Crowd
<1>c. \A m : \A w \in Crowd(m) : visit'[w] = visit[w]
  BY DEF Crowd
<1>1. SharingTypeOK'
  BY <1>0, <1>a, CrowdedIsBoolean DEF SharingTypeOK
<1>2. VisitsHold'
  BY <1>0, <1>a, SharingAssumption DEF VisitsHold
<1>3. LateBound'
  BY <1>0, <1>a, <1>b DEF LateBound, Valid
<1>4. CountsHold'
  BY <1>0, <1>a, <1>b, <1>c, Alone DEF CountsHold
<1> QED
  BY <1>1, <1>2, <1>3, <1>4 DEF SharingInv

LEMMA NoVisitType == NoVisit \in Visits /\ NoVisit.pc = "idle"
BY DEF NoVisit, Visits

LEMMA RedeemStep ==
    ASSUME SharingInv, NoteCrowd, NEW v \in Visitors, NEW d \in Docs, RedeemUrl(v, d)
    PROVE  SharingInv'
<1>0. SharingTypeOK
  BY DEF SharingInv
<1>1. /\ visit[v].pc = "idle" /\ Enter(v, "admitted", "none", d, TRUE)
      /\ UNCHANGED <<link, linkHistory>>
  BY DEF RedeemUrl
<1>2. /\ visit' \in [Visitors -> Visits] /\ visit'[v].pc = "admitted" /\ visit'[v].link = "none"
      /\ \A w \in Visitors \ {v} : visit'[w] = visit[w]
  BY <1>0, <1>1, EnterRecord
<1> QED
  BY <1>1, <1>2, PassingBy

LEMMA ServeStep ==
    ASSUME SharingInv, NoteCrowd, NEW v \in Visitors, Serve(v)
    PROVE  SharingInv'
<1>0. SharingTypeOK
  BY DEF SharingInv
<1>1. /\ visit[v].pc = "admitted" /\ visit' = [visit EXCEPT ![v] = NoVisit]
      /\ UNCHANGED <<link, linkHistory>>
  BY DEF Serve
<1>2. /\ visit' \in [Visitors -> Visits] /\ visit'[v].pc = "idle"
      /\ \A w \in Visitors \ {v} : visit'[w] = visit[w]
  BY <1>0, <1>1, NoVisitType DEF SharingTypeOK
<1> QED
  BY <1>1, <1>2, PassingBy

\* The visitor leaves the crowd, counted by the row or turned away with it.
LEMMA RegisterStep ==
    ASSUME SharingInv, NoteCrowd, NEW v \in Visitors, RegisterAccess(v)
    PROVE  SharingInv'
<1>0. SharingTypeOK /\ VisitsHold /\ LateBound /\ CountsHold
  BY DEF SharingInv
<1>r. visit[v].pc = "resolved" /\ visit[v].link \in Links
  BY <1>0 DEF RegisterAccess, VisitsHold
<1>l. PICK l \in Links : visit[v].link = l
  BY <1>r
<1>1. /\ visit[v].pc = "resolved" /\ visit[v].link = l /\ visit[v] \in Visits
      /\ link[l].state # "none" /\ visit[v].doc = link[l].of /\ (visit[v].file => link[l].download)
      /\ visit[v].views <= opened[l] /\ link[l] \in LinkRows /\ opened[l] \in Nat /\ late[l] \in Nat
  BY <1>0, <1>r, <1>l DEF VisitsHold, SharingTypeOK
<1>2. v \in Crowd(l)
  BY <1>1 DEF Crowd
<1>3. ASSUME visit' \in [Visitors -> Visits], visit'[v].pc # "resolved",
             \A w \in Visitors \ {v} : visit'[w] = visit[w]
      PROVE  /\ Crowd(l)' = Crowd(l) \ {v} /\ \A m \in Links \ {l} : Crowd(m)' = Crowd(m)
             /\ Cardinality(Crowd(l)') = Cardinality(Crowd(l)) - 1
             /\ \A m \in Links : \A w \in Crowd(m)' : w \in Crowd(m) /\ visit'[w] = visit[w]
             /\ \A m \in Links : ~crowded' => \A w \in Crowd(m)' : m # l
  <2>1. visit[v].link = l
    BY <1>1
  <2>2. Crowd(l)' = Crowd(l) \ {v} /\ \A m \in Links \ {l} : Crowd(m)' = Crowd(m)
    BY <1>3, <2>1 DEF Crowd
  <2>3. Cardinality(Crowd(l)') = Cardinality(Crowd(l)) - 1
    BY <2>2, <1>2, CrowdFinite, FS_RemoveElement
  <2>4. \A m \in Links : \A w \in Crowd(m)' : w \in Crowd(m) /\ visit'[w] = visit[w]
    BY <1>3, <2>1 DEF Crowd
  <2>5. ASSUME ~crowded', NEW w \in Crowd(l)' PROVE FALSE
    <3>1. ~crowded /\ w # v /\ w \in Crowd(l)
      BY <2>2, <2>5, <1>1, Alone
    <3> QED
      BY <3>1, <1>0, <1>1, <1>2 DEF CountsHold
  <2> QED
    BY <2>2, <2>3, <2>4, <2>5
<1>4. CASE link[l].state = "gone"
  <2>1. visit' = [visit EXCEPT ![v] = NoVisit] /\ link' = link /\ opened' = opened /\ late' = late
    BY <1>1, <1>4 DEF RegisterAccess, linkHistory
  <2>2. /\ visit' \in [Visitors -> Visits] /\ visit'[v].pc = "idle"
        /\ \A w \in Visitors \ {v} : visit'[w] = visit[w]
    BY <1>0, <2>1, NoVisitType DEF SharingTypeOK
  <2>3. SharingTypeOK'
    BY <1>0, <2>1, <2>2, CrowdedIsBoolean DEF SharingTypeOK
  <2>4. VisitsHold'
    BY <1>0, <2>1, <2>2 DEF VisitsHold
  <2>5. \A m \in Links : Cardinality(Crowd(m)') <= Cardinality(Crowd(m))
    BY <2>2, <1>3, CrowdFinite
  <2>6. LateBound'
    BY <1>0, <2>1, <2>5, CrowdFinite, CrowdFiniteNext DEF LateBound, Valid, SharingTypeOK
  <2>7. CountsHold'
    BY <1>0, <2>1, <2>2, <1>3, Alone DEF CountsHold
  <2> QED
    BY <2>3, <2>4, <2>6, <2>7 DEF SharingInv
<1>5. CASE link[l].state # "gone"
  <2> DEFINE row == [link[l] EXCEPT !.views = visit[v].views + 1]
             now == [visit[v] EXCEPT !.pc = "admitted"]
             more == IF Valid(l) THEN 0 ELSE 1
  <2>1. /\ visit' = [visit EXCEPT ![v] = now] /\ link' = [link EXCEPT ![l] = row]
        /\ opened' = [opened EXCEPT ![l] = opened[l] + 1]
        /\ late' = [late EXCEPT ![l] = late[l] + more]
    BY <1>1, <1>5 DEF RegisterAccess
  <2>2. /\ row \in LinkRows /\ row.of = link[l].of /\ row.state = link[l].state
        /\ row.download = link[l].download /\ row.expired = link[l].expired
        /\ row.views = visit[v].views + 1
    BY <1>1 DEF LinkRows, Visits
  <2>3. /\ now \in Visits /\ now.pc = "admitted" /\ now.link = visit[v].link
        /\ now.doc = visit[v].doc /\ now.file = visit[v].file
    BY <1>1 DEF Visits
  <2>4. visit[v].views \in Nat /\ more \in {0, 1} /\ (Valid(l) => more = 0) /\ (~Valid(l) => more = 1)
    BY <1>1 DEF Visits
  <2> HIDE DEF row, now, more
  <2>5. /\ visit' \in [Visitors -> Visits] /\ visit'[v] = now
        /\ \A w \in Visitors \ {v} : visit'[w] = visit[w]
        /\ link'[l] = row /\ \A m \in Links \ {l} : link'[m] = link[m]
        /\ opened'[l] = opened[l] + 1 /\ \A m \in Links \ {l} : opened'[m] = opened[m]
        /\ late'[l] = late[l] + more /\ \A m \in Links \ {l} : late'[m] = late[m]
    BY <1>0, <1>1, <2>1, <2>3 DEF SharingTypeOK
  <2>6. SharingTypeOK'
    BY <1>0, <1>1, <2>1, <2>2, <2>3, <2>4, CrowdedIsBoolean DEF SharingTypeOK
  <2>7. VisitsHold'
    <3> SUFFICES ASSUME NEW w \in Visitors
        PROVE  LET m == visit'[w].link IN
               /\ visit'[w].pc = "resolved" => m \in Links /\ visit'[w].views <= opened'[m]
               /\ visit'[w].pc # "idle" /\ m \in Links =>
                    link'[m].state # "none" /\ visit'[w].doc = link'[m].of
                    /\ (visit'[w].file => link'[m].download)
      BY DEF VisitsHold
    <3>1. CASE w = v
      BY <3>1, <1>1, <2>2, <2>3, <2>5
    <3>2. CASE w # v
      <4>1. visit'[w] = visit[w] /\ visit[w].views \in Nat
        BY <3>2, <2>5, <1>0 DEF SharingTypeOK, Visits
      <4>2. CASE visit[w].link = l
        BY <4>1, <4>2, <1>0, <1>1, <2>2, <2>5 DEF VisitsHold
      <4>3. CASE visit[w].link # l
        BY <4>1, <4>3, <1>0, <2>5 DEF VisitsHold
      <4> QED
        BY <4>2, <4>3
    <3> QED
      BY <3>1, <3>2
  <2>8. LateBound'
    <3>1. visit'[v].pc # "resolved"
      BY <2>3, <2>5
    <3>2. /\ Cardinality(Crowd(l)') = Cardinality(Crowd(l)) - 1
          /\ \A m \in Links \ {l} : Crowd(m)' = Crowd(m)
      BY <3>1, <2>5, <1>3
    <3>3. Valid(l)' <=> Valid(l)
      BY <2>2, <2>5 DEF Valid
    <3>4. /\ Valid(l)' => late'[l] = 0
          /\ ~Valid(l)' => late'[l] + Cardinality(Crowd(l)') <= Cardinality(Visitors)
      BY <1>0, <1>1, <2>4, <2>5, <3>2, <3>3, CrowdFinite DEF LateBound
    <3>5. link'[l].state # "none"
      BY <1>1, <2>2, <2>5
    <3> QED
      BY <1>0, <2>5, <3>2, <3>4, <3>5 DEF LateBound, Valid
  <2>9. CountsHold'
    <3>1. visit'[v].pc # "resolved"
      BY <2>3, <2>5
    <3>2. /\ \A m \in Links : \A w \in Crowd(m)' : w \in Crowd(m) /\ visit'[w] = visit[w]
          /\ \A m \in Links : ~crowded' => \A w \in Crowd(m)' : m # l
      BY <3>1, <2>5, <1>3
    <3>3. link'[l].views <= opened'[l]
      BY <1>1, <2>2, <2>4, <2>5
    <3>4. ASSUME ~crowded' PROVE link'[l].views = opened'[l]
      BY <3>4, <1>0, <1>1, <1>2, <2>2, <2>5, Alone DEF CountsHold
    <3>5. \A m \in Links : ~crowded' => \A w, u \in Crowd(m)' : w = u /\ visit'[w].views = link'[m].views
      BY <1>0, <3>2, <2>5, Alone DEF CountsHold
    <3> QED
      BY <1>0, <2>5, <3>3, <3>4, <3>5, Alone DEF CountsHold
  <2> QED
    BY <2>6, <2>7, <2>8, <2>9 DEF SharingInv
<1> QED
  BY <1>4, <1>5

LEMMA SharingInitially == SharingInit => SharingInv
<1> SUFFICES ASSUME SharingInit PROVE SharingInv
  OBVIOUS
<1>1. /\ link = [l \in Links |-> NoLink] /\ visit = [v \in Visitors |-> NoVisit]
      /\ opened = [l \in Links |-> 0] /\ late = [l \in Links |-> 0] /\ crowded = FALSE
  BY DEF SharingInit
<1>2. NoLink \in LinkRows /\ NoLink.state = "none" /\ NoLink.views = 0
  BY DEF NoLink, LinkRows
<1>3. SharingTypeOK
  BY <1>1, <1>2, NoVisitType DEF SharingTypeOK
<1>4. VisitsHold
  BY <1>1, NoVisitType DEF VisitsHold
<1>5. LateBound
  BY <1>1, <1>2 DEF LateBound
<1>6. CountsHold
  BY <1>1, <1>2, NoVisitType DEF CountsHold, Crowd
<1> QED
  BY <1>3, <1>4, <1>5, <1>6 DEF SharingInv

LEMMA SharingStep == SharingInv /\ [WorkspaceNext]_workspaceVars => SharingInv'
<1> SUFFICES ASSUME SharingInv, [WorkspaceNext]_workspaceVars PROVE SharingInv'
  OBVIOUS
<1>1. CASE UNCHANGED workspaceVars
  <2>1. /\ link' = link /\ visit' = visit /\ opened' = opened /\ late' = late
        /\ crowded' = crowded
    BY <1>1 DEF workspaceVars, liveVars, linkHistory
  <2> QED
    BY <2>1 DEF SharingInv, SharingTypeOK, VisitsHold, LateBound, CountsHold, Valid, Crowd
<1>2. CASE WorkspaceNext
  <2>n. NoteCrowd
    BY <1>2 DEF WorkspaceNext, OrderExport, PassOn, RunExport, StopExport, RemoveResult, Upload,
                GiveUp, RemoveDocument, Offer, Sign, Visit, WorkElsewhere, BeginErase,
                EraseDocument, ListExports, EraseExport, PassOver, CommitErase, CommitRefused, StopErase,
                InExports, InSharing, NoteTrouble
  <2>1. ASSUME NEW e \in ExportIds, OrderExport(e) \/ PassOn(e) \/ RunExport(e) \/ StopExport(e)
        PROVE  SharingInv'
    BY <2>1, <2>n, SharingStutter DEF OrderExport, PassOn, RunExport, StopExport, InExports
  <2>2. ASSUME NEW r \in Results, RemoveResult(r) PROVE SharingInv'
    BY <2>2, <2>n, SharingStutter DEF RemoveResult, InExports
  <2>3. ASSUME NEW d \in Docs, Upload(d) \/ GiveUp(d) PROVE SharingInv'
    BY <2>3, <2>n, SharingStutter DEF Upload, GiveUp, Abandon, PutDocument, InsertDocument
  <2>4. ASSUME NEW d \in Docs, RemoveDocument(d) PROVE SharingInv'
    <3>1. CASE DeleteFile(d)
      BY <3>1, <2>n, SharingStutter DEF DeleteFile
    <3>2. CASE DeleteRow(d)
      BY <3>2, <2>n, CloseLinksStep DEF DeleteRow
    <3> QED
      BY <2>4, <3>1, <3>2 DEF RemoveDocument
  <2>5. ASSUME NEW l \in Links, Offer(l) PROVE SharingInv'
    BY <2>5, <2>n, CreateShareStep, RevokeStep DEF Offer
  <2>6. ASSUME NEW d \in Docs, Sign(d) PROVE SharingInv'
    BY <2>6, <2>n, SharingStutter DEF Sign, CreateUrl, UrlExpires
  <2>7. ASSUME NEW v \in Visitors, Visit(v) PROVE SharingInv'
    BY <2>7, <2>n, ResolveStep, RegisterStep, RedeemStep, ServeStep DEF Visit
  <2>8. CASE \/ WorkElsewhere \/ BeginErase \/ ListExports \/ PassOver \/ CommitRefused
             \/ StopErase
             \/ \E d \in Docs : EraseDocument(d)
             \/ \E e \in ExportIds : EraseExport(e)
    BY <2>8, <2>n, SharingStutter DEF WorkElsewhere, BeginErase, ListExports, PassOver, CommitRefused,
                   StopErase, EraseDocument, EraseExport
  <2>9. CASE CommitErase
    BY <2>9, <2>n, CloseLinksStep DEF CommitErase
  <2> QED
    BY <1>2, <2>1, <2>2, <2>3, <2>4, <2>5, <2>6, <2>7, <2>8, <2>9 DEF WorkspaceNext
<1> QED
  BY <1>1, <1>2

\* A link opens its own document and the file only where it may; no more accesses come late
\* than there are visitors; and visitors that do not meet are all counted.
THEOREM LinksHold == WorkspaceSpec => []SharesHold
<1>1. WorkspaceInit => SharingInv
  BY SharingInitially DEF WorkspaceInit
<1>2. SharingInv => SharesHold
  <2> SUFFICES ASSUME SharingInv PROVE SharesHold
    OBVIOUS
  <2>1. \A v \in Visitors : LET l == visit[v].link IN
         visit[v].pc = "admitted" /\ l \in Links =>
            visit[v].doc = link[l].of /\ (visit[v].file => link[l].download)
    BY DEF SharingInv, VisitsHold
  <2>2. ASSUME NEW l \in Links PROVE late[l] <= Cardinality(Visitors)
    <3>1. late[l] \in Nat
      BY DEF SharingInv, SharingTypeOK
    <3> QED
      BY <3>1, CrowdFinite DEF SharingInv, LateBound
  <2>3. \A l \in Links : link[l].views <= opened[l] /\ (~crowded => link[l].views = opened[l])
    BY DEF SharingInv, CountsHold
  <2> QED
    BY <2>1, <2>2, <2>3 DEF SharesHold
<1> QED
  BY <1>1, <1>2, SharingStep, PTL DEF WorkspaceSpec

-----------------------------------------------------------------------------
(* The files and the erasure, for any number of documents and exports. *)

WorkLabels == Working \cup {"none", "over"}
ExportRows == [of : Results \cup {NoResult},
               status : {"none", "pending", "running", "done", "failed", "gone"}]
Handlings == {"none", "uploading", "deleting", "halted"}
Erasures == [pc : {"idle", "documents", "exports", "over", "refused"},
             docs : SUBSET Docs, exports : SUBSET ExportIds]

ExportTypeOK ==
    /\ result \in [Results -> {"there", "gone"}] /\ export \in [ExportIds -> ExportRows]
    /\ made \subseteq ExportIds /\ work \in [ExportIds -> WorkLabels] /\ mishaps \in Nat
WorkspaceTypeOK ==
    /\ ExportTypeOK
    /\ paper \in [Docs -> {"none", "there", "gone"}] /\ bytes \subseteq Docs
    /\ handling \in [Docs -> Handlings]
    /\ org \in {"there", "gone"} /\ logged \in BOOLEAN /\ elsewhere \in BOOLEAN
    /\ appendOnly \in BOOLEAN
    /\ troubled \in BOOLEAN /\ erase \in Erasures

\* Where each file is on its way between the storage and the row.
ExportFileInv(e) ==
    /\ erase.pc = "idle" /\ (work[e] = "stored" \/ Readable(e)) => e \in made
    /\ mishaps = 0 /\ e \in made =>
         \/ work[e] = "stored"
         \/ work[e] = "over" /\ export[e].status \in {"done", "failed", "gone"}
         \/ work[e] = "failing"
    /\ Readable(e) => work[e] = "over"
    /\ export[e].status = "none" => work[e] = "none"
DocumentFileInv(d) ==
    /\ handling[d] = "uploading" => paper[d] = "none"
    /\ handling[d] \in {"deleting", "halted"} => paper[d] # "none"
    /\ erase.pc = "idle" /\ (handling[d] = "uploading" \/ (paper[d] = "there" /\ handling[d] = "none"))
         => d \in bytes
    /\ d \in bytes /\ ~InHand(d) => paper[d] # "none"
FilesInv == (\A e \in ExportIds : ExportFileInv(e)) /\ (\A d \in Docs : DocumentFileInv(d))

\* An organization that is gone has no rows; the erasure is over exactly then.
GoneInv ==
    /\ erase.pc = "over" <=> org = "gone"
    /\ org = "gone" => /\ \A e \in ExportIds : ~HasRow(e)
                       /\ \A d \in Docs : paper[d] # "there"
                       /\ \A r \in Results : result[r] = "gone"

\* As long as nothing has met the erasure it has yet to delete every file there is.
UntroubledInv ==
    ~troubled =>
        /\ mishaps = 0
        /\ Erasing \/ org = "gone" => ~Busy
        /\ org = "there" => Strays = {}
        /\ erase.pc = "documents" => bytes \subseteq erase.docs
        /\ erase.pc = "exports" => bytes = {} /\ made \subseteq erase.exports
        /\ org = "gone" => bytes = {} /\ made = {}

\* Files wait to be deleted in their phase only, and an erasure does not fail without reason.
ErasureInv ==
    /\ erase.docs # {} => erase.pc = "documents"
    /\ erase.exports # {} => erase.pc = "exports"
    /\ erase.pc = "refused" => mishaps > 0 \/ Forbidden

WorkspaceInv == WorkspaceTypeOK /\ FilesInv /\ GoneInv /\ UntroubledInv /\ ErasureInv

LEMMA WithStatus ==
    ASSUME NEW row \in ExportRows,
           NEW s \in {"none", "pending", "running", "done", "failed", "gone"}
    PROVE  /\ [row EXCEPT !.status = s] \in ExportRows
           /\ [row EXCEPT !.status = s].status = s /\ [row EXCEPT !.status = s].of = row.of
BY DEF ExportRows

\* What a step that is noted leaves untroubled.
LEMMA Untroubled ==
    ASSUME NoteTrouble, ~troubled', mishaps' \in Nat
    PROVE  /\ ~troubled /\ mishaps' = 0
           /\ Erasing' => ~Busy'
           /\ org' = "there" => Strays' = {}
<1>1. ~troubled /\ ~(mishaps' > 0) /\ ~(Erasing' /\ Busy') /\ ~(org' = "there" /\ Strays' # {})
  BY DEF NoteTrouble
<1> QED
  BY <1>1

LEMMA TroubledIsBoolean == NoteTrouble /\ troubled \in BOOLEAN => troubled' \in BOOLEAN
BY DEF NoteTrouble

\* A request or a worker goes one step on with its export.
LEMMA ExportStep ==
    ASSUME WorkspaceInv, NoteTrouble, NEW e \in ExportIds,
           UNCHANGED <<result, documentVars, org, elsewhere, appendOnly, erase>>,
           logged' \in BOOLEAN, logged => logged', mishaps' \in Nat, mishaps' >= mishaps,
           export' \in [ExportIds -> ExportRows], work' \in [ExportIds -> WorkLabels],
           \A f \in ExportIds \ {e} : export'[f] = export[f] /\ work'[f] = work[f],
           made' = made \/ made' = made \cup {e},
           ExportFileInv(e)',
           work[e] \in Working \/ (org = "there" /\ work'[e] \in Working),
           HasRow(e)' => HasRow(e) \/ org = "there"
    PROVE  WorkspaceInv'
<1>0. WorkspaceTypeOK /\ FilesInv /\ GoneInv /\ UntroubledInv /\ ErasureInv
  BY DEF WorkspaceInv
<1>t. ExportTypeOK /\ mishaps \in Nat /\ made \subseteq ExportIds
  BY <1>0 DEF WorkspaceTypeOK, ExportTypeOK
<1>a. /\ result' = result /\ paper' = paper /\ bytes' = bytes /\ handling' = handling
      /\ org' = org /\ elsewhere' = elsewhere /\ appendOnly' = appendOnly /\ erase' = erase
  BY DEF documentVars
<1>1. WorkspaceTypeOK'
  <2>1. ExportTypeOK'
    BY <1>t, <1>a DEF ExportTypeOK
  <2> QED
    BY <1>0, <2>1, <1>a, TroubledIsBoolean DEF WorkspaceTypeOK
<1>2. FilesInv'
  <2>1. \A f \in ExportIds \ {e} : ExportFileInv(f)'
    BY <1>0, <1>t, <1>a DEF FilesInv, ExportFileInv, Readable
  <2>2. \A d \in Docs : DocumentFileInv(d)'
    BY <1>0, <1>a DEF FilesInv, DocumentFileInv, InHand
  <2> QED
    BY <2>1, <2>2 DEF FilesInv
<1>3. GoneInv'
  BY <1>0, <1>a DEF GoneInv, HasRow
<1>4. UntroubledInv'
  <2> SUFFICES ASSUME ~troubled' PROVE UntroubledInv'
    BY DEF UntroubledInv
  <2>1. ~troubled /\ mishaps' = 0 /\ (Erasing' => ~Busy') /\ (org' = "there" => Strays' = {})
    BY Untroubled
  <2>2. ~Erasing /\ org # "gone"
    <3>1. Erasing' = Erasing
      BY <1>a DEF Erasing
    <3>2. Erasing => ~(work'[e] \in Working)
      BY <2>1, <3>1 DEF Busy, InHand
    <3>3. Erasing \/ org = "gone" => ~(work[e] \in Working)
      BY <1>0, <2>1 DEF UntroubledInv, Busy, InHand
    <3> QED
      BY <3>2, <3>3
  <2> QED
    BY <1>a, <2>1, <2>2 DEF UntroubledInv, Erasing
<1>5. ErasureInv'
  BY <1>0, <1>t, <1>a DEF ErasureInv, Forbidden
<1> QED
  BY <1>1, <1>2, <1>3, <1>4, <1>5 DEF WorkspaceInv

\* A document goes one step on in its upload or deletion.
LEMMA DocumentStep ==
    ASSUME WorkspaceInv, NoteTrouble, NEW d \in Docs,
           UNCHANGED <<exportVars, org, elsewhere, appendOnly, erase>>,
           logged' \in BOOLEAN, logged => logged',
           paper' \in [Docs -> {"none", "there", "gone"}],
           handling' \in [Docs -> Handlings],
           \A c \in Docs \ {d} : paper'[c] = paper[c] /\ handling'[c] = handling[c],
           bytes' \subseteq bytes \cup {d}, bytes \subseteq bytes' \cup {d},
           DocumentFileInv(d)',
           InHand(d) \/ (org = "there" /\ InHand(d)'),
           paper'[d] = "there" => org = "there"
    PROVE  WorkspaceInv'
<1>0. WorkspaceTypeOK /\ FilesInv /\ GoneInv /\ UntroubledInv /\ ErasureInv
  BY DEF WorkspaceInv
<1>t. ExportTypeOK /\ mishaps \in Nat /\ bytes \subseteq Docs
  BY <1>0 DEF WorkspaceTypeOK, ExportTypeOK
<1>a. /\ result' = result /\ export' = export /\ made' = made /\ work' = work /\ mishaps' = mishaps
      /\ org' = org /\ elsewhere' = elsewhere /\ appendOnly' = appendOnly /\ erase' = erase
  BY DEF exportVars
<1>1. WorkspaceTypeOK'
  <2>1. ExportTypeOK'
    BY <1>t, <1>a DEF ExportTypeOK
  <2> QED
    BY <1>0, <1>t, <2>1, <1>a, TroubledIsBoolean DEF WorkspaceTypeOK
<1>2. FilesInv'
  <2>1. \A f \in ExportIds : ExportFileInv(f)'
    BY <1>0, <1>a DEF FilesInv, ExportFileInv, Readable
  <2>2. \A c \in Docs \ {d} : DocumentFileInv(c)'
    BY <1>0, <1>a DEF FilesInv, DocumentFileInv, InHand
  <2> QED
    BY <2>1, <2>2 DEF FilesInv
<1>3. GoneInv'
  BY <1>0, <1>a DEF GoneInv, HasRow
<1>4. UntroubledInv'
  <2> SUFFICES ASSUME ~troubled' PROVE UntroubledInv'
    BY DEF UntroubledInv
  <2>1. ~troubled /\ mishaps' = 0 /\ (Erasing' => ~Busy') /\ (org' = "there" => Strays' = {})
    BY <1>t, <1>a, Untroubled
  <2>2. ~Erasing /\ org # "gone"
    <3>1. Erasing' = Erasing
      BY <1>a DEF Erasing
    <3>2. Erasing => ~InHand(d)'
      BY <2>1, <3>1 DEF Busy, InHand
    <3>3. Erasing \/ org = "gone" => ~InHand(d)
      BY <1>0, <2>1 DEF UntroubledInv, Busy, InHand
    <3> QED
      BY <3>2, <3>3
  <2> QED
    BY <1>a, <2>1, <2>2 DEF UntroubledInv, Erasing
<1>5. ErasureInv'
  BY <1>0, <1>t, <1>a DEF ErasureInv, Forbidden
<1> QED
  BY <1>1, <1>2, <1>3, <1>4, <1>5 DEF WorkspaceInv

\* Nothing but links and visitors, and what is written about them.
LEMMA SharingOnlyStep ==
    ASSUME WorkspaceInv, NoteTrouble, logged' \in BOOLEAN, logged => logged',
           UNCHANGED <<exportVars, documentVars, org, elsewhere, appendOnly, erase>>
    PROVE  WorkspaceInv'
<1>0. WorkspaceTypeOK /\ FilesInv /\ GoneInv /\ UntroubledInv /\ ErasureInv
  BY DEF WorkspaceInv
<1>a. /\ result' = result /\ export' = export /\ made' = made /\ work' = work /\ mishaps' = mishaps
      /\ paper' = paper /\ bytes' = bytes /\ handling' = handling
      /\ org' = org /\ elsewhere' = elsewhere /\ appendOnly' = appendOnly /\ erase' = erase
  BY DEF exportVars, documentVars
<1>1. WorkspaceTypeOK'
  BY <1>0, <1>a, TroubledIsBoolean DEF WorkspaceTypeOK, ExportTypeOK
<1>2. FilesInv'
  BY <1>0, <1>a DEF FilesInv, ExportFileInv, DocumentFileInv, InHand, Readable
<1>3. GoneInv'
  BY <1>0, <1>a DEF GoneInv, HasRow
<1>4. UntroubledInv'
  BY <1>0, <1>a DEF UntroubledInv, NoteTrouble, Erasing, Busy, InHand, Strays
<1>5. ErasureInv'
  BY <1>0, <1>a DEF ErasureInv, Forbidden
<1> QED
  BY <1>1, <1>2, <1>3, <1>4, <1>5 DEF WorkspaceInv

\* What is written about the user elsewhere disturbs nothing here.
LEMMA WorkElsewhereStep ==
    ASSUME WorkspaceInv, WorkElsewhere
    PROVE  WorkspaceInv'
<1>0. WorkspaceTypeOK /\ FilesInv /\ GoneInv /\ UntroubledInv /\ ErasureInv
  BY DEF WorkspaceInv
<1>a. /\ result' = result /\ export' = export /\ made' = made /\ work' = work /\ mishaps' = mishaps
      /\ paper' = paper /\ bytes' = bytes /\ handling' = handling /\ logged' = logged
      /\ org' = org /\ elsewhere' = TRUE /\ appendOnly' = appendOnly /\ erase' = erase
      /\ NoteTrouble
  BY DEF WorkElsewhere, exportVars, documentVars
<1>1. WorkspaceTypeOK'
  BY <1>0, <1>a, TroubledIsBoolean DEF WorkspaceTypeOK, ExportTypeOK
<1>2. FilesInv'
  BY <1>0, <1>a DEF FilesInv, ExportFileInv, DocumentFileInv, InHand, Readable
<1>3. GoneInv'
  BY <1>0, <1>a DEF GoneInv, HasRow
<1>4. UntroubledInv'
  BY <1>0, <1>a DEF UntroubledInv, NoteTrouble, Erasing, Busy, InHand, Strays
<1>5. ErasureInv'
  BY <1>0, <1>a DEF ErasureInv, Forbidden
<1> QED
  BY <1>1, <1>2, <1>3, <1>4, <1>5 DEF WorkspaceInv

\* What one step of work does to the rows and the labels of the others.
LEMMA OneExport ==
    ASSUME ExportTypeOK, NEW e \in ExportIds, NEW row \in ExportRows, NEW pc \in WorkLabels,
           export' = [export EXCEPT ![e] = row] \/ (export' = export /\ row = export[e]), GoOn(e, pc)
    PROVE  /\ export' \in [ExportIds -> ExportRows] /\ work' \in [ExportIds -> WorkLabels]
           /\ \A f \in ExportIds \ {e} : export'[f] = export[f] /\ work'[f] = work[f]
           /\ export'[e] = row /\ work'[e] = pc
BY DEF ExportTypeOK, GoOn

LEMMA ExportActions ==
    ASSUME WorkspaceInv, NEW e \in ExportIds,
           OrderExport(e) \/ PassOn(e) \/ RunExport(e) \/ StopExport(e)
    PROVE  WorkspaceInv'
<1>0. WorkspaceTypeOK /\ FilesInv /\ GoneInv
  BY DEF WorkspaceInv
<1>t. /\ ExportTypeOK /\ mishaps \in Nat /\ made \subseteq ExportIds /\ logged \in BOOLEAN
      /\ export[e] \in ExportRows /\ ExportFileInv(e) /\ work[e] \in WorkLabels
  BY <1>0 DEF WorkspaceTypeOK, ExportTypeOK, FilesInv
<1>s. /\ [export[e] EXCEPT !.status = "running"] \in ExportRows
      /\ [export[e] EXCEPT !.status = "running"].status = "running"
      /\ [export[e] EXCEPT !.status = "done"] \in ExportRows
      /\ [export[e] EXCEPT !.status = "done"].status = "done"
      /\ [export[e] EXCEPT !.status = "failed"] \in ExportRows
      /\ [export[e] EXCEPT !.status = "failed"].status = "failed"
  BY <1>t, WithStatus
<1>n. /\ NoteTrouble /\ UNCHANGED <<documentVars, org, elsewhere, appendOnly, erase>>
      /\ logged' \in BOOLEAN /\ (logged => logged')
  BY <1>t DEF OrderExport, PassOn, RunExport, StopExport, InExports
<1>i. org' = org /\ erase' = erase
  BY <1>n
<1>1. ASSUME NEW r \in Results, CreateExport(e, r) PROVE WorkspaceInv'
  <2> DEFINE row == [of |-> r, status |-> "pending"]
  <2>1. row \in ExportRows /\ row.status = "pending"
    BY DEF ExportRows
  <2>2. /\ work[e] = "none" /\ result[r] = "there" /\ export' = [export EXCEPT ![e] = row]
        /\ GoOn(e, "inserted") /\ UNCHANGED <<result, made, mishaps>>
    BY <1>1 DEF CreateExport
  <2> HIDE DEF row
  <2>3. org = "there"
    BY <1>0, <2>2 DEF GoneInv, WorkspaceTypeOK
  <2>4. /\ export' \in [ExportIds -> ExportRows] /\ work' \in [ExportIds -> WorkLabels]
        /\ \A f \in ExportIds \ {e} : export'[f] = export[f] /\ work'[f] = work[f]
        /\ export'[e] = row /\ work'[e] = "inserted"
    <3>1. "inserted" \in WorkLabels
      BY DEF WorkLabels, Working
    <3> HIDE DEF WorkspaceInv
    <3> QED
      BY <1>t, <2>1, <2>2, <3>1, OneExport, Zenon
  <2>5. ExportFileInv(e)'
    BY <1>t, <1>i, <2>1, <2>2, <2>4 DEF ExportFileInv, Readable
  <2> QED
    BY <1>n, <1>t, <2>2, <2>3, <2>4, <2>5, ExportStep DEF Working
<1>2. ASSUME NEW pc \in WorkLabels, GoOn(e, pc), UNCHANGED <<result, export>>,
             mishaps' \in Nat, mishaps' >= mishaps,
             made' = made \/ (made' = made \cup {e} /\ pc = "stored"),
             work[e] \in Working, pc # "none", pc = "stored" => e \in made',
             mishaps' = 0 /\ work[e] = "stored" => pc = "failing",
             work[e] = "failing" => pc = "over" /\ (mishaps' = 0 => export[e].status = "gone")
      PROVE  WorkspaceInv'
  <2>1. /\ export' \in [ExportIds -> ExportRows] /\ work' \in [ExportIds -> WorkLabels]
        /\ \A f \in ExportIds \ {e} : export'[f] = export[f] /\ work'[f] = work[f]
        /\ export'[e] = export[e] /\ work'[e] = pc
    BY <1>2, <1>t, OneExport
  <2>2. ExportFileInv(e)'
    BY <1>t, <1>i, <1>2, <2>1 DEF ExportFileInv, Readable, Working
  <2>3. HasRow(e)' => HasRow(e)
    BY <2>1 DEF HasRow
  <2> QED
    BY <1>n, <1>t, <1>2, <2>1, <2>2, <2>3, ExportStep
<1>3. ASSUME NEW row \in ExportRows, NEW pc \in WorkLabels, GoOn(e, pc),
             export' = [export EXCEPT ![e] = row] \/ (export' = export /\ row = export[e]),
             UNCHANGED <<result, made, mishaps>>, work[e] \in Working, HasRow(e),
             \/ pc = "started" /\ work[e] = "queued" /\ row.status = "running"
             \/ pc = "over" /\ work[e] = "stored" /\ row.status = "done"
             \/ pc = "over" /\ work[e] = "failing" /\ row.status = "failed"
      PROVE  WorkspaceInv'
  <2>1. /\ export' \in [ExportIds -> ExportRows] /\ work' \in [ExportIds -> WorkLabels]
        /\ \A f \in ExportIds \ {e} : export'[f] = export[f] /\ work'[f] = work[f]
        /\ export'[e] = row /\ work'[e] = pc
    BY <1>3, <1>t, OneExport
  <2>2. ExportFileInv(e)'
    BY <1>t, <1>i, <1>3, <2>1 DEF ExportFileInv, Readable, Working, HasRow
  <2> QED
    BY <1>n, <1>t, <1>3, <2>1, <2>2, ExportStep
<1>4. CASE OrderExport(e)
  BY <1>4, <1>1 DEF OrderExport
<1>5. CASE PassOn(e)
  <2>1. work[e] = "inserted" /\ UNCHANGED <<result, export, made, mishaps>>
        /\ (GoOn(e, "queued") \/ GoOn(e, "over"))
    BY <1>5 DEF PassOn, SendMessage
  <2> QED
    BY <2>1, <1>2, <1>t DEF Working, WorkLabels
<1>6. CASE StartExport(e)
  <2>1. CASE HasRow(e)
    BY <1>6, <2>1, <1>3, <1>s DEF StartExport, Working, WorkLabels
  <2>2. CASE ~HasRow(e)
    BY <1>6, <2>2, <1>2, <1>t DEF StartExport, Working, WorkLabels
  <2> QED
    BY <2>1, <2>2
<1>7. CASE RenderResult(e)
  BY <1>7, <1>2, <1>t DEF RenderResult, Working, WorkLabels
<1>8. CASE StoreFile(e)
  BY <1>8, <1>2, <1>t DEF StoreFile, Working, WorkLabels
<1>9. CASE CommitDone(e)
  BY <1>9, <1>3, <1>s DEF CommitDone, Working, WorkLabels
<1>10. CASE RunFails(e)
  <2>1. /\ work[e] \in {"started", "rendered", "stored"}
        /\ GoOn(e, "failing") /\ UNCHANGED <<result, export, made, mishaps>>
    BY <1>10 DEF RunFails
  <2>2. ~Readable(e)
    BY <1>t, <2>1 DEF ExportFileInv
  <2> QED
    BY <2>1, <2>2, <1>2, <1>t DEF Working, WorkLabels
<1>11. CASE CommitFailed(e)
  <2>1. CASE HasRow(e)
    BY <1>11, <2>1, <1>3, <1>s DEF CommitFailed, Working, WorkLabels
  <2>2. CASE ~HasRow(e)
    <3>1. export[e].status = "gone"
      BY <1>11, <2>2, <1>t DEF CommitFailed, HasRow, ExportFileInv
    <3> QED
      BY <1>11, <2>2, <3>1, <1>2, <1>t DEF CommitFailed, Working, WorkLabels
  <2> QED
    BY <2>1, <2>2
<1>12. CASE StopExport(e)
  <2>1. /\ work[e] \in Working /\ GoOn(e, "over") /\ mishaps' = mishaps + 1
        /\ UNCHANGED <<result, export, made>>
    BY <1>12 DEF StopExport, Stop
  <2>2. mishaps' \in Nat /\ mishaps' >= mishaps /\ mishaps' # 0
    BY <1>t, <2>1
  <2> QED
    BY <1>2, <2>1, <2>2 DEF WorkLabels
<1> QED
  BY <1>4, <1>5, <1>6, <1>7, <1>8, <1>9, <1>10, <1>11, <1>12 DEF RunExport, Run

LEMMA DocumentActions ==
    ASSUME WorkspaceInv, NEW d \in Docs, Upload(d) \/ GiveUp(d) \/ RemoveDocument(d)
    PROVE  WorkspaceInv'
<1>0. WorkspaceTypeOK /\ FilesInv /\ GoneInv
  BY DEF WorkspaceInv
<1>t. /\ logged \in BOOLEAN /\ DocumentFileInv(d) /\ org \in {"there", "gone"}
      /\ paper \in [Docs -> {"none", "there", "gone"}] /\ bytes \subseteq Docs
      /\ handling \in [Docs -> Handlings]
  BY <1>0 DEF WorkspaceTypeOK, FilesInv
<1>n. /\ NoteTrouble /\ UNCHANGED <<exportVars, org, elsewhere, appendOnly, erase>>
      /\ logged' \in BOOLEAN /\ (logged => logged')
  BY <1>t DEF Upload, GiveUp, RemoveDocument, InSharing
<1>i. org' = org /\ erase' = erase
  BY <1>n
<1>g. org = "gone" => paper[d] # "there"
  BY <1>0 DEF GoneInv
<1>1. CASE PutDocument(d) /\ org = "there"
  <2>1. /\ paper' \in [Docs -> {"none", "there", "gone"}]
        /\ handling' \in [Docs -> Handlings]
        /\ \A c \in Docs \ {d} : paper'[c] = paper[c] /\ handling'[c] = handling[c]
        /\ paper[d] = "none" /\ paper'[d] = "none" /\ handling'[d] = "uploading"
        /\ bytes' = bytes \cup {d}
    BY <1>1, <1>t DEF PutDocument, Handlings
  <2>2. DocumentFileInv(d)'
    BY <2>1 DEF DocumentFileInv, InHand
  <2> QED
    BY <1>n, <1>1, <2>1, <2>2, DocumentStep DEF InHand
<1>2. CASE InsertDocument(d) /\ org = "there"
  <2>1. /\ paper' \in [Docs -> {"none", "there", "gone"}]
        /\ handling' \in [Docs -> Handlings]
        /\ \A c \in Docs \ {d} : paper'[c] = paper[c] /\ handling'[c] = handling[c]
        /\ handling[d] = "uploading" /\ paper'[d] = "there" /\ handling'[d] = "none"
        /\ bytes' = bytes
    BY <1>2, <1>t DEF InsertDocument, Handlings
  <2>2. DocumentFileInv(d)'
    BY <1>t, <1>i, <2>1 DEF DocumentFileInv, InHand
  <2> QED
    BY <1>n, <1>2, <2>1, <2>2, DocumentStep DEF InHand
<1>6. CASE Abandon(d) /\ handling[d] = "deleting"
  <2>1. /\ paper' \in [Docs -> {"none", "there", "gone"}]
        /\ handling' \in [Docs -> Handlings]
        /\ \A c \in Docs \ {d} : paper'[c] = paper[c] /\ handling'[c] = handling[c]
        /\ handling[d] = "deleting" /\ paper'[d] = paper[d] /\ handling'[d] = "halted"
        /\ bytes' = bytes
    BY <1>6, <1>t DEF Abandon, Handlings
  <2>2. DocumentFileInv(d)'
    BY <1>t, <1>i, <2>1 DEF DocumentFileInv, InHand
  <2> QED
    BY <1>n, <1>g, <1>6, <2>1, <2>2, <1>t, DocumentStep DEF InHand
<1>3. CASE Abandon(d) /\ handling[d] = "uploading"
  <2>1. /\ paper' \in [Docs -> {"none", "there", "gone"}]
        /\ handling' \in [Docs -> Handlings]
        /\ \A c \in Docs \ {d} : paper'[c] = paper[c] /\ handling'[c] = handling[c]
        /\ handling[d] = "uploading" /\ paper'[d] = "gone" /\ handling'[d] = "none"
        /\ bytes' = bytes
    BY <1>3, <1>t DEF Abandon, Handlings
  <2>2. DocumentFileInv(d)'
    BY <1>t, <1>i, <2>1 DEF DocumentFileInv, InHand
  <2> QED
    BY <1>n, <1>3, <2>1, <2>2, DocumentStep DEF InHand
<1>4. CASE DeleteFile(d)
  <2>1. /\ paper' \in [Docs -> {"none", "there", "gone"}]
        /\ handling' \in [Docs -> Handlings]
        /\ \A c \in Docs \ {d} : paper'[c] = paper[c] /\ handling'[c] = handling[c]
        /\ paper[d] = "there" /\ paper'[d] = "there" /\ handling'[d] = "deleting"
        /\ bytes' = bytes \ {d}
    BY <1>4, <1>t DEF DeleteFile, Handlings
  <2>2. DocumentFileInv(d)'
    BY <1>t, <1>i, <2>1 DEF DocumentFileInv, InHand
  <2>3. org = "there"
    BY <1>t, <1>g, <2>1
  <2> QED
    BY <1>n, <1>4, <2>1, <2>2, <2>3, DocumentStep DEF InHand
<1>5. CASE DeleteRow(d)
  <2>1. /\ paper' \in [Docs -> {"none", "there", "gone"}]
        /\ handling' \in [Docs -> Handlings]
        /\ \A c \in Docs \ {d} : paper'[c] = paper[c] /\ handling'[c] = handling[c]
        /\ handling[d] = "deleting" /\ paper'[d] = "gone" /\ handling'[d] = "none"
        /\ bytes' = bytes
    BY <1>5, <1>t DEF DeleteRow, Handlings
  <2>2. DocumentFileInv(d)'
    BY <1>t, <1>i, <2>1 DEF DocumentFileInv, InHand
  <2> QED
    BY <1>n, <1>5, <2>1, <2>2, DocumentStep DEF InHand
<1> QED
  BY <1>1, <1>2, <1>3, <1>4, <1>5, <1>6 DEF Upload, RemoveDocument, GiveUp, Abandon

\* The rows of the exports go, their files stay: troubled, if there was one.
LEMMA RemoveResultStep ==
    ASSUME WorkspaceInv, NEW r \in Results, RemoveResult(r)
    PROVE  WorkspaceInv'
<1>0. WorkspaceTypeOK /\ FilesInv /\ GoneInv /\ UntroubledInv /\ ErasureInv
  BY DEF WorkspaceInv
<1>t. ExportTypeOK /\ mishaps \in Nat /\ logged \in BOOLEAN
  BY <1>0 DEF WorkspaceTypeOK, ExportTypeOK
<1>1. /\ NoteTrouble /\ logged' = logged /\ UNCHANGED <<documentVars, org, elsewhere, appendOnly, erase>>
  BY <1>t DEF RemoveResult, InExports
<1>a. /\ paper' = paper /\ bytes' = bytes /\ handling' = handling /\ made' = made
      /\ work' = work /\ mishaps' = mishaps /\ logged' = logged
      /\ org' = org /\ elsewhere' = elsewhere /\ appendOnly' = appendOnly /\ erase' = erase
      /\ result' = [result EXCEPT ![r] = "gone"] /\ result[r] = "there"
      /\ export' = [e \in ExportIds |-> IF export[e].of = r /\ HasRow(e)
                                      THEN [export[e] EXCEPT !.status = "gone"] ELSE export[e]]
  BY <1>1 DEF documentVars, RemoveResult, DeleteResult
<1>b. \A e \in ExportIds : /\ export'[e] = export[e] \/ export'[e].status = "gone"
                           /\ export'[e] \in ExportRows
  BY <1>t, <1>a, WithStatus DEF ExportTypeOK
<1>2. WorkspaceTypeOK'
  <2>1. export' \in [ExportIds -> ExportRows]
    BY <1>a, <1>b
  <2>2. ExportTypeOK'
    BY <1>t, <1>a, <2>1 DEF ExportTypeOK
  <2> QED
    BY <1>0, <1>1, <1>a, <2>2, TroubledIsBoolean DEF WorkspaceTypeOK
<1>3. FilesInv'
  <2>1. ASSUME NEW e \in ExportIds PROVE ExportFileInv(e)'
    BY <1>0, <1>a, <1>b DEF FilesInv, ExportFileInv, Readable
  <2>2. \A d \in Docs : DocumentFileInv(d)'
    BY <1>0, <1>a DEF FilesInv, DocumentFileInv, InHand
  <2> QED
    BY <2>1, <2>2 DEF FilesInv
<1>4. GoneInv'
  BY <1>0, <1>a, <1>b DEF GoneInv, HasRow, WorkspaceTypeOK
<1>5. UntroubledInv'
  <2> SUFFICES ASSUME ~troubled' PROVE UntroubledInv'
    BY DEF UntroubledInv
  <2>1. ~troubled /\ mishaps' = 0 /\ (Erasing' => ~Busy') /\ (org' = "there" => Strays' = {})
    BY <1>t, <1>1, <1>a, Untroubled
  <2> QED
    BY <1>0, <1>a, <2>1 DEF UntroubledInv, Erasing, Busy, InHand
<1>6. ErasureInv'
  BY <1>0, <1>a DEF ErasureInv, Forbidden
<1> QED
  BY <1>2, <1>3, <1>4, <1>5, <1>6 DEF WorkspaceInv

\* The erasure goes on, and the organization is there: what each step has to keep.
LEMMA ErasureStep ==
    ASSUME WorkspaceInv, NoteTrouble, erase' \in Erasures,
           UNCHANGED <<result, export, work, paper, handling, org, logged, elsewhere, appendOnly>>,
           made' \subseteq made, bytes' \subseteq bytes, mishaps' \in Nat, mishaps' >= mishaps,
           org = "there", erase'.pc \in {"documents", "exports", "refused"},
           ~troubled' /\ erase'.pc = "documents" => bytes' \subseteq erase'.docs,
           ~troubled' /\ erase'.pc = "exports" => bytes' = {} /\ made' \subseteq erase'.exports,
           erase'.docs # {} => erase'.pc = "documents",
           erase'.exports # {} => erase'.pc = "exports",
           erase'.pc = "refused" => mishaps' > 0 \/ Forbidden
    PROVE  WorkspaceInv'
<1>0. WorkspaceTypeOK /\ FilesInv /\ GoneInv
  BY DEF WorkspaceInv
<1>t. ExportTypeOK /\ mishaps \in Nat
  BY <1>0 DEF WorkspaceTypeOK, ExportTypeOK
<1>1. WorkspaceTypeOK'
  <2>1. ExportTypeOK'
    BY <1>t DEF ExportTypeOK
  <2> QED
    BY <1>0, <2>1, TroubledIsBoolean DEF WorkspaceTypeOK
<1>2. FilesInv'
  <2>1. \A e \in ExportIds : ExportFileInv(e)'
    BY <1>0, <1>t DEF FilesInv, ExportFileInv, Readable
  <2>2. \A d \in Docs : DocumentFileInv(d)'
    BY <1>0 DEF FilesInv, DocumentFileInv, InHand
  <2> QED
    BY <2>1, <2>2 DEF FilesInv
<1>3. GoneInv'
  BY DEF GoneInv
<1>4. UntroubledInv'
  BY Untroubled DEF UntroubledInv
<1>5. ErasureInv'
  BY DEF ErasureInv, Forbidden
<1> QED
  BY <1>1, <1>2, <1>3, <1>4, <1>5 DEF WorkspaceInv

\* An erasure that is not over leaves the organization there, and an untroubled one is
\* complete.
LEMMA ErasureFacts ==
    ASSUME WorkspaceInv, Erasing \/ erase.pc = "idle"
    PROVE  /\ org = "there" /\ erase \in Erasures /\ mishaps \in Nat
           /\ ~troubled => Strays = {}
           /\ ~troubled /\ erase.pc = "documents" => bytes \subseteq erase.docs
           /\ ~troubled /\ erase.pc = "exports" => bytes = {} /\ made \subseteq erase.exports
BY DEF WorkspaceInv, GoneInv, UntroubledInv, WorkspaceTypeOK, ExportTypeOK, Erasing

\* Files wait to be deleted only while an erasure is under way.
LEMMA ErasingOnly == WorkspaceInv /\ (erase.docs # {} \/ erase.exports # {}) => Erasing
BY DEF WorkspaceInv, ErasureInv, Erasing

LEMMA EraseActions ==
    ASSUME WorkspaceInv,
           \/ BeginErase \/ ListExports \/ PassOver \/ CommitRefused \/ StopErase
           \/ \E d \in Docs : EraseDocument(d)
           \/ \E e \in ExportIds : EraseExport(e)
    PROVE  WorkspaceInv'
<1>0. WorkspaceTypeOK /\ FilesInv
  BY DEF WorkspaceInv
<1>t. mishaps \in Nat /\ bytes \subseteq Docs /\ made \subseteq ExportIds /\ erase \in Erasures
  BY <1>0 DEF WorkspaceTypeOK, ExportTypeOK
<1>u. \A S \in SUBSET Docs, X \in SUBSET ExportIds :
        /\ [erase EXCEPT !.docs = S] \in Erasures /\ [erase EXCEPT !.docs = S].docs = S
        /\ [erase EXCEPT !.docs = S].pc = erase.pc /\ [erase EXCEPT !.docs = S].exports = erase.exports
        /\ [erase EXCEPT !.exports = X] \in Erasures /\ [erase EXCEPT !.exports = X].exports = X
        /\ [erase EXCEPT !.exports = X].pc = erase.pc /\ [erase EXCEPT !.exports = X].docs = erase.docs
  BY <1>t DEF Erasures
<1>v. /\ erase.docs \in SUBSET Docs /\ erase.exports \in SUBSET ExportIds
      /\ erase.docs # {} => erase.pc = "documents"
      /\ erase.exports # {} => erase.pc = "exports"
  BY <1>t DEF Erasures, WorkspaceInv, ErasureInv
<1>1. CASE BeginErase
  <2> DEFINE new == [pc |-> "documents", docs |-> {d \in Docs : paper[d] = "there"}, exports |-> {}]
  <2>1. new \in Erasures /\ new.pc = "documents" /\ new.docs = {d \in Docs : paper[d] = "there"}
        /\ new.exports = {}
    BY DEF Erasures
  <2>2. /\ erase.pc = "idle" /\ erase' = new /\ NoteTrouble
        /\ UNCHANGED <<result, export, made, work, mishaps, paper, bytes, handling, org, logged, elsewhere, appendOnly>>
    BY <1>1 DEF BeginErase, exportVars, documentVars
  <2> HIDE DEF new
  <2>3. org = "there" /\ (~troubled => Strays = {})
    BY <2>2, ErasureFacts
  <2>4. ~troubled' => bytes' \subseteq erase'.docs
    <3> SUFFICES ASSUME ~troubled', NEW d \in bytes PROVE d \in erase'.docs
      BY <2>2
    <3>1. ~troubled /\ ~Busy'
      BY <1>t, <2>1, <2>2, Untroubled DEF Erasing
    <3>2. ~InHand(d) /\ d \in Docs
      BY <3>1, <1>t, <2>2 DEF Busy, InHand
    <3>3. paper[d] # "gone" /\ paper[d] # "none"
      BY <3>1, <3>2, <2>3, <1>0 DEF Strays, FilesInv, DocumentFileInv, InHand
    <3> QED
      BY <3>2, <3>3, <2>1, <2>2, <1>0 DEF WorkspaceTypeOK
  <2> QED
    BY <1>t, <2>1, <2>2, <2>3, <2>4, ErasureStep
<1>2. CASE ListExports
  <2> DEFINE new == [pc |-> "exports", docs |-> {}, exports |-> {e \in ExportIds : Readable(e)}]
  <2>1. new \in Erasures /\ new.pc = "exports" /\ new.exports = {e \in ExportIds : Readable(e)}
        /\ new.docs = {}
    BY DEF Erasures
  <2>2. /\ erase.pc = "documents" /\ erase.docs = {} /\ erase' = new /\ NoteTrouble
        /\ UNCHANGED <<result, export, made, work, mishaps, paper, bytes, handling, org, logged, elsewhere, appendOnly>>
    BY <1>2 DEF ListExports, exportVars, documentVars
  <2> HIDE DEF new
  <2>3. /\ org = "there" /\ (~troubled => Strays = {})
        /\ ~troubled /\ erase.pc = "documents" => bytes \subseteq erase.docs
    BY <2>2, ErasureFacts DEF Erasing
  <2>4. ~troubled' => bytes' = {} /\ made' \subseteq erase'.exports
    <3> SUFFICES ASSUME ~troubled' PROVE bytes = {} /\ \A e \in made : Readable(e)
      BY <1>t, <2>1, <2>2
    <3>1. ~troubled /\ mishaps = 0 /\ ~Busy'
      BY <1>t, <2>1, <2>2, Untroubled DEF Erasing
    <3>2. \A e \in made : work[e] \notin Working
      BY <3>1, <1>t, <2>2 DEF Busy, InHand
    <3>3. \A e \in made : export[e].status \notin {"gone", "failed"}
      BY <3>1, <2>3 DEF Strays
    <3> QED
      BY <3>1, <3>2, <3>3, <2>2, <2>3, <1>0, <1>t DEF FilesInv, ExportFileInv, Readable, Working
  <2> QED
    BY <1>t, <2>1, <2>2, <2>3, <2>4, ErasureStep
<1>3. ASSUME NEW d \in Docs, EraseDocument(d) PROVE WorkspaceInv'
  <2>1. /\ erase.pc = "documents" /\ NoteTrouble /\ bytes' = bytes \ {d}
        /\ erase' = [erase EXCEPT !.docs = erase.docs \ {d}]
        /\ UNCHANGED <<result, export, made, work, mishaps, paper, handling, org, logged, elsewhere, appendOnly>>
    BY <1>3 DEF EraseDocument, exportVars
  <2>2. erase' \in Erasures /\ erase'.docs = erase.docs \ {d} /\ erase'.pc = "documents"
        /\ erase'.exports = {}
    BY <1>u, <1>v, <2>1
  <2>3. org = "there" /\ (~troubled => bytes \subseteq erase.docs)
    BY <2>1, ErasureFacts DEF Erasing
  <2>4. ~troubled' => bytes' \subseteq erase'.docs
    BY <1>t, <2>1, <2>2, <2>3, Untroubled
  <2> QED
    BY <1>t, <2>1, <2>2, <2>3, <2>4, ErasureStep
<1>4. ASSUME NEW e \in ExportIds, EraseExport(e) PROVE WorkspaceInv'
  <2>1. /\ erase.pc = "exports" /\ NoteTrouble /\ made' = made \ {e}
        /\ erase' = [erase EXCEPT !.exports = erase.exports \ {e}]
        /\ UNCHANGED <<result, export, work, mishaps, paper, bytes, handling, org, logged, elsewhere, appendOnly>>
    BY <1>4 DEF EraseExport, documentVars
  <2>2. erase' \in Erasures /\ erase'.exports = erase.exports \ {e} /\ erase'.pc = "exports"
        /\ erase'.docs = {}
    BY <1>u, <1>v, <2>1
  <2>3. org = "there" /\ (~troubled => bytes = {} /\ made \subseteq erase.exports)
    BY <2>1, ErasureFacts DEF Erasing
  <2>4. ~troubled' => bytes' = {} /\ made' \subseteq erase'.exports
    BY <1>t, <2>1, <2>2, <2>3, Untroubled
  <2> QED
    BY <1>t, <2>1, <2>2, <2>3, <2>4, ErasureStep
<1>5. CASE PassOver
  <2>1. PICK S \in SUBSET Docs, X \in SUBSET ExportIds :
          \/ erase.docs # {} /\ erase' = [erase EXCEPT !.docs = S]
          \/ erase.exports # {} /\ erase' = [erase EXCEPT !.exports = X]
    BY <1>5, <1>v DEF PassOver
  <2>2. /\ NoteTrouble /\ mishaps' = mishaps + 1
        /\ UNCHANGED <<result, export, made, work, paper, bytes, handling, org, logged, elsewhere, appendOnly>>
    BY <1>5 DEF PassOver, documentVars
  <2>3. /\ erase' \in Erasures /\ erase'.pc = erase.pc
        /\ erase'.docs # {} => erase'.pc = "documents"
        /\ erase'.exports # {} => erase'.pc = "exports"
    <3>1. CASE erase.docs # {} /\ erase' = [erase EXCEPT !.docs = S]
      BY <3>1, <1>u, <1>v
    <3>2. CASE erase.exports # {} /\ erase' = [erase EXCEPT !.exports = X]
      BY <3>2, <1>u, <1>v
    <3> QED
      BY <2>1, <3>1, <3>2
  <2>4. troubled' /\ mishaps' \in Nat /\ mishaps' > 0 /\ mishaps' >= mishaps
    BY <1>t, <2>2 DEF NoteTrouble
  <2>5. Erasing /\ org = "there"
    BY <2>1, ErasingOnly, ErasureFacts
  <2> QED
    BY <2>2, <2>3, <2>4, <2>5, ErasureStep DEF Erasing
<1>6. CASE CommitRefused
  <2>1. /\ erase.pc = "exports" /\ NoteTrouble /\ Forbidden
        /\ erase' = [erase EXCEPT !.pc = "refused"]
        /\ UNCHANGED <<result, export, made, work, mishaps, paper, bytes, handling, org, logged, elsewhere, appendOnly>>
    BY <1>6 DEF CommitRefused, exportVars, documentVars
  <2>2. erase' \in Erasures /\ erase'.pc = "refused" /\ erase'.docs = {} /\ erase'.exports = {}
    <3>1. erase.docs = {} /\ erase.exports = {}
      BY <1>6, <1>v, <2>1 DEF CommitRefused
    <3> QED
      BY <1>t, <2>1, <3>1 DEF Erasures
  <2>3. org = "there"
    BY <2>1, ErasureFacts DEF Erasing
  <2> QED
    BY <1>t, <2>1, <2>2, <2>3, ErasureStep
<1>7. CASE StopErase
  <2>1. /\ Erasing /\ NoteTrouble /\ mishaps' = mishaps + 1
        /\ erase' = [NotErasing EXCEPT !.pc = "refused"]
        /\ UNCHANGED <<result, export, made, work, paper, bytes, handling, org, logged, elsewhere, appendOnly>>
    BY <1>7 DEF StopErase, documentVars
  <2>2. erase' \in Erasures /\ erase'.pc = "refused" /\ erase'.docs = {} /\ erase'.exports = {}
    BY <2>1 DEF Erasures, NotErasing
  <2>3. org = "there" /\ mishaps' \in Nat /\ mishaps' > 0 /\ mishaps' >= mishaps
    BY <1>t, <2>1, ErasureFacts
  <2> QED
    BY <2>1, <2>2, <2>3, ErasureStep
<1> QED
  BY <1>1, <1>2, <1>3, <1>4, <1>5, <1>6, <1>7

\* The commit takes all rows at once.
LEMMA CommitEraseStep ==
    ASSUME WorkspaceInv, CommitErase
    PROVE  WorkspaceInv'
<1>0. WorkspaceTypeOK /\ FilesInv /\ GoneInv /\ UntroubledInv
  BY DEF WorkspaceInv
<1>t. /\ ExportTypeOK /\ mishaps \in Nat /\ erase \in Erasures
      /\ paper \in [Docs -> {"none", "there", "gone"}]
      /\ \A e \in ExportIds : export[e] \in ExportRows
  BY <1>0 DEF WorkspaceTypeOK, ExportTypeOK
<1>1. /\ NoteTrouble /\ erase.pc = "exports" /\ erase.exports = {}
      /\ erase' = [erase EXCEPT !.pc = "over"] /\ org' = "gone" /\ logged' = FALSE
      /\ result' = [r \in Results |-> "gone"]
      /\ export' = [e \in ExportIds |-> IF HasRow(e) THEN [export[e] EXCEPT !.status = "gone"]
                                        ELSE export[e]]
      /\ paper' = [d \in Docs |-> IF paper[d] = "there" THEN "gone" ELSE paper[d]]
      /\ made' = made /\ work' = work /\ mishaps' = mishaps /\ bytes' = bytes
      /\ handling' = handling /\ elsewhere' = elsewhere /\ appendOnly' = appendOnly
  BY DEF CommitErase
<1>2. erase' \in Erasures /\ erase'.pc = "over" /\ erase'.docs = {} /\ erase'.exports = {}
  <2>1. erase.docs = {}
    BY <1>1 DEF WorkspaceInv, ErasureInv
  <2> QED
    BY <1>t, <1>1, <2>1 DEF Erasures
<1>3. \A e \in ExportIds : /\ export'[e] \in ExportRows
                           /\ IF HasRow(e) THEN export'[e].status = "gone" ELSE export'[e] = export[e]
  BY <1>t, <1>1, WithStatus
<1>4. WorkspaceTypeOK'
  <2>1. export' \in [ExportIds -> ExportRows]
    BY <1>1, <1>3
  <2>2. ExportTypeOK'
    BY <1>t, <1>1, <2>1 DEF ExportTypeOK
  <2> QED
    BY <1>0, <1>t, <1>1, <1>2, <2>2, TroubledIsBoolean DEF WorkspaceTypeOK
<1>5. FilesInv'
  <2>1. ASSUME NEW e \in ExportIds PROVE ExportFileInv(e)'
    BY <1>0, <1>1, <1>2, <1>3 DEF FilesInv, ExportFileInv, Readable, HasRow
  <2>2. ASSUME NEW d \in Docs PROVE DocumentFileInv(d)'
    BY <1>0, <1>1, <1>2 DEF FilesInv, DocumentFileInv, InHand
  <2> QED
    BY <2>1, <2>2 DEF FilesInv
<1>6. GoneInv'
  BY <1>t, <1>1, <1>2, <1>3 DEF GoneInv, HasRow
<1>7. UntroubledInv'
  <2> SUFFICES ASSUME ~troubled' PROVE UntroubledInv'
    BY DEF UntroubledInv
  <2>1. ~troubled /\ mishaps' = 0
    BY <1>t, <1>1, Untroubled
  <2>2. ~Busy /\ bytes = {} /\ made = {}
    BY <1>0, <1>1, <2>1 DEF UntroubledInv, Erasing
  <2> QED
    BY <1>1, <1>2, <2>1, <2>2 DEF UntroubledInv, Busy, InHand
<1>8. ErasureInv'
  BY <1>2 DEF ErasureInv, Forbidden
<1> QED
  BY <1>4, <1>5, <1>6, <1>7, <1>8 DEF WorkspaceInv

LEMMA WorkspaceInitially == WorkspaceInit => WorkspaceInv
<1> SUFFICES ASSUME WorkspaceInit PROVE WorkspaceInv
  OBVIOUS
<1>1. /\ result = [r \in Results |-> "there"] /\ made = {} /\ mishaps = 0
      /\ export = [e \in ExportIds |-> [of |-> NoResult, status |-> "none"]]
      /\ work = [e \in ExportIds |-> "none"]
      /\ paper = [d \in Docs |-> "none"] /\ bytes = {} /\ handling = [d \in Docs |-> "none"]
      /\ org = "there" /\ logged = FALSE /\ elsewhere = FALSE /\ appendOnly \in BOOLEAN /\ troubled = FALSE
  BY DEF WorkspaceInit, ExportsInit, SharingInit
<1>2. [of |-> NoResult, status |-> "none"] \in ExportRows
      /\ \A e \in ExportIds : export[e].status = "none"
  BY <1>1 DEF ExportRows
<1>3. erase \in Erasures /\ erase.pc = "idle" /\ erase.docs = {} /\ erase.exports = {}
  BY DEF WorkspaceInit, NotErasing, Erasures
<1>4. ExportTypeOK
  BY <1>1, <1>2 DEF ExportTypeOK, WorkLabels
<1>5. WorkspaceTypeOK
  BY <1>1, <1>3, <1>4 DEF WorkspaceTypeOK, Handlings
<1>6. FilesInv
  BY <1>1, <1>2 DEF FilesInv, ExportFileInv, DocumentFileInv, InHand, Readable
<1>7. GoneInv /\ ErasureInv
  BY <1>1, <1>3 DEF GoneInv, ErasureInv
<1>8. UntroubledInv
  BY <1>1, <1>3 DEF UntroubledInv, Erasing, Strays
<1> QED
  BY <1>5, <1>6, <1>7, <1>8 DEF WorkspaceInv

LEMMA WorkspaceStep == WorkspaceInv /\ [WorkspaceNext]_workspaceVars => WorkspaceInv'
<1> SUFFICES ASSUME WorkspaceInv, [WorkspaceNext]_workspaceVars PROVE WorkspaceInv'
  OBVIOUS
<1>l. logged \in BOOLEAN
  BY DEF WorkspaceInv, WorkspaceTypeOK
<1>1. ASSUME NEW e \in ExportIds, OrderExport(e) \/ PassOn(e) \/ RunExport(e) \/ StopExport(e)
      PROVE  WorkspaceInv'
  BY <1>1, ExportActions
<1>2. ASSUME NEW d \in Docs, Upload(d) \/ GiveUp(d) \/ RemoveDocument(d)
      PROVE  WorkspaceInv'
  BY <1>2, DocumentActions
<1>3. ASSUME NEW l \in Links, Offer(l) PROVE WorkspaceInv'
  <2>1. /\ NoteTrouble /\ logged' \in BOOLEAN /\ (logged => logged')
        /\ UNCHANGED <<exportVars, documentVars, org, elsewhere, appendOnly, erase>>
    BY <1>3, <1>l DEF Offer, InSharing, CreateShare, RevokeShare, ShareExpires
  <2> QED
    BY <2>1, SharingOnlyStep
<1>4. ASSUME NEW d \in Docs, Sign(d) PROVE WorkspaceInv'
  <2>1. /\ NoteTrouble /\ logged' \in BOOLEAN /\ (logged => logged')
        /\ UNCHANGED <<exportVars, documentVars, org, elsewhere, appendOnly, erase>>
    BY <1>4, <1>l DEF Sign, InSharing, CreateUrl, UrlExpires
  <2> QED
    BY <2>1, SharingOnlyStep
<1>5. ASSUME NEW v \in Visitors, Visit(v) PROVE WorkspaceInv'
  <2>1. /\ NoteTrouble /\ logged' \in BOOLEAN /\ (logged => logged')
        /\ UNCHANGED <<exportVars, documentVars, org, elsewhere, appendOnly, erase>>
    BY <1>5, <1>l DEF Visit, InSharing, Resolve, RegisterAccess, RedeemUrl, Serve
  <2> QED
    BY <2>1, SharingOnlyStep
<1>6. ASSUME NEW r \in Results, RemoveResult(r) PROVE WorkspaceInv'
  BY <1>6, RemoveResultStep
<1>7. CASE \/ BeginErase \/ ListExports \/ PassOver \/ CommitRefused \/ StopErase
           \/ \E d \in Docs : EraseDocument(d)
           \/ \E e \in ExportIds : EraseExport(e)
  BY <1>7, EraseActions
<1>8. CASE CommitErase
  BY <1>8, CommitEraseStep
<1>10. CASE WorkElsewhere
  BY <1>10, WorkElsewhereStep
<1>9. CASE UNCHANGED workspaceVars
  <2>1. /\ result' = result /\ export' = export /\ made' = made /\ work' = work
        /\ mishaps' = mishaps /\ paper' = paper /\ bytes' = bytes /\ handling' = handling
        /\ org' = org /\ elsewhere' = elsewhere /\ appendOnly' = appendOnly /\ erase' = erase /\ logged' = logged
        /\ troubled' = troubled
    BY <1>9 DEF workspaceVars, liveVars, documentVars
  <2> QED
    BY <2>1 DEF WorkspaceInv, WorkspaceTypeOK, ExportTypeOK, FilesInv, ExportFileInv, Readable,
                DocumentFileInv, GoneInv, HasRow, UntroubledInv, Erasing, Busy, InHand, Strays, ErasureInv,
                Forbidden
<1> HIDE DEF WorkspaceInv
<1> QED
  BY <1>1, <1>2, <1>3, <1>4, <1>5, <1>6, <1>7, <1>8, <1>9, <1>10 DEF WorkspaceNext

\* Rows, files, the log and the erasure are always what the model takes them for.
THEOREM WorkspaceTypeCorrect == WorkspaceSpec => []WorkspaceTypeOK
<1>1. WorkspaceInv => WorkspaceTypeOK
  BY DEF WorkspaceInv
<1> QED
  BY <1>1, WorkspaceInitially, WorkspaceStep, PTL DEF WorkspaceSpec

\* Outside an erasure every export that can be read has its file, and so has every document
\* that is not being deleted and whose deletion has not stopped half-way.
THEOREM FilesBehindRows == WorkspaceSpec => []RowsHaveFiles
<1>1. WorkspaceInv => RowsHaveFiles
  <2> SUFFICES ASSUME WorkspaceInv, erase.pc \in {"idle", "over"}
      PROVE  /\ \A e \in ExportIds : Readable(e) => e \in made
             /\ \A d \in Docs : paper[d] = "there" /\ handling[d] = "none" => d \in bytes
    BY DEF RowsHaveFiles
  <2>1. CASE erase.pc = "idle"
    BY <2>1 DEF WorkspaceInv, FilesInv, ExportFileInv, DocumentFileInv
  <2>2. CASE erase.pc = "over"
    BY <2>2 DEF WorkspaceInv, GoneInv, HasRow, Readable
  <2> QED
    BY <2>1, <2>2
<1> QED
  BY <1>1, WorkspaceInitially, WorkspaceStep, PTL DEF WorkspaceSpec

\* An organization that is gone has left no file behind, where no request, worker or commit
\* failed and nothing was under way; an erasure that was refused met a failure or the
\* append-only log, of this organization or of another.
THEOREM Erased == WorkspaceSpec => []ErasureIsWhole
<1>1. WorkspaceInv => ErasureIsWhole
  BY DEF WorkspaceInv, UntroubledInv, ErasureInv, ErasureIsWhole
<1> QED
  BY <1>1, WorkspaceInitially, WorkspaceStep, PTL DEF WorkspaceSpec
=============================================================================
