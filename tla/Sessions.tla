------------------------------ MODULE Sessions ------------------------------
(***************************************************************************)
(* The sessions of one user: login, refresh token rotation with reuse      *)
(* detection, logout, and the password reset that closes every session.    *)
(*                                                                         *)
(* A request reads in one step and commits in a later one; in between      *)
(* other requests of the same user run.  Only refresh tokens are modelled: *)
(* an access token cannot be revoked and lapses after minutes.             *)
(***************************************************************************)
EXTENDS Naturals, FiniteSets

CONSTANTS
    Handlers,     \* API requests that can be open at a time
    Tokens,       \* refresh tokens, each issued at most once
    ResetTokens,  \* password reset tokens, likewise
    NoToken       \* no token

ASSUME TokensAssumption ==
    /\ IsFiniteSet(ResetTokens) /\ NoToken \notin Tokens \cup ResetTokens
    /\ Tokens \cap ResetTokens = {}

VARIABLES
    issued,     \* RefreshToken rows
    revoked,    \* those whose revoked is TRUE
    expired,    \* tokens of either kind whose expires_at has passed
    parent,     \* history: the token that each was rotated from
    era,        \* history: the password its session logged in with
    password,   \* the current password, numbered
    mailed,     \* PasswordResetToken rows
    used,       \* those whose used is TRUE
    req,        \* the open requests
    overlapped  \* history: two requests have been open at a time

sessionVars == <<issued, revoked, expired, parent, era, password, mailed, used, req>>
vars == <<sessionVars, overlapped>>
tokenVars == <<issued, revoked, parent, era>>
resetVars == <<password, mailed, used>>

Live == issued \ revoked
Labels == {"idle", "authenticated", "rotating", "reused", "revoking",
           "resetting", "closing"}

\* token is what the client sent; era the password the request has checked; seen
\* the live tokens it has loaded in order to revoke them.
Requests == [pc : Labels, token : Tokens \cup ResetTokens \cup {NoToken},
             era : Nat, seen : SUBSET Tokens]
Idle == [pc |-> "idle", token |-> NoToken, era |-> 0, seen |-> {}]

TypeOK ==
    /\ issued \in SUBSET Tokens /\ revoked \in SUBSET issued
    /\ expired \in SUBSET (Tokens \cup ResetTokens)
    /\ parent \in [Tokens -> Tokens \cup {NoToken}] /\ era \in [Tokens -> Nat]
    /\ password \in Nat
    /\ mailed \in SUBSET ResetTokens /\ used \in SUBSET mailed
    /\ req \in [Handlers -> Requests] /\ overlapped \in BOOLEAN
    /\ \A h \in Handlers :
         /\ req[h].pc \in {"rotating", "reused"} => req[h].token \in issued
         /\ req[h].pc \in {"resetting", "closing"} => req[h].token \in mailed
         /\ req[h].seen \subseteq issued

Init ==
    /\ issued = {} /\ revoked = {} /\ expired = {}
    /\ parent = [t \in Tokens |-> NoToken] /\ era = [t \in Tokens |-> 0]
    /\ password = 0 /\ mailed = {} /\ used = {} /\ overlapped = FALSE
    /\ req = [h \in Handlers |-> Idle]

At(h, label) == req[h].pc = label
Open(h, label, t) == req' = [req EXCEPT ![h] = [Idle EXCEPT !.pc = label, !.token = t]]
Close(h) == req' = [req EXCEPT ![h] = Idle]
\* The SELECT of _revoke_all_user_tokens.
SelectLive(h, label) ==
    req' = [req EXCEPT ![h].pc = label, ![h].seen = Live]

\* A new row for a session that logged in with password e.
Insert(t, from, e) ==
    /\ t \notin issued /\ issued' = issued \cup {t}
    /\ parent' = [parent EXCEPT ![t] = from] /\ era' = [era EXCEPT ![t] = e]

------------------------------------------------------------------------------
(***************************************************************************)
(* login: authenticate commits, then issue_tokens                          *)
(***************************************************************************)

\* The right password; wrong ones end the request (see Lockout).
Authenticate(h) ==
    /\ At(h, "idle")
    /\ req' = [req EXCEPT ![h] = [Idle EXCEPT !.pc = "authenticated", !.era = password]]
    /\ UNCHANGED <<tokenVars, resetVars, expired>>

IssueTokens(h, t) ==
    /\ At(h, "authenticated") /\ Insert(t, NoToken, req[h].era) /\ Close(h)
    /\ UNCHANGED <<revoked, resetVars, expired>>

------------------------------------------------------------------------------
(***************************************************************************)
(* rotate_refresh_token                                                    *)
(***************************************************************************)

\* An unknown or expired token is refused, before it is asked whether the token
\* was revoked.
StartRefresh(h, t) ==
    /\ At(h, "idle") /\ t \in issued \ expired
    /\ Open(h, IF t \in revoked THEN "reused" ELSE "rotating", t)
    /\ UNCHANGED <<tokenVars, resetVars, expired>>

\* Mistake: the old token stays valid.
RotateAndKeep(h, t) ==
    /\ At(h, "rotating") /\ Insert(t, req[h].token, era[req[h].token]) /\ Close(h)
    /\ UNCHANGED <<revoked, resetVars, expired>>

\* One commit revokes the old token and inserts the new one.  The UPDATE does not
\* ask whether the row still says what this request has read.
Rotate(h, t) ==
    /\ At(h, "rotating") /\ Insert(t, req[h].token, era[req[h].token]) /\ Close(h)
    /\ revoked' = revoked \cup {req[h].token}
    /\ UNCHANGED <<resetVars, expired>>

\* Mistake: only what the reused token itself was rotated to.
SelectSuccessors(h) ==
    /\ At(h, "reused")
    /\ req' = [req EXCEPT ![h].pc = "revoking",
                          ![h].seen = {t \in Live : parent[t] = req[h].token}]
    /\ UNCHANGED <<tokenVars, resetVars, expired>>

SelectAfterReuse(h) ==
    /\ At(h, "reused") /\ SelectLive(h, "revoking")
    /\ UNCHANGED <<tokenVars, resetVars, expired>>

RevokeAll(h) ==
    /\ At(h, "revoking") /\ revoked' = revoked \cup req[h].seen /\ Close(h)
    /\ UNCHANGED <<issued, parent, era, resetVars, expired>>

\* logout, with any token the client has kept.
Logout(h, t) ==
    /\ At(h, "idle") /\ t \in issued /\ revoked' = revoked \cup {t}
    /\ UNCHANGED <<issued, parent, era, req, resetVars, expired>>

------------------------------------------------------------------------------
(***************************************************************************)
(* forgot_password, reset_password                                         *)
(***************************************************************************)

ForgotPassword(r) ==
    /\ r \notin mailed /\ mailed' = mailed \cup {r}
    /\ UNCHANGED <<tokenVars, password, used, expired, req>>

StartReset(h, r) ==
    /\ At(h, "idle") /\ r \in mailed \ (used \cup expired)
    /\ Open(h, "resetting", r)
    /\ UNCHANGED <<tokenVars, resetVars, expired>>

\* The query flushes the new password first: the lock on the user's row makes
\* another reset wait here until this one has committed.
SelectAtReset(h) ==
    /\ At(h, "resetting") /\ ~\E g \in Handlers : At(g, "closing")
    /\ SelectLive(h, "closing")
    /\ UNCHANGED <<tokenVars, resetVars, expired>>

\* Mistake: the sessions stay open.
ResetAndKeep(h) ==
    /\ At(h, "closing") /\ password' = password + 1 /\ used' = used \cup {req[h].token}
    /\ Close(h)
    /\ UNCHANGED <<tokenVars, mailed, expired>>

ResetPassword(h) ==
    /\ At(h, "closing")
    /\ password' = password + 1 /\ used' = used \cup {req[h].token}
    /\ revoked' = revoked \cup req[h].seen
    /\ Close(h)
    /\ UNCHANGED <<issued, parent, era, mailed, expired>>

\* Time passes.
Expire(t) ==
    /\ t \in (issued \cup mailed) \ expired /\ expired' = expired \cup {t}
    /\ UNCHANGED <<tokenVars, resetVars, req>>

\* Requests of the user one at a time.
Serial == \A g, h \in Handlers : ~At(g, "idle") /\ ~At(h, "idle") => g = h

\* Every step takes note of whether requests overlap.
Observe == overlapped' = (overlapped \/ ~Serial')

GoOn(h) ==
    \/ \E t \in Tokens : IssueTokens(h, t) /\ Observe
    \/ \E t \in Tokens : Rotate(h, t) /\ Observe
    \/ SelectAfterReuse(h) /\ Observe
    \/ RevokeAll(h) /\ Observe
    \/ SelectAtReset(h) /\ Observe
    \/ ResetPassword(h) /\ Observe

Next ==
    \/ \E h \in Handlers : Authenticate(h) /\ Observe
    \/ \E h \in Handlers : GoOn(h)
    \/ \E h \in Handlers, t \in Tokens : StartRefresh(h, t) /\ Observe
    \/ \E h \in Handlers, t \in Tokens : Logout(h, t) /\ Observe
    \/ \E h \in Handlers, r \in ResetTokens : StartReset(h, r) /\ Observe
    \/ \E r \in ResetTokens : ForgotPassword(r) /\ Observe
    \/ \E t \in Tokens \cup ResetTokens : Expire(t) /\ Observe

Spec == Init /\ [][Next]_vars

------------------------------------------------------------------------------
(***************************************************************************)
(* Properties                                                              *)
(***************************************************************************)

\* A rotated token is spent: it never works beside its successor.
ParentsSpent == \A t \in issued : parent[t] # NoToken => parent[t] \in revoked

\* "Parola degisince tum oturumlari kapat", said in reset_password: no session
\* that logged in with an old password outlives it.
ResetClosesSessions == \A t \in Live : era[t] = password
\* That holds for as long as no two requests of the user have overlapped.
SerialResetCloses == ~overlapped => ResetClosesSessions

\* Requests that have not overlapped rotate a token once: who comes second with it
\* is detected as reuse.
SerialOneSuccessor == ~overlapped => \A t, u \in issued :
    parent[t] = parent[u] /\ parent[t] # NoToken => t = u

\* Likewise a reset link changes the password once.
SerialResetOnce == ~overlapped => password = Cardinality(used)

\* What a token is good for it is good for once.
TokensSpent == ParentsSpent /\ SerialOneSuccessor /\ SerialResetOnce

\* "Refresh token yeniden kullanildi; tum oturumlar kapatildi": when requests have
\* not overlapped nothing is open after reuse was detected.
SerialReuseClosesAll ==
    [][~overlapped' => \A h \in Handlers :
         At(h, "revoking") /\ At(h, "idle")' => Live' = {}]_vars
==============================================================================
