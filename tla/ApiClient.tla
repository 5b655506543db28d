------------------------------ MODULE ApiClient ------------------------------
(***************************************************************************)
(* The session of the web client (lib/api-client.ts, stores/authStore.ts)  *)
(* against the server of Sessions.  Each tab of the browser keeps the      *)
(* tokens in memory and writes them to the local storage, which it reads   *)
(* when it is loaded.  A call that is answered 401 waits for a refresh,    *)
(* one for all calls of the tab, and is sent again.                        *)
(*                                                                         *)
(* An access token is known by the refresh token it came with.             *)
(***************************************************************************)
EXTENDS Sessions

CONSTANTS
    Tabs,       \* tabs of one browser
    NoTab,
    Calls       \* requests of the pages to the API

ASSUME ClientAssumption == NoTab \notin Tabs \cup Handlers

VARIABLES
    lapsed,     \* tokens whose access token has expired
    kept,       \* refreshToken in the memory of each tab
    disk,       \* refreshToken in the local storage
    refreshing, \* the refresh each tab waits for: a handler, or null
    post,       \* what the client has sent to each handler: [tab, token]
    calls,      \* each call: [pc, tab, token, on], on the refresh it waits for
    leaving,    \* the logout under way in each tab: [token, arrived]
    left,       \* history: the last logout of each tab, until it signs in or is loaded again
    mixed       \* history: two tabs have held the same token, a tab was loaded while it
                \* refreshed or logged out, or a logout and a refresh of a tab have met

storeVars == <<kept, disk>>
refreshVars == <<refreshing, post>>
leaveVars == <<leaving, left>>
clientVars == <<lapsed, storeVars, refreshVars, calls, leaveVars, mixed>>

Null == NoTab
NoPost == [tab |-> NoTab, token |-> NoToken]
NoCall == [pc |-> "idle", tab |-> NoTab, token |-> NoToken, on |-> Null]
NoLogout == [token |-> NoToken, arrived |-> FALSE]

ClientInit ==
    /\ Init
    /\ lapsed = {} /\ disk = NoToken /\ mixed = FALSE
    /\ kept = [b \in Tabs |-> NoToken] /\ refreshing = [b \in Tabs |-> Null]
    /\ post = [h \in Handlers |-> NoPost] /\ calls = [c \in Calls |-> NoCall]
    /\ leaving = [b \in Tabs |-> NoLogout] /\ left = [b \in Tabs |-> NoLogout]

IsFree(h) == At(h, "idle") /\ post[h] = NoPost
SigningIn(b) == \E h \in Handlers : At(h, "authenticated") /\ post[h].tab = b

(* Every step takes note of what makes tokens meet. *)
Mix(meets) ==
    mixed' = \/ mixed \/ meets
             \/ \E a, b \in Tabs : a # b /\ kept'[a] = kept'[b] /\ kept'[a] # NoToken

(* setTokens, or clear with NoToken; the local storage follows. *)
Store(b, t) == kept' = [kept EXCEPT ![b] = t] /\ disk' = t

-----------------------------------------------------------------------------
(* Signing in; the answer may be lost. *)

StartSignIn(b, h) ==
    /\ IsFree(h) /\ kept[b] = NoToken /\ ~SigningIn(b)
    /\ Authenticate(h)
    /\ post' = [post EXCEPT ![h].tab = b]
    /\ UNCHANGED <<lapsed, storeVars, refreshing, calls, leaveVars, mixed>>

FinishSignIn(h, t) ==
    LET b == post[h].tab IN
    /\ IssueTokens(h, t)
    /\ post' = [post EXCEPT ![h] = NoPost]
    /\ \/ b # NoTab /\ Store(b, t) /\ left' = [left EXCEPT ![b] = NoLogout]
       \/ UNCHANGED <<storeVars, left>>
    /\ Mix(FALSE)
    /\ UNCHANGED <<lapsed, refreshing, calls, leaving>>

(* A tab is loaded: what it was doing is forgotten, by the tab but not by the server. *)
Reload(b) ==
    /\ kept' = [kept EXCEPT ![b] = disk]
    /\ refreshing' = [refreshing EXCEPT ![b] = Null]
    /\ post' = [h \in Handlers |-> IF post[h].tab = b THEN [post[h] EXCEPT !.tab = NoTab]
                                   ELSE post[h]]
    /\ calls' = [c \in Calls |-> IF calls[c].tab = b THEN NoCall ELSE calls[c]]
    /\ leaving' = [leaving EXCEPT ![b] = NoLogout] /\ left' = [left EXCEPT ![b] = NoLogout]
    /\ Mix(refreshing[b] # Null \/ leaving[b] # NoLogout)
    /\ UNCHANGED <<vars, lapsed, disk>>

-----------------------------------------------------------------------------
(* Calls. *)

Send(c, b) ==
    /\ calls[c].pc = "idle" /\ kept[b] # NoToken
    /\ calls' = [calls EXCEPT ![c] = [pc |-> "sent", tab |-> b, token |-> kept[b], on |-> Null]]
    /\ UNCHANGED <<vars, lapsed, storeVars, refreshVars, leaveVars, mixed>>

AccessLapses(t) ==
    /\ t \in issued \ lapsed /\ lapsed' = lapsed \cup {t}
    /\ UNCHANGED <<vars, storeVars, refreshVars, calls, leaveVars, mixed>>

(* Answered, or 401 for the second time. *)
CallEnds(c) ==
    /\ \/ calls[c].pc \in {"sent", "again"} /\ calls[c].token \notin lapsed
       \/ calls[c].pc = "again" /\ calls[c].token \in lapsed
    /\ calls' = [calls EXCEPT ![c] = NoCall]
    /\ UNCHANGED <<vars, lapsed, storeVars, refreshVars, leaveVars, mixed>>

Gets401(c) == calls[c].pc = "sent" /\ calls[c].token \in lapsed
WaitFor(c, h) == calls' = [calls EXCEPT ![c].pc = "waiting", ![c].on = h]

(* 401: the call joins the refresh under way ... *)
JoinRefresh(c) ==
    LET b == calls[c].tab IN
    /\ Gets401(c) /\ refreshing[b] # Null /\ WaitFor(c, refreshing[b])
    /\ UNCHANGED <<vars, lapsed, storeVars, refreshVars, leaveVars, mixed>>

(* ... or is rejected, as there is nothing to refresh with ... *)
NothingToRefresh(c) ==
    LET b == calls[c].tab IN
    /\ Gets401(c) /\ refreshing[b] = Null /\ kept[b] = NoToken
    /\ calls' = [calls EXCEPT ![c] = NoCall]
    /\ UNCHANGED <<vars, lapsed, storeVars, refreshVars, leaveVars, mixed>>

(* Mistake: every call refreshes for itself. *)
StartOwnRefresh(c, h) ==
    LET b == calls[c].tab IN
    /\ Gets401(c) /\ kept[b] # NoToken /\ IsFree(h)
    /\ refreshing' = [refreshing EXCEPT ![b] = h]
    /\ post' = [post EXCEPT ![h] = [tab |-> b, token |-> kept[b]]]
    /\ WaitFor(c, h)
    /\ UNCHANGED <<vars, lapsed, storeVars, leaveVars>>
    /\ Mix(leaving[b] # NoLogout)

(* ... or starts one. *)
StartClientRefresh(c, h) ==
    LET b == calls[c].tab IN
    /\ Gets401(c) /\ refreshing[b] = Null /\ kept[b] # NoToken /\ IsFree(h)
    /\ refreshing' = [refreshing EXCEPT ![b] = h]
    /\ post' = [post EXCEPT ![h] = [tab |-> b, token |-> kept[b]]]
    /\ WaitFor(c, h)
    /\ UNCHANGED <<vars, lapsed, storeVars, leaveVars>>
    /\ Mix(leaving[b] # NoLogout)

(* The answer with the new token, or none (an error, or no answer: the tab forgets its tokens).
   All calls that wait for it go on before anything else happens in the tab. *)
Settle(h, t) ==
    LET b == post[h].tab IN
    /\ post' = [post EXCEPT ![h] = NoPost]
    /\ IF b = NoTab THEN UNCHANGED <<storeVars, refreshing, calls>>
       ELSE /\ Store(b, t) /\ refreshing' = [refreshing EXCEPT ![b] = Null]
            /\ calls' = [c \in Calls |->
                 IF calls[c].on # h THEN calls[c]
                 ELSE IF t = NoToken THEN NoCall
                 ELSE [calls[c] EXCEPT !.pc = "again", !.token = t, !.on = Null]]
    /\ Mix(FALSE)
    /\ UNCHANGED <<lapsed, leaveVars>>

RefreshArrives(h) ==
    /\ At(h, "idle") /\ post[h].token # NoToken
    /\ IF post[h].token \in expired
       THEN Settle(h, NoToken) /\ UNCHANGED vars
       ELSE /\ StartRefresh(h, post[h].token) /\ Observe
            /\ UNCHANGED clientVars

RefreshEnds(h) ==
    \/ \E t \in Tokens : Rotate(h, t) /\ (Settle(h, t) \/ Settle(h, NoToken))
    \/ RevokeAll(h) /\ Settle(h, NoToken)

-----------------------------------------------------------------------------
(* Logging out: the server is told, then the tokens are forgotten, whatever it said. *)

StartLogout(b) ==
    /\ kept[b] # NoToken /\ leaving[b] = NoLogout /\ ~SigningIn(b)
    /\ leaving' = [leaving EXCEPT ![b].token = kept[b]]
    /\ UNCHANGED <<vars, lapsed, storeVars, refreshVars, calls, left>>
    /\ Mix(refreshing[b] # Null)

LogoutArrives(b, h) ==
    /\ IsFree(h) /\ leaving[b].token # NoToken /\ ~leaving[b].arrived
    /\ Logout(h, leaving[b].token)
    /\ leaving' = [leaving EXCEPT ![b].arrived = TRUE]
    /\ UNCHANGED <<lapsed, storeVars, refreshVars, calls, left, mixed>>

(* Mistake: only the local storage is cleared. *)
FinishLogoutOnDisk(b) ==
    /\ leaving[b] # NoLogout
    /\ disk' = NoToken
    /\ left' = [left EXCEPT ![b] = leaving[b]]
    /\ leaving' = [leaving EXCEPT ![b] = NoLogout]
    /\ UNCHANGED <<vars, lapsed, kept, refreshVars, calls>>
    /\ Mix(FALSE)

FinishLogout(b) ==
    /\ leaving[b] # NoLogout
    /\ Store(b, NoToken)
    /\ left' = [left EXCEPT ![b] = leaving[b]]
    /\ leaving' = [leaving EXCEPT ![b] = NoLogout]
    /\ Mix(FALSE)
    /\ UNCHANGED <<vars, lapsed, refreshVars, calls>>

ClientNext ==
    \/ \E b \in Tabs, h \in Handlers : StartSignIn(b, h) /\ Observe
    \/ \E h \in Handlers, t \in Tokens : FinishSignIn(h, t) /\ Observe
    \/ \E b \in Tabs : Reload(b)
    \/ \E c \in Calls, b \in Tabs : Send(c, b)
    \/ \E t \in Tokens : AccessLapses(t)
    \/ \E c \in Calls : CallEnds(c)
    \/ \E c \in Calls : JoinRefresh(c)
    \/ \E c \in Calls : NothingToRefresh(c)
    \/ \E c \in Calls, h \in Handlers : StartClientRefresh(c, h)
    \/ \E h \in Handlers : RefreshArrives(h)
    \/ \E h \in Handlers : SelectAfterReuse(h) /\ Observe /\ UNCHANGED clientVars
    \/ \E h \in Handlers : RefreshEnds(h) /\ Observe
    \/ \E t \in Tokens : Expire(t) /\ Observe /\ UNCHANGED clientVars
    \/ \E b \in Tabs : StartLogout(b)
    \/ \E b \in Tabs, h \in Handlers : LogoutArrives(b, h) /\ Observe
    \/ \E b \in Tabs : FinishLogout(b)

ClientSpec == ClientInit /\ [][ClientNext]_<<vars, clientVars>>

-----------------------------------------------------------------------------
(* A tab by itself never presents a token twice, so that the server does not take it for a
   thief and close the user's sessions: one refresh serves all calls that met a 401, and the
   next one has the new token. *)
NeverTakenForTheft ==
    ~mixed => \A h \in Handlers :
        At(h, "reused") \/ At(h, "revoking") => post[h].token = NoToken

(* A tab that has logged out stays so, and when the server was told, nothing the token was
   rotated to is left open. *)
LogoutHolds ==
    ~mixed => \A b \in Tabs : LET t == left[b].token IN t # NoToken =>
        /\ kept[b] = NoToken
        /\ left[b].arrived => \A u \in Live : u # t /\ parent[u] # t
=============================================================================
