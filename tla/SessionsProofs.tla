--------------------------- MODULE SessionsProofs ---------------------------
(***************************************************************************)
(* Theorems about Sessions and ApiClient, for any number of requests,      *)
(* tokens, tabs and calls.                                                 *)
(***************************************************************************)
EXTENDS ApiClient, FiniteSetTheorems, TLAPS

USE TokensAssumption

(***************************************************************************)
(* Type correctness.                                                       *)
(***************************************************************************)

\* Every step notes whether requests overlap.
LEMMA Observed == Next => Observe
BY DEF Next, GoOn

LEMMA IdleType == Idle \in Requests /\ Idle.pc = "idle" /\ Idle.seen = {}
BY DEF Idle, Requests, Labels

\* Only issued tokens are rotated or revoked, and only mailed ones reset the password.
LEMMA TypeStep == TypeOK /\ [Next]_vars => TypeOK'
<1> SUFFICES ASSUME TypeOK, [Next]_vars PROVE TypeOK'
  OBVIOUS
<1>o. overlapped' \in BOOLEAN
  BY Observed DEF Observe, Next, TypeOK, vars
<1> USE <1>o, IdleType DEF TypeOK, At, Close, Insert, SelectLive, Open, tokenVars, resetVars,
                     Requests, Labels, Live
<1>1. ASSUME NEW h \in Handlers, Authenticate(h) PROVE TypeOK'
  BY <1>1, ZenonT(30) DEF Authenticate, Idle
<1>2. ASSUME NEW h \in Handlers, NEW t \in Tokens, IssueTokens(h, t) PROVE TypeOK'
  BY <1>2 DEF IssueTokens
<1>3. ASSUME NEW h \in Handlers, NEW t \in Tokens, StartRefresh(h, t) PROVE TypeOK'
  <2>1. [Idle EXCEPT !.pc = IF t \in revoked THEN "reused" ELSE "rotating", !.token = t]
          \in Requests
    BY DEF Idle
  <2> QED
    BY <1>3, <2>1 DEF StartRefresh, Idle
<1>4. ASSUME NEW h \in Handlers, NEW t \in Tokens, Rotate(h, t) PROVE TypeOK'
  BY <1>4 DEF Rotate
<1>5. ASSUME NEW h \in Handlers, SelectAfterReuse(h) PROVE TypeOK'
  <2>1. [req[h] EXCEPT !.pc = "revoking", !.seen = Live] \in Requests
    OBVIOUS
  <2>2. /\ req' = [req EXCEPT ![h] = [req[h] EXCEPT !.pc = "revoking", !.seen = Live]]
        /\ UNCHANGED <<issued, revoked, expired, parent, era, password, mailed, used>>
    BY <1>5 DEF SelectAfterReuse
  <2> QED
    BY <1>5, <2>1, <2>2 DEF SelectAfterReuse
<1>6. ASSUME NEW h \in Handlers, RevokeAll(h) PROVE TypeOK'
  BY <1>6 DEF RevokeAll
<1>7. ASSUME NEW h \in Handlers, NEW t \in Tokens, Logout(h, t) PROVE TypeOK'
  BY <1>7 DEF Logout
<1>8. ASSUME NEW r \in ResetTokens, ForgotPassword(r) PROVE TypeOK'
  BY <1>8 DEF ForgotPassword
<1>9. ASSUME NEW h \in Handlers, NEW r \in ResetTokens, StartReset(h, r) PROVE TypeOK'
  <2>1. [Idle EXCEPT !.pc = "resetting", !.token = r] \in Requests
    BY DEF Idle
  <2> QED
    BY <1>9, <2>1 DEF StartReset, Idle
<1>10. ASSUME NEW h \in Handlers, SelectAtReset(h) PROVE TypeOK'
  <2>1. [req[h] EXCEPT !.pc = "closing", !.seen = Live] \in Requests
    OBVIOUS
  <2>2. /\ req' = [req EXCEPT ![h] = [req[h] EXCEPT !.pc = "closing", !.seen = Live]]
        /\ UNCHANGED <<issued, revoked, expired, parent, era, password, mailed, used>>
    BY <1>10, ZenonT(30) DEF SelectAtReset
  <2> QED
    BY <1>10, <2>1, <2>2 DEF SelectAtReset
<1>11. ASSUME NEW h \in Handlers, ResetPassword(h) PROVE TypeOK'
  BY <1>11 DEF ResetPassword
<1>12. ASSUME NEW t \in Tokens \cup ResetTokens, Expire(t) PROVE TypeOK'
  BY <1>12 DEF Expire
<1>13. CASE UNCHANGED vars
  BY <1>13 DEF vars, sessionVars
<1> QED
  BY <1>1, <1>2, <1>3, <1>4, <1>5, <1>6, <1>7, <1>8, <1>9, <1>10, <1>11, <1>12, <1>13
     DEF Next, GoOn

LEMMA InitTypes == Init => TypeOK
<1> SUFFICES ASSUME Init PROVE TypeOK
  OBVIOUS
<1>1. overlapped \in BOOLEAN
  BY DEF Init
<1>2. req \in [Handlers -> Requests] /\ \A h \in Handlers : req[h] = Idle
  BY IdleType DEF Init
<1>3. /\ parent \in [Tokens -> Tokens \cup {NoToken}] /\ era \in [Tokens -> Nat]
      /\ issued = {} /\ revoked = {} /\ expired = {} /\ mailed = {} /\ used = {}
      /\ password = 0
  BY DEF Init
<1> QED
  BY <1>1, <1>2, <1>3, IdleType DEF TypeOK

\* Every variable keeps its type.
THEOREM TypeCorrect == Spec => []TypeOK
BY InitTypes, TypeStep, PTL DEF Spec

------------------------------------------------------------------------------
(***************************************************************************)
(* However requests overlap, a rotated token is spent.                     *)
(***************************************************************************)

LEMMA SpentStep == TypeOK /\ ParentsSpent /\ [Next]_vars => ParentsSpent'
<1> SUFFICES ASSUME TypeOK, ParentsSpent, [Next]_vars PROVE ParentsSpent'
  OBVIOUS
<1> USE DEF TypeOK, ParentsSpent, Insert, tokenVars
<1>1. ASSUME NEW h \in Handlers, NEW t \in Tokens, IssueTokens(h, t) PROVE ParentsSpent'
  BY <1>1 DEF IssueTokens
<1>2. ASSUME NEW h \in Handlers, NEW t \in Tokens, Rotate(h, t) PROVE ParentsSpent'
  BY <1>2 DEF Rotate
<1>3. ASSUME revoked \subseteq revoked', UNCHANGED <<issued, parent>> PROVE ParentsSpent'
  BY <1>3
<1> QED
  BY <1>1, <1>2, <1>3 DEF Next, GoOn, Authenticate, StartRefresh, SelectAfterReuse,
     RevokeAll, Logout, ForgotPassword, StartReset, SelectAtReset, ResetPassword, Expire,
     vars, sessionVars

\* No interleaving of rotations, logins, logouts and resets leaves a token that
\* was rotated valid.
THEOREM RotatedTokensAreSpent == Spec => []ParentsSpent
<1>1. Init => ParentsSpent
  BY DEF Init, ParentsSpent
<1> QED
  BY <1>1, SpentStep, TypeCorrect, PTL DEF Spec

------------------------------------------------------------------------------
(***************************************************************************)
(* Requests that do not overlap.                                           *)
(***************************************************************************)

\* The only open request has seen what still holds: what it logged in with is the
\* current password, the token it rotates has no successor yet, and every live
\* token is among those it is about to revoke.
SerialInv ==
    /\ Serial /\ ParentsSpent
    /\ ResetClosesSessions /\ password = Cardinality(used)
    /\ \A t, u \in issued : parent[t] = parent[u] /\ parent[t] # NoToken => t = u
    /\ \A h \in Handlers :
         /\ At(h, "authenticated") => req[h].era = password
         /\ At(h, "rotating") =>
              /\ era[req[h].token] = password
              /\ \A u \in issued : parent[u] # req[h].token
         /\ req[h].pc \in {"revoking", "closing"} => Live \subseteq req[h].seen
         /\ req[h].pc \in {"resetting", "closing"} => req[h].token \notin used

LEMMA SerialStep ==
    ASSUME TypeOK, ~overlapped => SerialInv, [Next]_vars, ~overlapped'
    PROVE  SerialInv'
<1>i. SerialInv
  BY Observed DEF Observe, Next, TypeOK, vars
<1>s. Serial'
  <2>1. CASE Next
    BY <2>1, Observed DEF Observe
  <2>2. CASE UNCHANGED vars
    BY <1>i, <2>2 DEF SerialInv, Serial, At, vars, sessionVars
  <2> QED
    BY <2>1, <2>2
<1>p. ParentsSpent'
  BY <1>i, SpentStep DEF SerialInv
<1> USE <1>i DEF SerialInv, TypeOK, At, Open, Close, SelectLive, Insert, tokenVars, resetVars, Live,
            ResetClosesSessions
<1>1. ASSUME NEW h \in Handlers, Authenticate(h) PROVE SerialInv'
  BY <1>1, <1>s, <1>p DEF Authenticate, Idle
<1>2. ASSUME NEW h \in Handlers, NEW t \in Tokens, IssueTokens(h, t) PROVE SerialInv'
  BY <1>2, <1>s, <1>p DEF IssueTokens, Idle, Serial, ParentsSpent
<1>3. ASSUME NEW h \in Handlers, NEW t \in Tokens, StartRefresh(h, t) PROVE SerialInv'
  BY <1>3, <1>s, <1>p DEF StartRefresh, Idle, ParentsSpent
<1>4. ASSUME NEW h \in Handlers, NEW t \in Tokens, Rotate(h, t) PROVE SerialInv'
  BY <1>4, <1>s, <1>p DEF Rotate, Idle, Serial
<1>5. ASSUME NEW h \in Handlers, SelectAfterReuse(h) PROVE SerialInv'
  BY <1>5, <1>s, <1>p DEF SelectAfterReuse
<1>6. ASSUME NEW h \in Handlers, RevokeAll(h) PROVE SerialInv'
  BY <1>6, <1>s, <1>p DEF RevokeAll, Idle
<1>7. ASSUME NEW h \in Handlers, NEW t \in Tokens, Logout(h, t) PROVE SerialInv'
  BY <1>7, <1>s, <1>p DEF Logout
<1>8. ASSUME NEW r \in ResetTokens, ForgotPassword(r) PROVE SerialInv'
  BY <1>8, <1>s, <1>p DEF ForgotPassword
<1>9. ASSUME NEW h \in Handlers, NEW r \in ResetTokens, StartReset(h, r) PROVE SerialInv'
  BY <1>9, <1>s, <1>p DEF StartReset, Idle
<1>10. ASSUME NEW h \in Handlers, SelectAtReset(h) PROVE SerialInv'
  BY <1>10, <1>s, <1>p DEF SelectAtReset
<1>11. ASSUME NEW h \in Handlers, ResetPassword(h) PROVE SerialInv'
  <2>1. \A g \in Handlers : req'[g].pc = "idle"
    BY <1>11 DEF ResetPassword, Serial, Idle
  <2>2. Live' = {}
    BY <1>11 DEF ResetPassword
  <2>3. IsFiniteSet(used) /\ req[h].token \notin used
    BY <1>11, FS_Subset DEF ResetPassword
  <2>4. Cardinality(used') = Cardinality(used) + 1
    BY <1>11, <2>3, FS_AddElement DEF ResetPassword
  <2>5. (password = Cardinality(used))' /\ ResetClosesSessions'
    BY <1>11, <2>2, <2>4 DEF ResetPassword
  <2>6. (\A t, u \in issued : parent[t] = parent[u] /\ parent[t] # NoToken => t = u)'
    BY <1>11 DEF ResetPassword
  <2> QED
    BY <1>s, <1>p, <2>1, <2>5, <2>6
<1>12. ASSUME NEW t \in Tokens \cup ResetTokens, Expire(t) PROVE SerialInv'
  BY <1>12, <1>s, <1>p DEF Expire
<1>13. CASE UNCHANGED vars
  BY <1>13, <1>s, <1>p DEF vars, sessionVars
<1> QED
  BY <1>1, <1>2, <1>3, <1>4, <1>5, <1>6, <1>7, <1>8, <1>9, <1>10, <1>11, <1>12, <1>13
     DEF Next, GoOn

\* What the only open request has seen stays true until requests overlap.
THEOREM SerialInvariant == Spec => [](TypeOK /\ (~overlapped => SerialInv))
<1>1. Init => SerialInv
  BY FS_EmptySet DEF Init, SerialInv, Serial, ParentsSpent, ResetClosesSessions, Live, At, Idle
<1>2. TypeOK /\ (~overlapped => SerialInv) /\ [Next]_vars => (~overlapped => SerialInv)'
  BY SerialStep
<1> QED
  BY <1>1, <1>2, TypeCorrect, PTL DEF Spec

\* For as long as no requests of the user have overlapped, no session outlives the
\* password it logged in with.
THEOREM ResetClosesEverySession == Spec => []SerialResetCloses
<1>1. (~overlapped => SerialInv) => SerialResetCloses
  BY DEF SerialInv, SerialResetCloses
<1> QED
  BY <1>1, SerialInvariant, PTL

\* Likewise no refresh token is rotated twice, the second use is seen as reuse; and
\* no reset link changes the password twice.
THEOREM TokensWorkOnce == Spec => [](SerialOneSuccessor /\ SerialResetOnce)
<1>1. (~overlapped => SerialInv) => SerialOneSuccessor /\ SerialResetOnce
  BY DEF SerialInv, SerialOneSuccessor, SerialResetOnce
<1> QED
  BY <1>1, SerialInvariant, PTL

\* A rotated token is spent under any interleaving, and when requests have not overlapped
\* a token of either kind works once.
THEOREM TokensAreSpent == Spec => []TokensSpent
BY RotatedTokensAreSpent, TokensWorkOnce, PTL DEF TokensSpent

\* Likewise reuse of a revoked token closes every session there is.
THEOREM ReuseClosesEverySession == Spec => SerialReuseClosesAll
<1>1. TypeOK /\ (~overlapped => SerialInv) /\ [Next]_vars
        => [~overlapped' => \A h \in Handlers :
              At(h, "revoking") /\ At(h, "idle")' => Live' = {}]_vars
  <2> SUFFICES ASSUME TypeOK, ~overlapped => SerialInv, Next, ~overlapped',
                      NEW h \in Handlers, At(h, "revoking"), At(h, "idle")'
               PROVE  Live' = {}
    BY DEF vars
  <2>1. SerialInv
    BY Observed DEF Observe, Next, TypeOK
  <2>s. Next /\ req \in [Handlers -> Requests]
    BY DEF Next, TypeOK
  <2>2. RevokeAll(h)
    BY <2>s DEF Next, GoOn, At, Requests, Idle, Open, Close, SelectLive,
       Authenticate, IssueTokens, StartRefresh, Rotate, SelectAfterReuse, RevokeAll,
       Logout, ForgotPassword, StartReset, SelectAtReset, ResetPassword, Expire
  <2> QED
    BY <2>1, <2>2 DEF RevokeAll, SerialInv, Live, At
<1> QED
  BY <1>1, SerialInvariant, PTL DEF Spec, SerialReuseClosesAll
------------------------------------------------------------------------------
(***************************************************************************)
(* The client: what it does to the server are steps of the server.         *)
(***************************************************************************)

Posts == [tab : Tabs \cup {NoTab}, token : Tokens \cup {NoToken}]
Logouts == [token : Tokens \cup {NoToken}, arrived : BOOLEAN]
ClientCalls == [pc : {"idle", "sent", "waiting", "again"}, tab : Tabs \cup {NoTab},
                token : Tokens \cup {NoToken}, on : Handlers \cup {Null}]

ClientTypeOK ==
    /\ kept \in [Tabs -> Tokens \cup {NoToken}] /\ disk \in Tokens \cup {NoToken}
    /\ refreshing \in [Tabs -> Handlers \cup {Null}]
    /\ post \in [Handlers -> Posts] /\ calls \in [Calls -> ClientCalls]
    /\ leaving \in [Tabs -> Logouts] /\ left \in [Tabs -> Logouts]
    /\ mixed \in BOOLEAN
    /\ \A c \in Calls : calls[c].pc # "idle" \/ calls[c].on # Null => calls[c].tab \in Tabs

LEMMA NothingTypes ==
    /\ NoPost \in Posts /\ NoLogout \in Logouts /\ NoCall \in ClientCalls
    /\ NoCall.pc = "idle" /\ NoCall.on = Null
BY DEF NoPost, NoLogout, NoCall, Posts, Logouts, ClientCalls, Null

\* What the client does to the server is a step of the server, or none.
LEMMA ServerStep == TypeOK /\ ClientTypeOK /\ [ClientNext]_<<vars, clientVars>> => [Next]_vars
<1> SUFFICES ASSUME TypeOK, ClientTypeOK, ClientNext PROVE [Next]_vars
  BY DEF vars
<1>1. ASSUME NEW h \in Handlers, RefreshArrives(h) PROVE [Next]_vars
  <2>1. post[h].token \in Tokens
    BY <1>1 DEF RefreshArrives, ClientTypeOK, Posts
  <2> QED
    BY <1>1, <2>1 DEF RefreshArrives, Next
<1>2. ASSUME NEW h \in Handlers, RefreshEnds(h), Observe PROVE [Next]_vars
  BY <1>2 DEF RefreshEnds, Next, GoOn
<1>3. ASSUME NEW b \in Tabs, NEW h \in Handlers, LogoutArrives(b, h), Observe PROVE [Next]_vars
  <2>1. leaving[b].token \in Tokens
    BY <1>3 DEF LogoutArrives, ClientTypeOK, Logouts
  <2> QED
    BY <1>3, <2>1 DEF LogoutArrives, Next
<1>4. ASSUME NEW h \in Handlers, NEW t \in Tokens, FinishSignIn(h, t), Observe PROVE [Next]_vars
  BY <1>4 DEF FinishSignIn, Next, GoOn
<1>5. ASSUME NEW b \in Tabs, NEW h \in Handlers, StartSignIn(b, h), Observe PROVE [Next]_vars
  BY <1>5 DEF StartSignIn, Next
<1>6. ASSUME NEW h \in Handlers, SelectAfterReuse(h), Observe PROVE [Next]_vars
  BY <1>6 DEF Next, GoOn
<1>7. ASSUME NEW t \in Tokens, Expire(t), Observe PROVE [Next]_vars
  BY <1>7 DEF Next
<1>8. ASSUME UNCHANGED vars PROVE [Next]_vars
  BY <1>8
<1> QED
  BY <1>1, <1>2, <1>3, <1>4, <1>5, <1>6, <1>7, <1>8
     DEF ClientNext, Reload, Send, AccessLapses, CallEnds, JoinRefresh, NothingToRefresh,
         StartClientRefresh, StartLogout, FinishLogout

LEMMA ClientTypeStep ==
    TypeOK /\ ClientTypeOK /\ [ClientNext]_<<vars, clientVars>> => ClientTypeOK'
<1> SUFFICES ASSUME TypeOK, ClientTypeOK, [ClientNext]_<<vars, clientVars>> PROVE ClientTypeOK'
  OBVIOUS
<1> USE NothingTypes, ClientAssumption
    DEF ClientTypeOK, Store, Mix, storeVars, refreshVars, leaveVars, clientVars, Null
<1>1. ASSUME NEW b \in Tabs, NEW h \in Handlers, StartSignIn(b, h) PROVE ClientTypeOK'
  BY <1>1 DEF StartSignIn, Posts
<1>2. ASSUME NEW h \in Handlers, NEW t \in Tokens, FinishSignIn(h, t) PROVE ClientTypeOK'
  BY <1>2 DEF FinishSignIn, Posts
<1>3. ASSUME NEW b \in Tabs, Reload(b) PROVE ClientTypeOK'
  <2>1. \A h \in Handlers : [post[h] EXCEPT !.tab = NoTab] \in Posts
    BY DEF Posts
  <2> QED
    BY <1>3, <2>1 DEF Reload
<1>4. ASSUME NEW c \in Calls, NEW b \in Tabs, Send(c, b) PROVE ClientTypeOK'
  <2>1. [pc |-> "sent", tab |-> b, token |-> kept[b], on |-> Null] \in ClientCalls
    BY DEF ClientCalls
  <2> QED
    BY <1>4, <2>1 DEF Send
<1>5. ASSUME NEW t \in Tokens, AccessLapses(t) PROVE ClientTypeOK'
  BY <1>5 DEF AccessLapses
<1>6. ASSUME NEW c \in Calls, CallEnds(c) PROVE ClientTypeOK'
  BY <1>6 DEF CallEnds
<1>7. ASSUME NEW c \in Calls, Gets401(c), NEW h \in Handlers, WaitFor(c, h),
             UNCHANGED <<storeVars, leaveVars>>,
             refreshing' \in [Tabs -> Handlers \cup {Null}], post' \in [Handlers -> Posts],
             mixed' \in BOOLEAN
      PROVE  ClientTypeOK'
  <2>1. [calls[c] EXCEPT !.pc = "waiting", !.on = h] \in ClientCalls
    BY DEF ClientCalls
  <2>2. calls' = [calls EXCEPT ![c] = [calls[c] EXCEPT !.pc = "waiting", !.on = h]]
    BY <1>7 DEF WaitFor
  <2>3. [calls[c] EXCEPT !.pc = "waiting", !.on = h].tab \in Tabs
    BY <1>7 DEF Gets401, ClientCalls
  <2> QED
    BY <1>7, <2>1, <2>2, <2>3
<1>8. ASSUME NEW c \in Calls, JoinRefresh(c) PROVE ClientTypeOK'
  <2>1. calls[c].tab \in Tabs
    BY <1>8 DEF JoinRefresh, Gets401
  <2>2. refreshing[calls[c].tab] \in Handlers
    BY <1>8, <2>1 DEF JoinRefresh
  <2> QED
    BY <1>7, <1>8, <2>2 DEF JoinRefresh
<1>9. ASSUME NEW c \in Calls, NothingToRefresh(c) PROVE ClientTypeOK'
  BY <1>9 DEF NothingToRefresh
<1>10. ASSUME NEW c \in Calls, NEW h \in Handlers, StartClientRefresh(c, h) PROVE ClientTypeOK'
  <2>1. calls[c].tab \in Tabs
    BY <1>10 DEF StartClientRefresh, Gets401
  <2>2. [tab |-> calls[c].tab, token |-> kept[calls[c].tab]] \in Posts
    BY <2>1 DEF Posts
  <2> QED
    BY <1>7, <1>10, <2>1, <2>2 DEF StartClientRefresh
<1>11. ASSUME NEW h \in Handlers, NEW t \in Tokens \cup {NoToken}, Settle(h, t) PROVE ClientTypeOK'
  <2> DEFINE Again(c) == [calls[c] EXCEPT !.pc = "again", !.token = t, !.on = Null]
  <2>1. /\ post' \in [Handlers -> Posts] /\ mixed' \in BOOLEAN /\ UNCHANGED leaveVars
        /\ post[h].tab \in Tabs \cup {NoTab}
    BY <1>11 DEF Settle, Posts
  <2>2. CASE post[h].tab = NoTab
    BY <1>11, <2>1, <2>2 DEF Settle
  <2>3. CASE post[h].tab # NoTab
    <3>0. /\ kept' = [kept EXCEPT ![post[h].tab] = t] /\ disk' = t
          /\ refreshing' = [refreshing EXCEPT ![post[h].tab] = Null]
      BY <1>11, <2>3 DEF Settle
    <3>1. /\ kept' \in [Tabs -> Tokens \cup {NoToken}] /\ disk' \in Tokens \cup {NoToken}
          /\ refreshing' \in [Tabs -> Handlers \cup {Null}]
      BY <3>0
    <3>2. \A c \in Calls : t # NoToken =>
            Again(c) \in ClientCalls /\ Again(c).tab = calls[c].tab
      BY DEF ClientCalls
    <3>3. calls' = [c \in Calls |-> IF calls[c].on # h THEN calls[c]
                                    ELSE IF t = NoToken THEN NoCall ELSE Again(c)]
      BY <1>11, <2>3 DEF Settle
    <3>4. ASSUME NEW c \in Calls
          PROVE  /\ calls'[c] \in ClientCalls
                 /\ calls'[c].pc # "idle" \/ calls'[c].on # Null => calls'[c].tab \in Tabs
      <4>1. calls[c].on = h => calls[c].tab \in Tabs
        OBVIOUS
      <4> QED
        BY <3>2, <3>3, <4>1
    <3> QED
      BY <2>1, <3>1, <3>3, <3>4
  <2> QED
    BY <2>2, <2>3
<1>12. ASSUME NEW h \in Handlers, RefreshArrives(h) PROVE ClientTypeOK'
  BY <1>11, <1>12 DEF RefreshArrives
<1>13. ASSUME NEW h \in Handlers, RefreshEnds(h) PROVE ClientTypeOK'
  BY <1>11, <1>13 DEF RefreshEnds
<1>14. ASSUME NEW b \in Tabs, StartLogout(b) PROVE ClientTypeOK'
  BY <1>14 DEF StartLogout, Logouts
<1>15. ASSUME NEW b \in Tabs, NEW h \in Handlers, LogoutArrives(b, h) PROVE ClientTypeOK'
  BY <1>15 DEF LogoutArrives, Logouts
<1>16. ASSUME NEW b \in Tabs, FinishLogout(b) PROVE ClientTypeOK'
  BY <1>16 DEF FinishLogout
<1>17. CASE UNCHANGED clientVars
  BY <1>17
<1> QED
  BY <1>1, <1>2, <1>3, <1>4, <1>5, <1>6, <1>8, <1>9, <1>10, <1>12, <1>13, <1>14, <1>15,
     <1>16, <1>17 DEF ClientNext

LEMMA ClientTypes == ClientSpec => [](TypeOK /\ ClientTypeOK)
<1>1. ClientInit => TypeOK
  BY InitTypes DEF ClientInit
<1>2. ClientInit => ClientTypeOK
  BY NothingTypes DEF ClientInit, ClientTypeOK
<1>3. TypeOK /\ ClientTypeOK /\ [ClientNext]_<<vars, clientVars>> => TypeOK' /\ ClientTypeOK'
  BY ServerStep, TypeStep, ClientTypeStep
<1> QED
  BY <1>1, <1>2, <1>3, PTL DEF ClientSpec

\* A browser with any number of tabs does nothing to the server that Sessions does not
\* allow: what holds of every user holds of hers.
THEOREM ClientUsesServer == ClientSpec => Spec
<1>1. ClientInit => Init
  BY DEF ClientInit
<1> QED
  BY <1>1, ServerStep, ClientTypes, PTL DEF ClientSpec, Spec
------------------------------------------------------------------------------
(***************************************************************************)
(* Tabs that keep to themselves.                                           *)
(***************************************************************************)

\* What a tab has posted is the token it keeps, the tab waits for the answer, and nobody
\* has used the token: no handler has to do with reuse.
RefreshesOwn == \A h \in Handlers :
    /\ req[h].pc \in {"idle", "authenticated", "rotating"}
    /\ post[h].token # NoToken =>
         /\ post[h].tab \in Tabs /\ refreshing[post[h].tab] = h
         /\ kept[post[h].tab] = post[h].token
         /\ req[h].pc # "authenticated" /\ post[h].token \notin revoked
    /\ req[h].pc = "idle" /\ post[h].token = NoToken => post[h].tab = NoTab
    /\ req[h].pc = "rotating" => post[h].token = req[h].token
RefreshIsSent == \A b \in Tabs :
    refreshing[b] # Null => post[refreshing[b]].tab = b /\ post[refreshing[b]].token # NoToken

SignsInOnce == \A g, h \in Handlers :
    At(g, "authenticated") /\ At(h, "authenticated") /\ post[g].tab = post[h].tab
      => g = h \/ post[g].tab = NoTab

\* What a tab keeps no other tab keeps, and it works until the tab logs out.
KeepsOwn == \A b \in Tabs : kept[b] # NoToken =>
    /\ kept[b] \in issued /\ (~leaving[b].arrived => kept[b] \notin revoked)
    /\ \A a \in Tabs : a # b => kept[a] # kept[b]
    /\ left[b].token = NoToken
    /\ \A h \in Handlers : At(h, "authenticated") => post[h].tab # b
DiskIsKept == disk # NoToken => \E b \in Tabs : kept[b] = disk

\* A logout that has reached the server has ended the session.
Ended(l) == l.arrived =>
    l.token # NoToken /\ l.token \in revoked /\ \A u \in issued : parent[u] # l.token
LogsOut == \A b \in Tabs :
    /\ leaving[b].token # NoToken => kept[b] = leaving[b].token /\ refreshing[b] = Null
    /\ Ended(leaving[b]) /\ Ended(left[b])

Alone == /\ RefreshesOwn /\ RefreshIsSent /\ SignsInOnce
         /\ KeepsOwn /\ DiskIsKept /\ LogsOut

LEMMA NoLogoutIs ==
    /\ NoLogout.token = NoToken /\ NoLogout.arrived = FALSE
    /\ \A l \in Logouts : l.token = NoToken /\ ~l.arrived => l = NoLogout
BY DEF NoLogout, Logouts

\* The answer to a refresh: the token posted is spent, or the refresh has not changed a row,
\* and the tab keeps the new token, or none.
LEMMA AloneSettles ==
    ASSUME TypeOK, ClientTypeOK, Alone, ~mixed',
           NEW h \in Handlers, NEW t \in Tokens \cup {NoToken}, Settle(h, t),
           post[h].token # NoToken,
           \/ At(h, "idle") /\ UNCHANGED vars /\ t = NoToken
           \/ \E n \in Tokens : Rotate(h, n) /\ t \in {n, NoToken}
    PROVE  Alone'
<1> USE ClientAssumption
    DEF TypeOK, ClientTypeOK, Posts, Null, At, Alone, RefreshesOwn
<1> DEFINE b == post[h].tab
<1>1. b \in Tabs /\ refreshing[b] = h /\ kept[b] = post[h].token /\ kept[b] \notin revoked
  OBVIOUS
<1>2. /\ post' = [post EXCEPT ![h] = NoPost] /\ kept' = [kept EXCEPT ![b] = t] /\ disk' = t
      /\ refreshing' = [refreshing EXCEPT ![b] = Null]
      /\ leaving' = leaving /\ left' = left
  BY <1>1, ZenonT(30) DEF Settle, Store, leaveVars
<1>3. kept[b] \in issued /\ leaving[b].token = NoToken /\ left[b].token = NoToken
  BY <1>1 DEF KeepsOwn, LogsOut
<1>4. PICK n \in Tokens :
        /\ t \in {n, NoToken} /\ (t = n => n \in issued' \ revoked')
        /\ issued \subseteq issued' /\ issued' \subseteq issued \cup {n}
        /\ revoked \subseteq revoked' /\ revoked' \subseteq revoked \cup {kept[b]}
        /\ t = n => n \notin issued
        /\ \A u \in issued' : (u \in issued /\ parent'[u] = parent[u]) \/ parent'[u] = kept[b]
        /\ req'[h].pc = "idle" /\ \A g \in Handlers : g # h => req'[g] = req[g]
  <2>1. CASE At(h, "idle") /\ UNCHANGED vars /\ t = NoToken
    BY <1>1, <2>1 DEF vars, sessionVars
  <2>2. ASSUME NEW n \in Tokens, Rotate(h, n), t \in {n, NoToken}
        PROVE  /\ t \in {n, NoToken} /\ (t = n => n \in issued' \ revoked')
               /\ issued \subseteq issued' /\ issued' \subseteq issued \cup {n}
               /\ revoked \subseteq revoked' /\ revoked' \subseteq revoked \cup {kept[b]}
               /\ t = n => n \notin issued
               /\ \A u \in issued' : (u \in issued /\ parent'[u] = parent[u]) \/ parent'[u] = kept[b]
               /\ req'[h].pc = "idle" /\ \A g \in Handlers : g # h => req'[g] = req[g]
    BY <1>1, <1>3, <2>2 DEF Rotate, Insert, Close, Idle
  <2> QED
    BY <2>1, <2>2
<1>5. RefreshesOwn'
  BY <1>1, <1>2, <1>3, <1>4 DEF NoPost, KeepsOwn
<1>6. RefreshIsSent'
  BY <1>1, <1>2 DEF NoPost, RefreshIsSent
<1>7. SignsInOnce'
  BY <1>1, <1>2, <1>4 DEF NoPost, SignsInOnce
<1>8. KeepsOwn'
  BY <1>1, <1>2, <1>3, <1>4 DEF NoPost, KeepsOwn
<1>9. DiskIsKept'
  BY <1>1, <1>2, <1>4 DEF DiskIsKept
<1>10. LogsOut'
  <2>1. ASSUME NEW l \in Logouts, Ended(l) PROVE Ended(l)'
    BY <1>1, <1>4, <2>1 DEF Ended
  <2>2. \A a \in Tabs : leaving'[a].token # NoToken =>
          kept'[a] = leaving'[a].token /\ refreshing'[a] = Null
    BY <1>1, <1>2, <1>3 DEF LogsOut
  <2> QED
    BY <1>2, <2>1, <2>2 DEF LogsOut
<1> QED
  BY <1>5, <1>6, <1>7, <1>8, <1>9, <1>10

\* No step of the browser ends that, unless it makes tokens meet.
LEMMA AloneStep ==
    ASSUME TypeOK, ClientTypeOK, ParentsSpent, Alone, ClientNext, ~mixed'
    PROVE  Alone'
<1> USE ClientAssumption
    DEF TypeOK, ClientTypeOK, Posts, Null, At, Alone
<1>1. ASSUME NEW b \in Tabs, NEW h \in Handlers, StartSignIn(b, h) PROVE Alone'
  <2>0. /\ req[h].pc = "idle" /\ post[h] = NoPost
        /\ kept[b] = NoToken /\ \A g \in Handlers : At(g, "authenticated") => post[g].tab # b
        /\ req'[h].pc = "authenticated" /\ \A g \in Handlers : g # h => req'[g] = req[g]
        /\ post'[h].tab = b /\ post'[h].token = NoToken
        /\ \A g \in Handlers : g # h => post'[g] = post[g]
        /\ UNCHANGED <<issued, revoked, parent, kept, disk, refreshing, leaving, left>>
    BY <1>1 DEF StartSignIn, Authenticate, Idle, IsFree, NoPost, SigningIn, tokenVars,
                storeVars, leaveVars
  <2>n. NoPost.token = NoToken
    BY DEF NoPost
  <2>1. RefreshesOwn'
    BY <2>0, <2>n DEF RefreshesOwn
  <2>2. RefreshIsSent'
    BY <2>0, <2>n DEF RefreshIsSent, RefreshesOwn
  <2>3. SignsInOnce'
    BY <2>0, <2>n DEF SignsInOnce
  <2>4. KeepsOwn'
    BY <2>0, <2>n DEF KeepsOwn, RefreshesOwn
  <2>5. DiskIsKept'
    BY <2>0, <2>n DEF DiskIsKept
  <2>6. LogsOut'
    BY <2>0, <2>n DEF LogsOut, Ended
  <2> QED
    BY <2>1, <2>2, <2>3, <2>4, <2>5, <2>6 DEF Alone
<1>2. ASSUME NEW h \in Handlers, NEW t \in Tokens, FinishSignIn(h, t) PROVE Alone'
  <2>0. /\ req[h].pc = "authenticated"
        /\ req'[h].pc = "idle" /\ \A g \in Handlers : g # h => req'[g] = req[g]
        /\ t \notin issued /\ issued' = issued \cup {t} /\ parent' = [parent EXCEPT ![t] = NoToken]
        /\ post' = [post EXCEPT ![h] = NoPost]
        /\ UNCHANGED <<revoked, refreshing, leaving>>
    BY <1>2 DEF FinishSignIn, IssueTokens, Insert, Close, Idle, resetVars
  <2>n. NoPost.token = NoToken /\ NoPost.tab = NoTab
    BY DEF NoPost
  <2>s. \/ /\ post[h].tab \in Tabs /\ kept' = [kept EXCEPT ![post[h].tab] = t] /\ disk' = t
           /\ left' = [left EXCEPT ![post[h].tab] = NoLogout]
        \/ UNCHANGED <<kept, disk, left>>
    BY <1>2 DEF FinishSignIn, Store, storeVars
  <2>t. /\ post[h].token = NoToken
        /\ post[h].tab \in Tabs => kept[post[h].tab] = NoToken
    BY <2>0 DEF RefreshesOwn, KeepsOwn
  <2>1. RefreshesOwn'
    BY <2>0, <2>n, <2>s, <2>t, NoLogoutIs DEF RefreshesOwn
  <2>2. RefreshIsSent'
    BY <2>0, <2>n, <2>s, <2>t, NoLogoutIs DEF RefreshIsSent
  <2>3. SignsInOnce'
    BY <2>0, <2>n, <2>s, <2>t, NoLogoutIs DEF SignsInOnce
  <2>4. KeepsOwn'
    BY <2>0, <2>n, <2>s, <2>t, NoLogoutIs DEF KeepsOwn, SignsInOnce
  <2>5. DiskIsKept'
    BY <2>0, <2>n, <2>s, <2>t, NoLogoutIs DEF DiskIsKept
  <2>6. LogsOut'
    BY <2>0, <2>n, <2>s, <2>t, NoLogoutIs DEF LogsOut, Ended
  <2> QED
    BY <2>1, <2>2, <2>3, <2>4, <2>5, <2>6 DEF Alone
<1>3. ASSUME NEW b \in Tabs, Reload(b) PROVE Alone'
  <2>0. /\ kept' = [kept EXCEPT ![b] = disk] /\ refreshing' = refreshing /\ refreshing[b] = Null
        /\ leaving[b] = NoLogout /\ leaving' = leaving /\ left' = [left EXCEPT ![b] = NoLogout]
        /\ \A a \in Tabs : a # b /\ kept'[a] # NoToken => kept'[a] # kept'[b]
        /\ UNCHANGED <<issued, revoked, parent, req, disk>>
    BY <1>3 DEF Reload, Mix, vars, sessionVars
  <2>p. \A h \in Handlers :
          /\ post'[h].token = post[h].token
          /\ post'[h].tab = IF post[h].tab = b THEN NoTab ELSE post[h].tab
    BY <1>3 DEF Reload
  <2>d. disk \in {NoToken, kept[b]}
    BY <2>0 DEF DiskIsKept
  <2>1. RefreshesOwn'
    BY <2>0, <2>p, <2>d, NoLogoutIs DEF RefreshesOwn
  <2>2. RefreshIsSent'
    BY <2>0, <2>p, <2>d, NoLogoutIs DEF RefreshIsSent
  <2>3. SignsInOnce'
    BY <2>0, <2>p, <2>d, NoLogoutIs DEF SignsInOnce
  <2>4. KeepsOwn'
    BY <2>0, <2>p, <2>d, NoLogoutIs DEF KeepsOwn
  <2>5. DiskIsKept'
    BY <2>0, <2>p, <2>d, NoLogoutIs DEF DiskIsKept
  <2>6. LogsOut'
    BY <2>0, <2>p, <2>d, NoLogoutIs DEF LogsOut, Ended
  <2> QED
    BY <2>1, <2>2, <2>3, <2>4, <2>5, <2>6 DEF Alone
<1>4. ASSUME UNCHANGED <<vars, storeVars, refreshVars, leaveVars>> PROVE Alone'
  BY <1>4 DEF RefreshesOwn, RefreshIsSent, SignsInOnce, KeepsOwn, DiskIsKept, LogsOut, Ended,
              vars, sessionVars, storeVars, refreshVars, leaveVars
<1>5. ASSUME NEW c \in Calls, NEW h \in Handlers, StartClientRefresh(c, h) PROVE Alone'
  <2> DEFINE b == calls[c].tab
  <2>0. /\ b \in Tabs /\ req[h].pc = "idle" /\ post[h] = NoPost
        /\ refreshing[b] = Null /\ kept[b] # NoToken /\ leaving[b] = NoLogout
        /\ refreshing' = [refreshing EXCEPT ![b] = h]
        /\ post'[h].tab = b /\ post'[h].token = kept[b]
        /\ \A g \in Handlers : g # h => post'[g] = post[g]
        /\ UNCHANGED <<issued, revoked, parent, req, kept, disk, leaving, left>>
    BY <1>5 DEF StartClientRefresh, Gets401, IsFree, Mix, vars, sessionVars, storeVars, leaveVars
  <2>n. NoPost.token = NoToken /\ NoPost.tab = NoTab
    BY DEF NoPost
  <2> HIDE DEF b
  <2>1. RefreshesOwn'
    BY <2>0, <2>n, NoLogoutIs DEF RefreshesOwn, KeepsOwn
  <2>2. RefreshIsSent'
    BY <2>0, <2>n, NoLogoutIs DEF RefreshIsSent, RefreshesOwn
  <2>3. SignsInOnce'
    BY <2>0, <2>n, NoLogoutIs DEF SignsInOnce
  <2>4. KeepsOwn'
    BY <2>0, <2>n, NoLogoutIs DEF KeepsOwn
  <2>5. DiskIsKept'
    BY <2>0, <2>n, NoLogoutIs DEF DiskIsKept
  <2>6. LogsOut'
    BY <2>0, <2>n, NoLogoutIs DEF LogsOut, Ended
  <2> QED
    BY <2>1, <2>2, <2>3, <2>4, <2>5, <2>6 DEF Alone
<1>6. ASSUME NEW h \in Handlers, RefreshArrives(h) PROVE Alone'
  <2>1. CASE post[h].token \in expired
    BY <1>6, <2>1, AloneSettles DEF RefreshArrives
  <2>2. CASE post[h].token \notin expired
    <3>1. /\ StartRefresh(h, post[h].token) /\ post[h].token # NoToken
          /\ UNCHANGED <<kept, disk, refreshing, post, leaving, left>>
      BY <1>6, <2>2 DEF RefreshArrives, clientVars, storeVars, refreshVars, leaveVars
    <3>2. post[h].token \notin revoked
      BY <3>1 DEF RefreshesOwn
    <3>3. /\ req'[h].pc = "rotating" /\ req'[h].token = post[h].token
          /\ \A g \in Handlers : g # h => req'[g] = req[g]
          /\ UNCHANGED <<issued, revoked, parent>>
      BY <3>1, <3>2 DEF StartRefresh, Open, Idle, tokenVars
    <3>4. RefreshesOwn'
      BY <3>1, <3>2, <3>3 DEF RefreshesOwn
    <3>5. KeepsOwn'
      BY <3>1, <3>3 DEF KeepsOwn
    <3> QED
      BY <3>1, <3>3, <3>4, <3>5 DEF RefreshIsSent, SignsInOnce, DiskIsKept, LogsOut, Ended
  <2> QED
    BY <2>1, <2>2
<1>7. ASSUME NEW h \in Handlers, RefreshEnds(h) PROVE Alone'
  <2>1. PICK t \in Tokens : Rotate(h, t) /\ (Settle(h, t) \/ Settle(h, NoToken))
    BY <1>7 DEF RefreshEnds, RevokeAll, RefreshesOwn
  <2>2. post[h].token # NoToken
    BY <2>1 DEF Rotate, RefreshesOwn
  <2> QED
    BY <2>1, <2>2, AloneSettles
<1>8. ASSUME NEW b \in Tabs, StartLogout(b) PROVE Alone'
  <2>0. /\ kept[b] # NoToken /\ refreshing[b] = Null /\ leaving[b] = NoLogout
        /\ leaving'[b].token = kept[b] /\ leaving'[b].arrived = FALSE
        /\ \A a \in Tabs : a # b => leaving'[a] = leaving[a]
        /\ UNCHANGED <<issued, revoked, parent, req, kept, disk, refreshing, post, left>>
    BY <1>8, NoLogoutIs DEF StartLogout, Mix, Logouts, vars, sessionVars, storeVars, refreshVars
  <2>1. RefreshesOwn'
    BY <2>0, NoLogoutIs DEF RefreshesOwn
  <2>2. RefreshIsSent'
    BY <2>0, NoLogoutIs DEF RefreshIsSent
  <2>3. SignsInOnce'
    BY <2>0, NoLogoutIs DEF SignsInOnce
  <2>4. KeepsOwn'
    BY <2>0, NoLogoutIs DEF KeepsOwn
  <2>5. DiskIsKept'
    BY <2>0, NoLogoutIs DEF DiskIsKept
  <2>6. LogsOut'
    BY <2>0, NoLogoutIs DEF LogsOut, Ended
  <2> QED
    BY <2>1, <2>2, <2>3, <2>4, <2>5, <2>6 DEF Alone
<1>9. ASSUME NEW b \in Tabs, NEW h \in Handlers, LogoutArrives(b, h) PROVE Alone'
  <2> DEFINE t == leaving[b].token
  <2>0. /\ t # NoToken /\ revoked' = revoked \cup {t}
        /\ leaving'[b].token = t /\ leaving'[b].arrived = TRUE
        /\ \A a \in Tabs : a # b => leaving'[a] = leaving[a]
        /\ UNCHANGED <<issued, parent, req, kept, disk, refreshing, post, left>>
    BY <1>9 DEF LogoutArrives, Logout, Logouts, storeVars, refreshVars
  <2>t. kept[b] = t /\ refreshing[b] = Null /\ t \in issued /\ t \notin revoked
    BY <1>9, <2>0 DEF LogsOut, KeepsOwn, LogoutArrives
  <2>u. \A u \in issued : parent[u] # t
    BY <2>0, <2>t DEF ParentsSpent
  <2> HIDE DEF t
  <2>1. RefreshesOwn'
    BY <2>0, <2>t, <2>u DEF RefreshesOwn, KeepsOwn
  <2>2. RefreshIsSent'
    BY <2>0, <2>t, <2>u DEF RefreshIsSent
  <2>3. SignsInOnce'
    BY <2>0, <2>t, <2>u DEF SignsInOnce
  <2>4. KeepsOwn'
    BY <2>0, <2>t, <2>u DEF KeepsOwn
  <2>5. DiskIsKept'
    BY <2>0, <2>t, <2>u DEF DiskIsKept
  <2>6. LogsOut'
    BY <2>0, <2>t, <2>u DEF LogsOut, Ended
  <2> QED
    BY <2>1, <2>2, <2>3, <2>4, <2>5, <2>6 DEF Alone
<1>10. ASSUME NEW b \in Tabs, FinishLogout(b) PROVE Alone'
  <2>0. /\ leaving[b] # NoLogout
        /\ kept' = [kept EXCEPT ![b] = NoToken] /\ disk' = NoToken
        /\ left' = [left EXCEPT ![b] = leaving[b]]
        /\ leaving' = [leaving EXCEPT ![b] = NoLogout]
        /\ UNCHANGED <<issued, revoked, parent, req, refreshing, post>>
    BY <1>10 DEF FinishLogout, Store, vars, sessionVars, refreshVars
  <2>t. leaving[b].token # NoToken /\ kept[b] = leaving[b].token /\ refreshing[b] = Null
    BY <2>0, NoLogoutIs DEF LogsOut, Ended
  <2>1. RefreshesOwn'
    BY <2>0, <2>t, NoLogoutIs DEF RefreshesOwn, RefreshIsSent
  <2>2. RefreshIsSent'
    BY <2>0, <2>t, NoLogoutIs DEF RefreshIsSent
  <2>3. SignsInOnce'
    BY <2>0, <2>t, NoLogoutIs DEF SignsInOnce
  <2>4. KeepsOwn'
    BY <2>0, <2>t, NoLogoutIs DEF KeepsOwn
  <2>5. DiskIsKept'
    BY <2>0, <2>t, NoLogoutIs DEF DiskIsKept
  <2>6. LogsOut'
    BY <2>0, <2>t, NoLogoutIs DEF LogsOut, Ended
  <2> QED
    BY <2>1, <2>2, <2>3, <2>4, <2>5, <2>6 DEF Alone
<1>11. ASSUME NEW h \in Handlers, SelectAfterReuse(h) PROVE Alone'
  BY <1>11 DEF SelectAfterReuse, RefreshesOwn
<1>12. ASSUME NEW t \in Tokens, Expire(t), UNCHANGED clientVars PROVE Alone'
  BY <1>12 DEF Expire, RefreshesOwn, RefreshIsSent, SignsInOnce, KeepsOwn, DiskIsKept, LogsOut,
               Ended, tokenVars, clientVars, storeVars, refreshVars, leaveVars
<1> HIDE DEF Alone, TypeOK, ClientTypeOK
<1> QED
  BY <1>1, <1>2, <1>3, <1>4, <1>5, <1>6, <1>7, <1>8, <1>9, <1>10, <1>11, <1>12
     DEF ClientNext, Send, AccessLapses, CallEnds, JoinRefresh, NothingToRefresh

ClientInv == TypeOK /\ ClientTypeOK /\ ParentsSpent /\ (~mixed => Alone)

\* Until tokens meet in the browser, its tabs keep to themselves.
THEOREM ClientInvariant == ClientSpec => []ClientInv
<1>1. ClientInit => Alone
  BY ClientAssumption, NoLogoutIs
     DEF ClientInit, Init, Alone, RefreshesOwn, RefreshIsSent, SignsInOnce, KeepsOwn, DiskIsKept,
         LogsOut, Ended, At, Idle, NoPost, Null
<1>2. TypeOK /\ ClientTypeOK /\ ParentsSpent /\ (~mixed => Alone)
        /\ [ClientNext]_<<vars, clientVars>> => (~mixed => Alone)'
  <2> SUFFICES ASSUME TypeOK, ClientTypeOK, ParentsSpent, ~mixed => Alone,
                      [ClientNext]_<<vars, clientVars>>, ~mixed'
               PROVE  Alone'
    OBVIOUS
  <2>1. CASE UNCHANGED <<vars, clientVars>>
    BY <2>1 DEF Alone, RefreshesOwn, RefreshIsSent, SignsInOnce, KeepsOwn, DiskIsKept, LogsOut,
       Ended, At, vars, sessionVars, clientVars, storeVars, refreshVars, leaveVars
  <2>2. CASE ClientNext
    <3>1. ~mixed
      BY <2>2 DEF ClientNext, StartSignIn, FinishSignIn, Reload, Send, AccessLapses, CallEnds,
         JoinRefresh, NothingToRefresh, StartClientRefresh, RefreshArrives, RefreshEnds, Settle,
         StartLogout, LogoutArrives, FinishLogout, Mix, clientVars
    <3> QED
      BY <2>2, <3>1, AloneStep
  <2> QED
    BY <2>1, <2>2
<1>3. Spec => []ParentsSpent
  BY RotatedTokensAreSpent
<1> QED
  BY <1>1, <1>2, <1>3, ClientTypes, ClientUsesServer, PTL DEF ClientSpec, ClientInv

\* One refresh serves all calls of a tab, and the next has the new token: the server never
\* closes the sessions of a user whose tabs keep to themselves.
THEOREM TabIsNotTheft == ClientSpec => []NeverTakenForTheft
<1>1. ClientInv => NeverTakenForTheft
  BY DEF ClientInv, NeverTakenForTheft, Alone, RefreshesOwn, At
<1> QED
  BY <1>1, ClientInvariant, PTL

\* A tab that has logged out keeps nothing, and nothing its token was rotated to is open once
\* the server was told.
THEOREM LoggedOutStaysOut == ClientSpec => []LogoutHolds
<1>1. ClientInv => LogoutHolds
  BY DEF ClientInv, ClientTypeOK, LogoutHolds, Alone, KeepsOwn, LogsOut, Ended, Live
<1> QED
  BY <1>1, ClientInvariant, PTL
==============================================================================
