--------------------------- MODULE BillingProofs ---------------------------
(***************************************************************************)
(* Theorems about Billing, for every number of API processes, every        *)
(* history of the provider and any number of crashes.                      *)
(***************************************************************************)
EXTENDS Billing, TLAPS

USE HistoryAssumption, HandlersAssumption

(***************************************************************************)
(* Type correctness.                                                       *)
(***************************************************************************)

\* Every step notes whether transactions overlap.
LEMMA Observed == Next => Observe
BY DEF Next, WebhookStep, ReconcileStep

LEMMA FreshType == FreshSub \in Subscriptions /\ Idle \in Tx
BY DEF FreshSub, Idle, Tx, Subscriptions, Plans, Statuses

LEMMA HistoryType ==
    ASSUME TypeOK PROVE \A e \in Events : history[e] \in Changes
BY DEF TypeOK

\* A change of the provider makes a subscription of a subscription.
LEMMA ChangeType ==
    ASSUME NEW s \in Subscriptions, NEW c \in Changes, c.type # "other"
    PROVE  Change(s, c) \in Subscriptions
BY ZenonT(30) DEF Change, NamedPlan, Subscriptions, Changes, EventTypes, Plans, Statuses

\* So does a change that _apply_event raised over.
LEMMA HalfwayType ==
    ASSUME NEW s \in Subscriptions, NEW c \in Changes, Raises(c)
    PROVE  /\ Halfway(s, c) \in Subscriptions
           /\ c.flaw # "none"
           /\ c.flaw # "period" =>
                Halfway(s, c).plan = s.plan /\ Halfway(s, c).status = s.status
<1>0. c.flaw = "plan" => c.type # "deleted"
  BY DEF Raises
<1>1. c.type # "other" /\ c.flaw \in {"plan", "period"}
  BY DEF Raises
<1>2. Change(s, c) \in Subscriptions
  BY <1>1, ChangeType
<1>3. Halfway(s, c) \in Subscriptions
  <2>1. CASE c.flaw = "plan"
    BY <2>1, ZenonT(30) DEF Halfway, Named, Subscriptions, Plans, Statuses
  <2>2. CASE c.flaw # "plan" /\ c.type = "deleted"
    BY <2>2 DEF Halfway, Subscriptions, Statuses
  <2>3. CASE c.flaw # "plan" /\ c.type # "deleted"
    <3>1. Halfway(s, c) = [Change(s, c) EXCEPT !.period = s.period]
      BY <2>3 DEF Halfway
    <3> QED
      BY <1>2, <3>1 DEF Subscriptions
  <2> QED
    BY <2>1, <2>2, <2>3
<1>4. CASE c.flaw = "plan"
  <2>1. ASSUME NEW a, NEW b
        PROVE  /\ [s EXCEPT !.cust = a, !.subid = b].plan = s.plan
               /\ [s EXCEPT !.cust = a, !.subid = b].status = s.status
    BY DEF Subscriptions
  <2>2. Named(s).plan = s.plan /\ Named(s).status = s.status
    BY <2>1, Zenon DEF Named
  <2>3. Halfway(s, c) = Named(s)
    BY <1>4, <1>0 DEF Halfway
  <2> QED
    BY <1>3, <1>4, <2>2, <2>3
<1> QED
  BY <1>1, <1>3, <1>4

LEMMA DowngradeType ==
    ASSUME NEW s \in Subscriptions PROVE Downgraded(s) \in Subscriptions
BY DEF Downgraded, Subscriptions, Plans, Statuses

LEMMA FetchedType ==
    ASSUME NEW s \in Subscriptions, TypeOK, happened \in Events
    PROVE  Fetched(s) \in Subscriptions
<1>1. Remote \in Changes
  BY HistoryType DEF Remote
<1> QED
  BY <1>1 DEF Fetched, Subscriptions, Changes, Statuses

\* Writing the dirty columns keeps a row a row, and what a column of it becomes.
LEMMA MergeType ==
    ASSUME NEW row \in Subscriptions, NEW view \in Subscriptions, NEW new \in Subscriptions
    PROVE  /\ Merge(row, view, new) \in Subscriptions
           /\ Merge(row, view, new).plan = IF new.plan = view.plan THEN row.plan ELSE new.plan
           /\ Merge(row, view, new).status =
                IF new.status = view.status THEN row.status ELSE new.status
BY DEF Merge, Subscriptions

LEMMA EffectiveType ==
    ASSUME NEW s \in Subscriptions PROVE Effective(s) \in Plans
BY DEF Effective, Subscriptions, Plans

\* Every variable keeps its type: no status reaches the table that the enum of
\* models/billing.py does not know, and no event number is made up.
THEOREM TypeCorrect == Spec => []TypeOK
<1>1. Init => TypeOK
  <2>1. ASSUME Init PROVE tx \in [Procs -> Tx] /\ sub \in Subscriptions /\ org_plan \in Plans
    BY <2>1, FreshType DEF Init, Plans
  <2>3. ASSUME Init PROVE \A h \in Handlers : tx[h].pc = "idle"
    BY <2>3 DEF Init, Idle, Procs
  <2>4. ASSUME Init PROVE /\ exists \in BOOLEAN /\ periodOver \in BOOLEAN
                          /\ logged \in SUBSET Events /\ ignored \in SUBSET Events
                          /\ failed \in SUBSET Events /\ unsynced \in SUBSET failed
                          /\ applied \in [Events -> Nat]
    BY <2>4 DEF Init
  <2>5. 0 \in 0..Length /\ 0 \in 0..MaxAborts
    OBVIOUS
  <2>6. ASSUME Init PROVE /\ history \in Histories /\ happened \in 0..Length
                          /\ aborts \in 0..MaxAborts /\ overlapped \in BOOLEAN
    BY <2>5, <2>6 DEF Init
  <2> QED
    BY <2>1, <2>3, <2>4, <2>6 DEF TypeOK
<1>2. TypeOK /\ [Next]_vars => TypeOK'
  <2> SUFFICES ASSUME TypeOK, [Next]_vars PROVE TypeOK'
    OBVIOUS
  <2> USE DEF Procs, At, worldVars, logVars
  <2>0. \A p \in Procs : tx[p] \in Tx
    BY DEF TypeOK
  <2>s. overlapped' \in BOOLEAN
    BY Observed DEF Observe, TypeOK, Next, vars
  <2>1. ASSUME NEW h \in Handlers, NEW e \in Events, Receive(h, e) PROVE TypeOK'
    <3>1. [Idle EXCEPT !.pc = "received", !.ev = e] \in Tx
      BY FreshType DEF Tx
    <3>2. 0 \notin Events
      BY DEF Events
    <3> QED
      BY <2>1, <3>1, <3>2, <2>s DEF Receive, TypeOK, Idle
  <2>2. ASSUME NEW h \in Handlers, Resolve(h) PROVE TypeOK'
    BY <2>0, <2>2, <2>s DEF Resolve, Load, TypeOK, Tx
  <2>3. ASSUME NEW h \in Handlers, ResolveAndCreate(h) PROVE TypeOK'
    <3>1. tx[h].ev \in Events
      BY <2>0, <2>3, <2>s DEF ResolveAndCreate, TypeOK, Tx
    <3> QED
      BY <2>0, <2>3, <3>1, <2>s DEF ResolveAndCreate, Load, TypeOK, Tx
  <2>4. ASSUME NEW h \in Handlers, ResolveNothing(h) PROVE TypeOK'
    <3>1. tx[h].ev \in Events
      BY <2>0, <2>4, <2>s DEF ResolveNothing, TypeOK, Tx
    <3> QED
      BY <2>4, <3>1, FreshType, <2>s DEF ResolveNothing, TypeOK, Idle
  <2>5. ASSUME NEW h \in Handlers, IgnoreType(h) PROVE TypeOK'
    <3>1. tx[h].ev \in Events
      BY <2>0, <2>5, <2>s DEF IgnoreType, TypeOK, Tx
    <3> QED
      BY <2>5, <3>1, FreshType, <2>s DEF IgnoreType, TypeOK, Idle
  <2>6. ASSUME NEW p \in Procs, NEW new \in Subscriptions, Flush(p, new), At(p, "loaded")
        PROVE  /\ tx' \in [Procs -> Tx]
               /\ \A h \in Handlers : tx'[h].pc # "idle" => tx'[h].ev # 0
    BY <2>0, <2>6, <2>s DEF Flush, TypeOK, Tx
  <2>7. ASSUME NEW h \in Handlers, Apply(h) PROVE TypeOK'
    <3>1. tx[h].view \in Subscriptions /\ tx[h].ev \in Events
      BY <2>0, <2>7 DEF Tx, Apply
    <3>2. Change(tx[h].view, history[tx[h].ev]) \in Subscriptions
      BY <2>7, <3>1, ChangeType, HistoryType DEF Apply
    <3>3. tx' \in [Procs -> Tx] /\ \A g \in Handlers : tx'[g].pc # "idle" => tx'[g].ev # 0
      BY <2>6, <2>7, <3>2 DEF Apply
    <3> QED
      BY <2>7, <3>3, <2>s DEF Apply, TypeOK
  <2>8. ASSUME NEW p \in Procs, Commit(p) PROVE TypeOK'
    <3>1. tx[p].view \in Subscriptions /\ tx[p].new \in Subscriptions
      BY <2>0 DEF Tx
    <3>2. sub' \in Subscriptions /\ org_plan' \in Plans
      BY <2>8, <3>1, MergeType, EffectiveType, <2>s DEF Commit, TypeOK
    <3>3. logged' \in SUBSET Events /\ applied' \in [Events -> Nat]
      BY <2>0, <2>8, <2>s DEF Commit, TypeOK, Tx
    <3>4. tx' \in [Procs -> Tx] /\ \A h \in Handlers : tx'[h].pc # "idle" => tx'[h].ev # 0
      BY <2>0, <2>8, FreshType, <2>s DEF Commit, TypeOK, Idle
    <3> QED
      BY <2>8, <3>2, <3>3, <3>4, <2>s DEF Commit, TypeOK
  <2>f. ASSUME NEW h \in Handlers, NEW new \in Subscriptions, Fail(h, new), tx[h].ev \in Events
        PROVE  TypeOK'
    <3>1. tx[h].view \in Subscriptions
      BY <2>0 DEF Tx
    <3>2. sub' \in Subscriptions
      BY <2>f, <3>1, MergeType DEF Fail, TypeOK
    <3>3. tx' \in [Procs -> Tx] /\ \A g \in Handlers : tx'[g].pc # "idle" => tx'[g].ev # 0
      BY <2>0, <2>f, FreshType DEF Fail, TypeOK, Idle
    <3> QED
      BY <2>f, <3>2, <3>3, <2>s DEF Fail, TypeOK
  <2>r. ASSUME NEW h \in Handlers, FailToResolve(h) PROVE TypeOK'
    <3>1. tx[h].ev \in Events /\ tx[h].view \in Subscriptions
      BY <2>0, <2>r DEF FailToResolve, TypeOK, Tx
    <3> QED
      BY <2>f, <2>r, <3>1 DEF FailToResolve
  <2>a. ASSUME NEW h \in Handlers, FailToApply(h) PROVE TypeOK'
    <3>1. tx[h].ev \in Events /\ tx[h].view \in Subscriptions
      BY <2>0, <2>a DEF FailToApply, TypeOK, Tx
    <3>2. Halfway(tx[h].view, history[tx[h].ev]) \in Subscriptions
      BY <2>a, <3>1, HalfwayType, HistoryType DEF FailToApply
    <3> QED
      BY <2>f, <2>a, <3>1, <3>2 DEF FailToApply
  <2>9. CASE StartReconcile
    BY <2>0, <2>9, <2>s DEF StartReconcile, Load, TypeOK, Tx
  <2>10. CASE ReconcileRemote
    <3>1. happened \in Events /\ tx[Cron].view \in Subscriptions
      BY <2>0, <2>10, <2>s DEF ReconcileRemote, TypeOK, Tx, Events
    <3>2. Downgraded(Fetched(tx[Cron].view)) \in Subscriptions
      BY <3>1, FetchedType, DowngradeType
    <3>3. tx' \in [Procs -> Tx] /\ \A g \in Handlers : tx'[g].pc # "idle" => tx'[g].ev # 0
      BY <2>6, <2>10, <3>2 DEF ReconcileRemote
    <3> QED
      BY <2>10, <3>3, <2>s DEF ReconcileRemote, TypeOK
  <2>11. CASE ReconcileLocal
    <3>1. Downgraded(tx[Cron].view) \in Subscriptions
      BY <2>0, DowngradeType DEF Tx
    <3>2. tx' \in [Procs -> Tx] /\ \A h \in Handlers : tx'[h].pc # "idle" => tx'[h].ev # 0
      BY <2>6, <2>11, <3>1 DEF ReconcileLocal
    <3> QED
      BY <2>11, <3>2, <2>s DEF ReconcileLocal, TypeOK
  <2>c. CASE FailToReconcile
    BY <2>0, <2>c, FreshType, <2>s DEF FailToReconcile, TypeOK, Idle
  <2>12. CASE ViewSubscription
    BY <2>12, <2>s DEF ViewSubscription, TypeOK
  <2>13. CASE StartCheckout
    BY <2>13, <2>s DEF StartCheckout, TypeOK, Subscriptions
  <2>14. CASE ProviderChanges
    BY <2>14, <2>s DEF ProviderChanges, TypeOK
  <2>15. CASE PeriodEnds
    BY <2>15, <2>s DEF PeriodEnds, TypeOK
  <2>16. ASSUME NEW p \in Procs, Abort(p) PROVE TypeOK'
    BY <2>0, <2>16, FreshType, <2>s DEF Abort, TypeOK, Idle
  <2>17. CASE UNCHANGED vars
    BY <2>17, <2>s DEF TypeOK, vars, systemVars
  <2> QED
    BY <2>1, <2>2, <2>3, <2>4, <2>5, <2>7, <2>8, <2>9, <2>10, <2>11, <2>12, <2>13,
       <2>14, <2>15, <2>16, <2>17, <2>r, <2>a, <2>c DEF Next, WebhookStep, ReconcileStep
<1> QED
  BY <1>1, <1>2, PTL DEF Spec

------------------------------------------------------------------------------
(***************************************************************************)
(* The event log.                                                          *)
(***************************************************************************)

Pending == {e \in logged \ failed : ~Done(e)}

\* An event that a process is working on has not been applied, nobody else works
\* on it, and but for those that failed only one event can be logged without being
\* done: the one that finds no subscription row, for after it there is one.
LogInv ==
    /\ \A e \in Events : applied[e] <= 1
    /\ \A e \in Events : applied[e] = 1 \/ e \in ignored => e \in logged
    /\ tx[Cron].ev = 0
    /\ \A h \in Handlers :
         /\ At(h, "idle") => tx[h].ev = 0
         /\ ~At(h, "idle") => /\ tx[h].ev \in Events \ failed
                              /\ ~Done(tx[h].ev) /\ applied[tx[h].ev] = 0
         /\ At(h, "received") => tx[h].ev \notin logged
         /\ \A g \in Handlers \ {h} : tx[h].ev # 0 => tx[g].ev # tx[h].ev
    /\ \A e, f \in Pending : e = f
    /\ ~exists => Pending = {}
    /\ aborts = 0 => \A e \in Pending : InProgress(e)
    /\ \A e \in failed : e \in logged /\ ~Done(e) /\ history[e].flaw # "none"

LEMMA LogInvStep == TypeOK /\ LogInv /\ [Next]_vars => LogInv'
<1> SUFFICES ASSUME TypeOK, LogInv, [Next]_vars PROVE LogInv'
  OBVIOUS
<1> USE DEF Procs, At, worldVars, logVars, LogInv, Pending, Done, InProgress
<1>0. /\ \A p \in Procs : tx[p] \in Tx
      /\ applied \in [Events -> Nat] /\ aborts \in Nat /\ 0 \notin Events
  BY DEF TypeOK, Events
<1>1. ASSUME NEW h \in Handlers, NEW e \in Events, Receive(h, e) PROVE LogInv'
  BY <1>0, <1>1 DEF Receive, Idle, TypeOK
<1>2. ASSUME NEW h \in Handlers, Resolve(h) PROVE LogInv'
  BY <1>0, <1>2 DEF Resolve, Load, TypeOK
<1>3. ASSUME NEW h \in Handlers, ResolveAndCreate(h) PROVE LogInv'
  BY <1>0, <1>3 DEF ResolveAndCreate, Load, TypeOK
<1>4. ASSUME NEW h \in Handlers, ResolveNothing(h) PROVE LogInv'
  BY <1>0, <1>4 DEF ResolveNothing, Idle, TypeOK
<1>5. ASSUME NEW h \in Handlers, IgnoreType(h) PROVE LogInv'
  BY <1>0, <1>5 DEF IgnoreType, Idle, TypeOK
<1>6. ASSUME NEW h \in Handlers, Apply(h) PROVE LogInv'
  <2>1. /\ \A p \in Procs : tx'[p].ev = tx[p].ev
        /\ \A p \in Procs : tx'[p].pc = IF p = h THEN "flushed" ELSE tx[p].pc
    BY <1>0, <1>6 DEF Apply, Flush, TypeOK
  <2>2. /\ UNCHANGED <<exists, logged, applied, ignored, failed, history, aborts>>
        /\ tx[h].pc = "loaded"
    BY <1>6 DEF Apply
  <2> QED
    BY <1>0, <2>1, <2>2
<1>7. ASSUME NEW h \in Handlers, Commit(h) PROVE LogInv'
  BY <1>0, <1>7 DEF Commit, Idle, TypeOK
<1>f. ASSUME NEW h \in Handlers, NEW new, Fail(h, new), tx[h].pc # "idle",
             history[tx[h].ev].flaw # "none"
      PROVE  LogInv'
  <2>1. /\ logged' = logged \cup {tx[h].ev} /\ failed' = failed \cup {tx[h].ev}
        /\ UNCHANGED <<exists, applied, ignored, history, aborts>>
    BY <1>f DEF Fail
  <2>2. /\ tx'[h].ev = 0 /\ tx'[h].pc = "idle"
        /\ \A q \in Procs \ {h} : tx'[q] = tx[q]
    BY <1>0, <1>f DEF Fail, Idle, TypeOK
  <2>3. Pending' = Pending \ {tx[h].ev}
    BY <2>1
  <2>4. \A e \in failed' : e \in logged' /\ ~Done(e)' /\ history'[e].flaw # "none"
    BY <1>f, <2>1
  <2>5. \A e \in Pending' : InProgress(e) => InProgress(e)'
    BY <2>1, <2>2
  <2> QED
    BY <1>0, <1>f, <2>1, <2>2, <2>3, <2>4, <2>5 DEF TypeOK
<1>r. ASSUME NEW h \in Handlers, FailToResolve(h) PROVE LogInv'
  BY <1>f, <1>r DEF FailToResolve
<1>a. ASSUME NEW h \in Handlers, FailToApply(h) PROVE LogInv'
  <2>1. tx[h].ev \in Events /\ tx[h].view \in Subscriptions
    BY <1>0, <1>a DEF FailToApply, Tx
  <2>2. history[tx[h].ev].flaw # "none"
    BY <1>a, <2>1, HalfwayType, HistoryType DEF FailToApply
  <2> QED
    BY <1>f, <1>a, <2>2 DEF FailToApply
<1>8. CASE Commit(Cron)
  BY <1>0, <1>8 DEF Commit, Idle, TypeOK
<1>9. CASE StartReconcile
  BY <1>0, <1>9 DEF StartReconcile, Load, TypeOK
<1>10. CASE ReconcileRemote
  BY <1>0, <1>10 DEF ReconcileRemote, Flush, TypeOK
<1>11. CASE ReconcileLocal
  BY <1>0, <1>11 DEF ReconcileLocal, Flush, TypeOK
<1>c. CASE FailToReconcile
  BY <1>0, <1>c DEF FailToReconcile, Idle, TypeOK
<1>12. CASE ViewSubscription
  BY <1>12 DEF ViewSubscription
<1>13. CASE StartCheckout
  BY <1>13 DEF StartCheckout
<1>14. CASE ProviderChanges
  BY <1>14 DEF ProviderChanges
<1>15. CASE PeriodEnds
  BY <1>15 DEF PeriodEnds
<1>16. ASSUME NEW p \in Procs, Abort(p) PROVE LogInv'
  BY <1>0, <1>16 DEF Abort, Idle, TypeOK
<1>17. CASE UNCHANGED vars
  BY <1>17 DEF vars, systemVars
<1> QED
  BY <1>1, <1>2, <1>3, <1>4, <1>5, <1>6, <1>7, <1>8, <1>9, <1>10, <1>11, <1>12, <1>13,
     <1>14, <1>15, <1>16, <1>17, <1>r, <1>a, <1>c DEF Next, WebhookStep, ReconcileStep

\* No event is applied twice, and at most one that raised nothing is logged without
\* having been done.
THEOREM LogInvariant == Spec => []LogInv
<1>1. Init => LogInv
  BY DEF Init, LogInv, Pending, Done, InProgress, At, Idle, Procs
<1> QED
  BY <1>1, LogInvStep, TypeCorrect, PTL DEF Spec

\* However many processes receive an event, and however often, it takes effect at
\* most once.
THEOREM EventsApplyAtMostOnce == Spec => []AppliedAtMostOnce
<1>1. LogInv => AppliedAtMostOnce
  BY DEF LogInv, AppliedAtMostOnce
<1> QED
  BY <1>1, LogInvariant, PTL

\* But for malformed events that _apply_event raised over, at most one event of an
\* organization is ever logged without being done, and none unless a process died.
THEOREM EventsLost == Spec => []LossBounded
<1>1. LogInv => LossBounded
  BY DEF LogInv, LossBounded, Pending
<1> QED
  BY <1>1, LogInvariant, PTL

\* Both together: an event is not done twice, and not lost but in the cases above.
THEOREM EventsTakeEffectOnce == Spec => []EventsOnce
BY EventsApplyAtMostOnce, EventsLost, PTL DEF EventsOnce

------------------------------------------------------------------------------
(***************************************************************************)
(* Transactions that do not overlap keep the plan in line.                 *)
(***************************************************************************)

\* An event has left the plan behind that raised over the end of its period.
LeftBehind == \E e \in unsynced : history[e].flaw = "period"

\* The only open transaction has loaded what is still in the tables.
SerialInv ==
    /\ Serial
    /\ InSync \/ LeftBehind
    /\ \A p \in Procs :
         /\ tx[p].pc \in {"loaded", "flushed"} =>
              tx[p].view.plan = sub.plan /\ tx[p].view.status = sub.status
         /\ At(p, "loaded") => tx[p].org \in {"unknown", org_plan}
         /\ At(p, "flushed") => tx[p].org = org_plan

LEMMA SerialStep ==
    ASSUME TypeOK, ~overlapped => SerialInv, [Next]_vars, ~overlapped'
    PROVE  SerialInv'
<1> USE DEF Procs, At, worldVars, logVars
<1>0. \A p \in Procs : tx[p] \in Tx
  BY DEF TypeOK
<1>i. SerialInv
  BY Observed DEF Observe, Next, TypeOK, vars
<1>s. Serial'
  <2>1. CASE Next
    BY <2>1, Observed DEF Observe
  <2>2. CASE UNCHANGED vars
    BY <1>i, <2>2 DEF SerialInv, Serial, vars, systemVars
  <2> QED
    BY <2>1, <2>2
<1> USE <1>i, <1>s DEF SerialInv
<1>f. ASSUME NEW p \in Procs, NEW new \in Subscriptions, Flush(p, new), At(p, "loaded"),
             UNCHANGED <<sub, org_plan, unsynced, history>>
      PROVE  SerialInv'
  BY <1>0, <1>f DEF Flush, TypeOK, Tx, InSync, LeftBehind, Serial
<1>1. ASSUME NEW h \in Handlers, NEW e \in Events, Receive(h, e) PROVE SerialInv'
  BY <1>0, <1>1 DEF Receive, TypeOK, InSync, LeftBehind, Idle
<1>2. ASSUME NEW h \in Handlers, Resolve(h) PROVE SerialInv'
  BY <1>0, <1>2 DEF Resolve, Load, TypeOK, InSync, LeftBehind
<1>3. ASSUME NEW h \in Handlers, ResolveAndCreate(h) PROVE SerialInv'
  BY <1>0, <1>3 DEF ResolveAndCreate, Load, TypeOK, InSync, LeftBehind
<1>4. ASSUME NEW h \in Handlers, ResolveNothing(h) PROVE SerialInv'
  BY <1>0, <1>4 DEF ResolveNothing, TypeOK, InSync, LeftBehind, Idle
<1>5. ASSUME NEW h \in Handlers, IgnoreType(h) PROVE SerialInv'
  BY <1>0, <1>5 DEF IgnoreType, TypeOK, InSync, LeftBehind, Idle
<1>6. ASSUME NEW h \in Handlers, Apply(h) PROVE SerialInv'
  <2>1. Change(tx[h].view, history[tx[h].ev]) \in Subscriptions
    BY <1>0, <1>6, ChangeType, HistoryType DEF Apply, Tx
  <2> QED
    BY <1>6, <1>f, <2>1 DEF Apply
<1>7. ASSUME NEW p \in Procs, Commit(p) PROVE SerialInv'
  <2>1. /\ tx[p].view \in Subscriptions /\ tx[p].new \in Subscriptions
        /\ sub \in Subscriptions
    BY <1>0 DEF Tx, TypeOK
  <2>2. sub'.plan = tx[p].new.plan /\ sub'.status = tx[p].new.status
    BY <1>7, <2>1, MergeType DEF Commit
  <2>3. InSync'
    BY <1>7, <2>2 DEF Commit, InSync, Effective
  <2>4. \A q \in Procs : At(q, "idle")'
    BY <1>0, <1>7 DEF Commit, Serial, TypeOK, Idle
  <2> QED
    BY <2>3, <2>4
<1>f2. ASSUME NEW h \in Handlers, NEW new \in Subscriptions, Fail(h, new), ~At(h, "idle"),
              \/ new.plan = sub.plan /\ new.status = sub.status
              \/ history[tx[h].ev].flaw = "period"
       PROVE  InSync' \/ LeftBehind'
  <2>1. CASE history[tx[h].ev].flaw = "period"
    BY <1>f2, <2>1 DEF Fail, LeftBehind
  <2>2. CASE new.plan = sub.plan /\ new.status = sub.status
    <3>1. tx[h].view \in Subscriptions /\ sub \in Subscriptions
      BY <1>0 DEF Tx, TypeOK
    <3>2. sub'.plan = sub.plan /\ sub'.status = sub.status
      BY <1>f2, <2>2, <3>1, MergeType DEF Fail
    <3>3. CASE InSync
      BY <1>f2, <3>2, <3>3 DEF Fail, InSync, Effective
    <3>4. CASE LeftBehind
      BY <1>f2, <3>4 DEF Fail, LeftBehind
    <3> QED
      BY <3>3, <3>4
  <2> QED
    BY <1>f2, <2>1, <2>2
<1>17. ASSUME NEW h \in Handlers, NEW new, Fail(h, new), ~At(h, "idle"), InSync' \/ LeftBehind'
       PROVE  SerialInv'
  <2>1. \A q \in Procs : At(q, "idle")'
    BY <1>0, <1>17 DEF Fail, Serial, TypeOK, Idle
  <2> QED
    BY <1>17, <2>1
<1>18. ASSUME NEW h \in Handlers, FailToResolve(h) PROVE SerialInv'
  <2>1. tx[h].view \in Subscriptions /\ sub \in Subscriptions /\ ~At(h, "idle")
    BY <1>0, <1>18 DEF FailToResolve, Tx, TypeOK
  <2>2. Merge(sub, tx[h].view, tx[h].view) = sub
    BY <2>1 DEF Merge, Subscriptions
  <2>3. InSync' \/ LeftBehind'
    BY <1>18, <2>2 DEF FailToResolve, Fail, InSync, LeftBehind
  <2> QED
    BY <1>17, <1>18, <2>1, <2>3 DEF FailToResolve
<1>19. ASSUME NEW h \in Handlers, FailToApply(h) PROVE SerialInv'
  <2> DEFINE c == history[tx[h].ev]
             new == Halfway(tx[h].view, c)
  <2>1. /\ tx[h].ev \in Events /\ tx[h].view \in Subscriptions /\ ~At(h, "idle")
        /\ tx[h].view.plan = sub.plan /\ tx[h].view.status = sub.status
    BY <1>0, <1>19 DEF FailToApply, Tx
  <2>2. c \in Changes /\ Raises(c) /\ Fail(h, new)
    BY <1>19, <2>1, HistoryType DEF FailToApply
  <2>3. /\ new \in Subscriptions
        /\ c.flaw # "period" => new.plan = sub.plan /\ new.status = sub.status
    BY <2>1, <2>2, HalfwayType
  <2>4. InSync' \/ LeftBehind'
    BY <1>f2, <2>1, <2>2, <2>3
  <2> QED
    BY <1>17, <2>1, <2>2, <2>4
<1>8. CASE StartReconcile
  BY <1>0, <1>8 DEF StartReconcile, Load, TypeOK, InSync, LeftBehind
<1>9. CASE ReconcileRemote
  <2>1. happened \in Events /\ tx[Cron].view \in Subscriptions
    BY <1>0, <1>9 DEF ReconcileRemote, TypeOK, Tx, Events
  <2>2. Downgraded(Fetched(tx[Cron].view)) \in Subscriptions
    BY <2>1, FetchedType, DowngradeType
  <2> QED
    BY <1>9, <1>f, <2>2 DEF ReconcileRemote
<1>10. CASE ReconcileLocal
  <2>1. Downgraded(tx[Cron].view) \in Subscriptions
    BY <1>0, DowngradeType DEF Tx
  <2> QED
    BY <1>10, <1>f, <2>1 DEF ReconcileLocal
<1>20. CASE FailToReconcile
  BY <1>0, <1>20 DEF FailToReconcile, TypeOK, InSync, LeftBehind, Idle
<1>11. CASE ViewSubscription
  BY <1>11 DEF ViewSubscription, InSync, LeftBehind
<1>12. CASE StartCheckout
  <2>1. sub'.plan = sub.plan /\ sub'.status = sub.status
    BY <1>12 DEF StartCheckout, TypeOK, Subscriptions
  <2> QED
    BY <1>12, <2>1 DEF StartCheckout, InSync, LeftBehind, Effective
<1>13. CASE ProviderChanges
  BY <1>13 DEF ProviderChanges, InSync, LeftBehind
<1>14. CASE PeriodEnds
  BY <1>14 DEF PeriodEnds, InSync, LeftBehind
<1>15. ASSUME NEW p \in Procs, Abort(p) PROVE SerialInv'
  BY <1>0, <1>15 DEF Abort, TypeOK, InSync, LeftBehind, Idle
<1>16. CASE UNCHANGED vars
  BY <1>16 DEF vars, systemVars, InSync, LeftBehind
<1> QED
  BY <1>1, <1>2, <1>3, <1>4, <1>5, <1>6, <1>7, <1>8, <1>9, <1>10, <1>11, <1>12, <1>13,
     <1>14, <1>15, <1>16, <1>18, <1>19, <1>20 DEF Next, WebhookStep, ReconcileStep

\* What the only open transaction has loaded is still in the tables, until two overlap.
THEOREM SerialInvariant == Spec => [](~overlapped => SerialInv)
<1>1. Init => SerialInv
  BY DEF Init, SerialInv, Serial, InSync, Effective, LeftBehind, FreshSub, At, Idle, Procs
<1>2. TypeOK /\ (~overlapped => SerialInv) /\ [Next]_vars => (~overlapped => SerialInv)'
  BY SerialStep
<1> QED
  BY <1>1, <1>2, TypeCorrect, PTL DEF Spec

\* As long as no two transactions have overlapped, Organization.plan is the plan
\* that the subscription grants, whatever has crashed, unless an event has raised
\* over the end of its period since the last transaction that went through.
THEOREM SerialTransactionsKeepInSync == Spec => []SerialInSync
<1>1. (~overlapped => SerialInv) => SerialInSync
  BY DEF SerialInv, SerialInSync, LeftBehind
<1> QED
  BY <1>1, SerialInvariant, PTL
==============================================================================
