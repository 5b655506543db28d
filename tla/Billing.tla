------------------------------- MODULE Billing -------------------------------
(***************************************************************************)
(* The subscription of one organization: webhook deliveries of the payment *)
(* provider, the daily reconciliation, and the plan that the quotas read.  *)
(*                                                                         *)
(* Each delivery and the reconciliation has a READ COMMITTED transaction   *)
(* of its own.  The ORM loads the subscription row, computes new values in *)
(* memory and, at the end, writes only the columns that differ from what   *)
(* it loaded; the plan of the organization is written the same way.        *)
(***************************************************************************)
EXTENDS Naturals, Sequences, FiniteSets

CONSTANTS
    Handlers,    \* API processes that receive webhooks
    Cron,        \* the worker that runs billing.reconcile
    Length,      \* bound: how many changes the provider makes
    Histories,   \* what these changes may be, in order; each one sends an event
    MaxAborts    \* bound: transactions that die before they commit

Plans == {"free", "pro", "business"}
Statuses == {"active", "trialing", "past_due", "canceled", "incomplete"}
EventTypes == {"checkout", "created", "updated", "deleted", "payment_failed", "other"}

\* plan ("unknown" when its price is none of ours), status and cape are the
\* provider's after the change, whatever the event says of them; ends: it has a
\* current_period_end; byOrg: the event names the organization, not just the
\* customer; flaw: the part of its object that _apply_event raises over.
Changes == [type : EventTypes, plan : Plans \cup {"unknown"},
            status : Statuses \cup {"unpaid"}, cape : BOOLEAN, ends : BOOLEAN,
            byOrg : BOOLEAN, flaw : {"none", "object", "plan", "period"}]

Events == 1..Length

ASSUME HistoryAssumption == Length \in Nat \ {0} /\ Histories \subseteq [Events -> Changes]
ASSUME HandlersAssumption == Cron \notin Handlers /\ MaxAborts \in Nat

Procs == Handlers \cup {Cron}

VARIABLES
    exists,      \* the Subscription row has been created
    sub,         \* its columns; cape is cancel_at_period_end, period is
                 \* current_period_end # None, cust and subid the provider's ids
    org_plan,    \* Organization.plan
    logged,      \* committed WebhookEvent rows
    applied,     \* history: how many times each event took effect
    ignored,     \* history: events answered "ignored"
    failed,      \* the WebhookEvent rows whose error is set
    unsynced,    \* history: those of them since the plan was last brought in line
    tx,          \* the open transaction of each process
    history,     \* the provider's changes, one of Histories
    happened,    \* how many of them it has made
    periodOver,  \* the billing period has ended
    aborts,      \* how many transactions have died
    overlapped   \* history: two transactions have been open at a time

logVars == <<logged, applied, ignored, failed, unsynced>>
worldVars == <<history, happened, periodOver, aborts>>
systemVars == <<exists, sub, org_plan, logVars, tx, worldVars>>
vars == <<systemVars, overlapped>>

Subscriptions == [plan : Plans, status : Statuses, cape : BOOLEAN,
                  period : BOOLEAN, cust : BOOLEAN, subid : BOOLEAN]

\* What get_subscription inserts; an organization with no subscription is free.
FreshSub == [plan |-> "free", status |-> "active", cape |-> FALSE,
             period |-> FALSE, cust |-> FALSE, subid |-> FALSE]

\* ev is the event (0 for reconcile), view and new the loaded and the changed
\* subscription, org the plan of the organization if the session has loaded it.
Tx == [pc : {"idle", "received", "loaded", "flushed"}, ev : {0} \cup Events,
       view : Subscriptions, new : Subscriptions, org : Plans \cup {"unknown"}]
Idle == [pc |-> "idle", ev |-> 0, view |-> FreshSub, new |-> FreshSub, org |-> "unknown"]

TypeOK ==
    /\ exists \in BOOLEAN /\ sub \in Subscriptions /\ org_plan \in Plans
    /\ logged \in SUBSET Events /\ ignored \in SUBSET Events
    /\ failed \in SUBSET Events /\ unsynced \in SUBSET failed
    /\ applied \in [Events -> Nat]
    /\ tx \in [Procs -> Tx]
    /\ \A h \in Handlers : tx[h].pc # "idle" => tx[h].ev # 0
    /\ history \in Histories /\ happened \in 0..Length /\ periodOver \in BOOLEAN
    /\ aborts \in 0..MaxAborts /\ overlapped \in BOOLEAN

Init ==
    /\ exists = FALSE /\ sub = FreshSub /\ org_plan = "free"
    /\ logged = {} /\ ignored = {} /\ applied = [e \in Events |-> 0]
    /\ failed = {} /\ unsynced = {}
    /\ tx = [p \in Procs |-> Idle]
    /\ history \in Histories /\ happened = 0 /\ periodOver = FALSE
    /\ aborts = 0 /\ overlapped = FALSE

------------------------------------------------------------------------------
(***************************************************************************)
(* The rules                                                               *)
(***************************************************************************)

\* _sync_org_plan
Effective(s) == IF s.status \in {"active", "trialing"} THEN s.plan ELSE "free"

\* _plan_from_object: an unknown plan leaves the old one.
NamedPlan(s, c) == IF c.plan \in Plans THEN c.plan ELSE s.plan

\* _apply_event: what event c makes of subscription s.  A status that the enum
\* does not know counts as active.
Change(s, c) ==
    CASE c.type = "checkout" ->
           [s EXCEPT !.cust = TRUE, !.subid = TRUE, !.plan = NamedPlan(s, c),
                     !.status = "active", !.cape = FALSE]
      [] c.type \in {"created", "updated"} ->
           [s EXCEPT !.cust = TRUE, !.subid = TRUE, !.plan = NamedPlan(s, c),
                     !.status = IF c.status \in Statuses THEN c.status ELSE "active",
                     !.cape = c.cape, !.period = c.ends]
      [] c.type = "deleted" ->
           [s EXCEPT !.status = "canceled", !.cape = FALSE, !.period = c.ends,
                     !.plan = "free"]
      [] c.type = "payment_failed" -> [s EXCEPT !.status = "past_due"]

\* _plan_from_object raises over a list of items that is no list of objects,
\* _to_datetime over a number that is no date.
Raises(c) ==
    \/ c.flaw = "plan" /\ c.type \in {"checkout", "created", "updated"}
    \/ c.flaw = "period" /\ c.type \in {"created", "updated", "deleted"}

\* The columns that _apply_event has set by then.
Named(s) == [s EXCEPT !.cust = TRUE, !.subid = TRUE]
Halfway(s, c) ==
    CASE c.flaw = "plan" -> Named(s)
      [] c.type = "deleted" -> [s EXCEPT !.status = "canceled", !.cape = FALSE]
      [] OTHER -> [Change(s, c) EXCEPT !.period = s.period]

Remote == history[happened]

\* fetch_subscription: a known status replaces the local one.
Fetched(s) ==
    [s EXCEPT !.status = IF Remote.status \in Statuses THEN Remote.status ELSE @,
              !.period = @ \/ Remote.ends]

\* Mistake: only a subscription already canceled is downgraded.
DowngradedIfCanceled(s) ==
    IF s.plan # "free" /\ s.status = "canceled"
      THEN [s EXCEPT !.plan = "free", !.status = "canceled"] ELSE s

\* The downgrade of reconcile: canceled, or to be canceled at a period end that
\* has passed.
Downgraded(s) ==
    IF /\ s.plan # "free"
       /\ s.status = "canceled" \/ (s.period /\ periodOver /\ s.cape)
      THEN [s EXCEPT !.plan = "free", !.status = "canceled"] ELSE s

------------------------------------------------------------------------------
(***************************************************************************)
(* Transactions                                                            *)
(***************************************************************************)

At(p, label) == tx[p].pc = label

\* The row as it is after a session that loaded view commits new.
Merge(row, view, new) ==
    [f \in DOMAIN row |-> IF new[f] = view[f] THEN row[f] ELSE new[f]]

\* Between its UPDATE and its commit a transaction holds the lock on the row.
Locked(p) == \E q \in Procs \ {p} : At(q, "flushed") /\ tx[q].new # tx[q].view

\* Load the subscription, and the plan of the organization when it is read first.
Load(p, e, org) ==
    tx' = [tx EXCEPT ![p] = [pc |-> "loaded", ev |-> e, view |-> sub, new |-> sub,
                             org |-> org]]

\* Change the loaded row; reading the organization flushes the UPDATE first, so
\* a row somebody else has updated is waited for.
Flush(p, new) ==
    /\ new # tx[p].view => ~Locked(p)
    /\ tx' = [tx EXCEPT ![p].pc = "flushed", ![p].new = new,
                        ![p].org = IF @ = "unknown" THEN org_plan ELSE @]

------------------------------------------------------------------------------
(***************************************************************************)
(* handle_webhook                                                          *)
(***************************************************************************)

\* Mistake: the log is not consulted.
ReceiveAgain(h, e) ==
    /\ At(h, "idle") /\ e <= happened
    /\ tx' = [tx EXCEPT ![h] = [Idle EXCEPT !.pc = "received", !.ev = e]]
    /\ UNCHANGED <<exists, sub, org_plan, logVars, worldVars>>

\* A logged event is answered "duplicate" and changes nothing; the unique index
\* makes a second delivery wait for the transaction that inserts the same id.
Receive(h, e) ==
    /\ At(h, "idle") /\ e <= happened
    /\ e \notin logged /\ \A q \in Procs : tx[q].ev # e
    /\ tx' = [tx EXCEPT ![h] = [Idle EXCEPT !.pc = "received", !.ev = e]]
    /\ UNCHANGED <<exists, sub, org_plan, logVars, worldVars>>

\* _resolve_subscription finds the row by organization or by customer.
Resolve(h) ==
    LET c == history[tx[h].ev] IN
    /\ At(h, "received") /\ c.flaw # "object"
    /\ exists /\ (c.byOrg \/ sub.cust)
    /\ Load(h, tx[h].ev, "unknown")
    /\ UNCHANGED <<exists, sub, org_plan, logVars, worldVars>>

\* get_subscription creates the missing row and COMMITS, and with it the log row
\* of the event that has not been applied yet.  (The loser of two concurrent
\* creations violates the unique index and is rolled back: see Abort.)
ResolveAndCreate(h) ==
    LET c == history[tx[h].ev] IN
    /\ At(h, "received") /\ c.flaw # "object"
    /\ ~exists /\ c.byOrg
    /\ exists' = TRUE
    /\ logged' = logged \cup {tx[h].ev}
    /\ Load(h, tx[h].ev, org_plan)
    /\ UNCHANGED <<sub, org_plan, applied, ignored, failed, unsynced, worldVars>>

ResolveNothing(h) ==
    LET c == history[tx[h].ev] IN
    /\ At(h, "received") /\ c.flaw # "object"
    /\ ~c.byOrg /\ ~(exists /\ sub.cust)
    /\ logged' = logged \cup {tx[h].ev} /\ ignored' = ignored \cup {tx[h].ev}
    /\ tx' = [tx EXCEPT ![h] = Idle]
    /\ UNCHANGED <<exists, sub, org_plan, applied, failed, unsynced, worldVars>>

\* An event of any other type is "ignored", after the subscription was resolved.
IgnoreType(h) ==
    /\ At(h, "loaded") /\ tx[h].ev # 0 /\ history[tx[h].ev].type = "other"
    /\ logged' = logged \cup {tx[h].ev} /\ ignored' = ignored \cup {tx[h].ev}
    /\ tx' = [tx EXCEPT ![h] = Idle]
    /\ UNCHANGED <<exists, sub, org_plan, applied, failed, unsynced, worldVars>>

Apply(h) ==
    /\ At(h, "loaded") /\ tx[h].ev # 0 /\ history[tx[h].ev].type # "other"
    /\ ~Raises(history[tx[h].ev])
    /\ Flush(h, Change(tx[h].view, history[tx[h].ev]))
    /\ UNCHANGED <<exists, sub, org_plan, logVars, worldVars>>

\* Mistake: the plan of the organization is not brought in line.
CommitWithoutSync(p) ==
    LET t == tx[p] IN
    /\ At(p, "flushed")
    /\ sub' = Merge(sub, t.view, t.new)
    /\ logged' = IF t.ev = 0 THEN logged ELSE logged \cup {t.ev}
    /\ applied' = IF t.ev = 0 THEN applied ELSE [applied EXCEPT ![t.ev] = @ + 1]
    /\ unsynced' = {}
    /\ tx' = [tx EXCEPT ![p] = Idle]
    /\ UNCHANGED <<exists, org_plan, ignored, failed, worldVars>>

\* _sync_org_plan computes the plan from the row in memory and writes it when it
\* differs from the plan it has read.
Commit(p) ==
    LET t == tx[p] IN
    /\ At(p, "flushed")
    /\ sub' = Merge(sub, t.view, t.new)
    /\ org_plan' = IF Effective(t.new) # t.org THEN Effective(t.new) ELSE org_plan
    /\ logged' = IF t.ev = 0 THEN logged ELSE logged \cup {t.ev}
    /\ applied' = IF t.ev = 0 THEN applied ELSE [applied EXCEPT ![t.ev] = @ + 1]
    /\ unsynced' = {}
    /\ tx' = [tx EXCEPT ![p] = Idle]
    /\ UNCHANGED <<exists, ignored, failed, worldVars>>

\* The except block of handle_webhook: whatever _apply_event raised is kept in the
\* log row, and the COMMIT takes along the columns set so far.  The plan of the
\* organization is not brought in line, and the event is a duplicate from now on.
Fail(h, new) ==
    LET t == tx[h] IN
    /\ new # t.view => ~Locked(h)
    /\ sub' = Merge(sub, t.view, new)
    /\ logged' = logged \cup {t.ev}
    /\ failed' = failed \cup {t.ev} /\ unsynced' = unsynced \cup {t.ev}
    /\ tx' = [tx EXCEPT ![h] = Idle]
    /\ UNCHANGED <<exists, org_plan, applied, ignored, worldVars>>

\* _resolve_subscription raises: metadata that is no object, two subscriptions
\* with the id.
FailToResolve(h) ==
    /\ At(h, "received") /\ history[tx[h].ev].flaw = "object"
    /\ Fail(h, tx[h].view)

FailToApply(h) ==
    LET c == history[tx[h].ev] IN
    /\ At(h, "loaded") /\ tx[h].ev # 0 /\ Raises(c)
    /\ Fail(h, Halfway(tx[h].view, c))

------------------------------------------------------------------------------
(***************************************************************************)
(* reconcile                                                               *)
(***************************************************************************)

StartReconcile ==
    /\ At(Cron, "idle") /\ exists
    /\ Load(Cron, 0, "unknown")
    /\ UNCHANGED <<exists, sub, org_plan, logVars, worldVars>>

\* The provider answers for a subscription whose id is known (it has made one).
ReconcileRemote ==
    /\ At(Cron, "loaded") /\ tx[Cron].view.subid /\ happened > 0
    /\ Remote.flaw # "period"
    /\ Flush(Cron, Downgraded(Fetched(tx[Cron].view)))
    /\ UNCHANGED <<exists, sub, org_plan, logVars, worldVars>>

\* _to_datetime raises over the period of the answer, and the reconciliation ends.
FailToReconcile ==
    /\ At(Cron, "loaded") /\ tx[Cron].view.subid /\ happened > 0
    /\ Remote.flaw = "period"
    /\ tx' = [tx EXCEPT ![Cron] = Idle]
    /\ UNCHANGED <<exists, sub, org_plan, logVars, worldVars>>

\* It cannot be reached, or there is no id to ask for.
ReconcileLocal ==
    /\ At(Cron, "loaded")
    /\ Flush(Cron, Downgraded(tx[Cron].view))
    /\ UNCHANGED <<exists, sub, org_plan, logVars, worldVars>>

------------------------------------------------------------------------------
(***************************************************************************)
(* Other requests and the environment                                      *)
(***************************************************************************)

\* get_subscription, usage_summary, open_portal: the row is created when missing.
ViewSubscription ==
    /\ ~exists /\ exists' = TRUE
    /\ UNCHANGED <<sub, org_plan, logVars, tx, worldVars>>

\* start_checkout keeps the customer that the provider names, if it names one.
StartCheckout ==
    /\ exists' = TRUE
    /\ ~sub.cust /\ sub' = [sub EXCEPT !.cust = TRUE]
    /\ UNCHANGED <<org_plan, logVars, tx, worldVars>>

\* The provider makes its next change; the period can only end once it began.
ProviderChanges ==
    /\ happened < Length /\ happened' = happened + 1
    /\ UNCHANGED <<exists, sub, org_plan, logVars, tx, history, periodOver, aborts>>

PeriodEnds ==
    /\ happened > 0 /\ ~periodOver /\ periodOver' = TRUE
    /\ UNCHANGED <<exists, sub, org_plan, logVars, tx, history, happened, aborts>>

\* The process dies or the database fails: the transaction is rolled back.  (After
\* a database error the commit in handle_webhook's except block fails as well; an
\* error of another kind is committed there: see Fail.)
Abort(p) ==
    /\ ~At(p, "idle") /\ aborts < MaxAborts
    /\ aborts' = aborts + 1
    /\ tx' = [tx EXCEPT ![p] = Idle]
    /\ UNCHANGED <<exists, sub, org_plan, logVars, history, happened, periodOver>>

\* Open transactions one at a time: what a single API process without overlapping
\* requests, and a reconciliation at a quiet hour, would do.
Serial == \A p, q \in Procs : ~At(p, "idle") /\ ~At(q, "idle") => p = q

\* Every step takes note of whether transactions overlap.
Observe == overlapped' = (overlapped \/ ~Serial')

WebhookStep(h) ==
    \/ Resolve(h) /\ Observe
    \/ ResolveAndCreate(h) /\ Observe
    \/ ResolveNothing(h) /\ Observe
    \/ IgnoreType(h) /\ Observe
    \/ Apply(h) /\ Observe
    \/ Commit(h) /\ Observe
    \/ FailToResolve(h) /\ Observe
    \/ FailToApply(h) /\ Observe
ReconcileStep ==
    \/ ReconcileRemote /\ Observe
    \/ ReconcileLocal /\ Observe
    \/ FailToReconcile /\ Observe
    \/ Commit(Cron) /\ Observe

Next ==
    \/ \E h \in Handlers, e \in Events : Receive(h, e) /\ Observe
    \/ \E h \in Handlers : WebhookStep(h)
    \/ StartReconcile /\ Observe
    \/ ReconcileStep
    \/ ViewSubscription /\ Observe
    \/ StartCheckout /\ Observe
    \/ ProviderChanges /\ Observe
    \/ PeriodEnds /\ Observe
    \/ \E p \in Procs : Abort(p) /\ Observe

Spec == Init /\ [][Next]_vars

\* The provider retries an event until it is answered, requests that have begun go
\* on, Celery beat starts a reconciliation every day, and the provider is not out
\* of reach at every one of them.
Fairness ==
    /\ \A e \in Events : WF_systemVars(\E h \in Handlers : Receive(h, e))
    /\ \A h \in Handlers : WF_systemVars(WebhookStep(h))
    /\ WF_systemVars(StartReconcile) /\ WF_systemVars(ReconcileStep) /\ SF_systemVars(ReconcileRemote)

FairSpec == Spec /\ Fairness

------------------------------------------------------------------------------
(***************************************************************************)
(* Properties                                                              *)
(***************************************************************************)

\* handle_webhook applies an event at most once, however often and however
\* concurrently it is delivered.
AppliedAtMostOnce == \A e \in Events : applied[e] <= 1

\* The quotas go by the plan that the subscription grants.
InSync == org_plan = Effective(sub)

\* _sync_org_plan at the end of a transaction keeps the two together, through every
\* crash, for as long as no two transactions have overlapped.  The exception is an
\* event that raised over the end of its period: its plan and status are committed
\* without _sync_org_plan, until the next transaction brings the plan in line.  One
\* that raised earlier leaves the plan in line.
SerialInSync ==
    ~overlapped => InSync \/ \E e \in unsynced : history[e].flaw = "period"

\* An event is done when it took effect or was meant to have none.
Done(e) == applied[e] = 1 \/ e \in ignored
InProgress(e) == \E h \in Handlers : tx[h].ev = e

\* A logged event is answered "duplicate" from then on, so one that is logged and
\* not done is lost.  get_subscription commits the log row of the event that creates
\* the subscription before that event is applied: it can be lost, no other, and
\* unless a process has died it is being worked on.  Beside it only events are lost
\* that _apply_event raised over, and it raised over no well-formed one.
LossBounded ==
    /\ \A e, f \in logged \ failed : ~Done(e) /\ ~Done(f) => e = f
    /\ aborts = 0 => \A e \in logged \ failed : Done(e) \/ InProgress(e)
    /\ \A e \in failed : e \in logged /\ ~Done(e) /\ history[e].flaw # "none"

\* Deliveries of an event, however many and wherever: it takes effect once, and only in
\* these cases not in full or not at all.
EventsOnce == AppliedAtMostOnce /\ LossBounded

\* reconcile can read what the provider has of the subscription.
Readable == happened > 0 => Remote.flaw # "period"

\* Whatever races, crashes and malformed events have done, the organization's plan
\* comes back in line and stays there: reconcile repairs what overlapping
\* transactions and events that raised half-way left, if it can read in the end what
\* the provider answers.
Repaired == <>[]Readable => <>[]InSync

Last == history[Length]

\* Once the provider has canceled, the organization ends up on Free and stays
\* there, even if a late event has resurrected the subscription in between, or the
\* cancellation's own event raised or was lost.
CancellationPrevails ==
    (happened = Length /\ Last.status = "canceled" /\ Readable) ~> [](org_plan = "free")

\* A subscription that was to end with its period does not outlive it.
PeriodEndDowngrades ==
    (periodOver /\ sub.cape /\ sub.period /\ logged = Events /\ Readable) ~> org_plan = "free"

\* Whichever way a subscription ends, its organization ends up on Free.
EndsOnFree == CancellationPrevails /\ PeriodEndDowngrades
==============================================================================
