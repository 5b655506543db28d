----------------------------- MODULE MCBilling -----------------------------
(***************************************************************************)
(* Instances of Billing for TLC: what the provider goes through.           *)
(***************************************************************************)
EXTENDS Billing

Event(type, plan, status, cape, byOrg) ==
    [type |-> type, plan |-> plan, status |-> status, cape |-> cape,
     ends |-> type # "checkout", byOrg |-> byOrg, flaw |-> "none"]

Flawed(part, event) == [event EXCEPT !.flaw = part]

\* Subscribed, marked to end with its period, and some event of no interest.
Ending == << Event("checkout", "pro", "active", FALSE, TRUE),
             Event("updated", "pro", "active", TRUE, FALSE),
             Event("other", "pro", "active", TRUE, TRUE) >>

\* Upgraded while trying out, then unpaid (a status that the enum does not know),
\* then canceled.
Canceled == << Event("created", "pro", "trialing", FALSE, TRUE),
               Event("updated", "business", "unpaid", FALSE, FALSE),
               Event("deleted", "business", "canceled", FALSE, TRUE) >>

\* A payment fails when the subscription has just been made.
PastDue == << Event("created", "pro", "active", FALSE, TRUE),
              Event("payment_failed", "pro", "past_due", FALSE, TRUE),
              Event("updated", "business", "past_due", FALSE, TRUE) >>

\* _apply_event raises over the end of the period in the event that cancels.
Malformed == << Event("created", "pro", "active", FALSE, TRUE),
                Flawed("period", Event("deleted", "pro", "canceled", FALSE, TRUE)),
                Event("other", "pro", "canceled", FALSE, FALSE) >>

\* It raises over every event, the one that creates the subscription row first.
BadStart == << Flawed("period", Event("created", "business", "active", FALSE, TRUE)),
               Flawed("object", Event("payment_failed", "business", "past_due", FALSE, TRUE)),
               Flawed("plan", Event("updated", "pro", "active", TRUE, TRUE)) >>

Endings == {Ending, Canceled, PastDue, Malformed, BadStart}
============================================================================
