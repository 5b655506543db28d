------------------------------- MODULE Lockout -------------------------------
(***************************************************************************)
(* The lockout of one account: authenticate counts wrong passwords and     *)
(* locks the account when there were MaxAttempts of them.                  *)
(*                                                                         *)
(* The count is read, incremented in memory and written back; requests     *)
(* that overlap have read the same count.  Of the row only columns that    *)
(* differ from what was read are written.                                  *)
(***************************************************************************)
EXTENDS Naturals, FiniteSets

CONSTANTS
    Handlers,      \* login requests that can be open at a time
    MaxAttempts    \* settings.MAX_LOGIN_ATTEMPTS

ASSUME LockoutAssumption == MaxAttempts \in Nat /\ MaxAttempts >= 2

VARIABLES
    attempts,   \* User.failed_login_attempts
    until,      \* User.locked_until: None, in the past or in the future
    req,        \* the row as each open request has read it
    wrong,      \* history: wrong passwords tried since the account was last
                \* locked or logged into
    overlapped  \* history: two requests have been open at a time

accountVars == <<attempts, until, req, wrong>>
vars == <<accountVars, overlapped>>

Idle == [open |-> FALSE, attempts |-> 0, until |-> "none"]
Requests == [open : BOOLEAN, attempts : 0..MaxAttempts, until : {"none", "past"}]

TypeOK ==
    /\ attempts \in 0..(MaxAttempts - 1) /\ until \in {"none", "past", "future"}
    /\ req \in [Handlers -> Requests]
    /\ \A h \in Handlers : req[h].attempts < MaxAttempts
    /\ wrong \in Nat /\ overlapped \in BOOLEAN

Init ==
    /\ attempts = 0 /\ until = "none" /\ wrong = 0 /\ overlapped = FALSE
    /\ req = [h \in Handlers |-> Idle]

\* A locked account is refused at once.
Load(h) ==
    /\ ~req[h].open /\ until # "future"
    /\ req' = [req EXCEPT ![h] = [open |-> TRUE, attempts |-> attempts, until |-> until]]
    /\ UNCHANGED <<attempts, until, wrong>>

Close(h) == req[h].open /\ req' = [req EXCEPT ![h] = Idle]

\* Mistake: the account is locked one attempt late.
WrongOffByOne(h) ==
    /\ Close(h)
    /\ IF req[h].attempts >= MaxAttempts
         THEN attempts' = 0 /\ until' = "future" /\ wrong' = 0
         ELSE attempts' = req[h].attempts + 1 /\ wrong' = wrong + 1 /\ UNCHANGED until

\* Mistake: an account that has been locked before is not locked again.
WrongLocksOnce(h) ==
    /\ Close(h)
    /\ IF req[h].attempts + 1 >= MaxAttempts
         THEN /\ attempts' = 0 /\ wrong' = 0
              /\ until' = IF req[h].until = "none" THEN "future" ELSE until
         ELSE attempts' = req[h].attempts + 1 /\ wrong' = wrong + 1 /\ UNCHANGED until

WrongPassword(h) ==
    /\ Close(h)
    /\ IF req[h].attempts + 1 >= MaxAttempts
         THEN attempts' = 0 /\ until' = "future" /\ wrong' = 0
         ELSE attempts' = req[h].attempts + 1 /\ wrong' = wrong + 1 /\ UNCHANGED until

\* With a right password and a missing or wrong second factor nothing is written.
SecondFactorFails(h) == Close(h) /\ UNCHANGED <<attempts, until, wrong>>

RightPassword(h) ==
    /\ Close(h) /\ wrong' = 0
    /\ attempts' = IF req[h].attempts = 0 THEN attempts ELSE 0
    /\ until' = IF req[h].until = "none" THEN until ELSE "none"

\* LOCKOUT_MINUTES have passed.
LockRunsOut == until = "future" /\ until' = "past" /\ UNCHANGED <<attempts, req, wrong>>

\* Login attempts one at a time.
Serial == \A g, h \in Handlers : req[g].open /\ req[h].open => g = h

\* Every step takes note of whether attempts overlap.
Observe == overlapped' = (overlapped \/ ~Serial')

Next ==
    \/ \E h \in Handlers : Load(h) /\ Observe
    \/ \E h \in Handlers : WrongPassword(h) /\ Observe
    \/ \E h \in Handlers : SecondFactorFails(h) /\ Observe
    \/ \E h \in Handlers : RightPassword(h) /\ Observe
    \/ LockRunsOut /\ Observe

Spec == Init /\ [][Next]_vars

\* "5 hatali denemeden sonra hesap LOCKOUT_MINUTES kadar kilitlenir": fewer than
\* MaxAttempts wrong passwords are tried on an account that is not locked, as long
\* as no two attempts have overlapped.
SerialLocksInTime == ~overlapped => wrong < MaxAttempts

\* Overlapping attempts overwrite each other's count, so there can be more of
\* them, but each counts up from what it has read: whoever goes on with wrong
\* passwords and never has the right one is locked out again and again.
GuessingLocks ==
    /\ []<><<\E h \in Handlers : WrongPassword(h)>>_vars
    /\ <>[][~\E h \in Handlers : RightPassword(h)]_vars
    => []<>(until = "future")
==============================================================================
