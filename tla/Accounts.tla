------------------------------ MODULE Accounts ------------------------------
(***************************************************************************)
(* Accounts come into being (register and verify_email of services/auth.py *)
(* with the slugs of services/slug.py) and get a second factor (enable_2fa *)
(* and verify_2fa).  A registration is one transaction of several queries, *)
(* then a mail, then a notification; e-mail addresses and slugs are unique *)
(* by an index, which lets a second INSERT wait for the first transaction. *)
(***************************************************************************)
EXTENDS Integers, FiniteSets

CONSTANTS
    Clients,    \* requests that can be open at a time
    Mails,      \* e-mail addresses
    MaxSuffix,  \* bound: random suffixes of slugs that are told apart
    MaxSecrets  \* bound: secrets that are generated

ASSUME AccountsAssumption == MaxSuffix \in Nat /\ MaxSecrets \in Nat

VARIABLES
    users,      \* User rows: [mail, by], by the registration that made it
    orgs,       \* Organization rows: [slug, owner], owner the mail of the OWNER
    letters,    \* EmailVerificationToken of each address: "none", "open", "expired", or "used"
                \* when its user is_verified
    sent,       \* addresses the verification mail was given to the provider for
    welcomed,   \* addresses with the notification WELCOME
    factor,     \* [Mails -> [secret, enabled]]: totp_secret (0 is None), totp_enabled
    call,       \* the open requests: [pc, mail, slug, factor]
    confirmed,  \* history: secrets a code was given for
    secrets,    \* history: how many there are
    lost,       \* history: addresses whose registration stopped after its commit or whose
                \* mail failed
    twofold     \* history: two requests about the second factor have been open at a time

registrationVars == <<users, orgs, letters, sent, welcomed, lost>>
factorVars == <<factor, confirmed, secrets, twofold>>
signupVars == <<registrationVars, factorVars, call>>

NoFactor == [secret |-> 0, enabled |-> FALSE]
NewCall(pc, m, f) == [pc |-> pc, mail |-> m, slug |-> 0, factor |-> f]
NoCall == NewCall("idle", "none", NoFactor)

AccountsInit ==
    /\ users = {} /\ orgs = {} /\ letters = [m \in Mails |-> "none"]
    /\ sent = {} /\ welcomed = {} /\ lost = {}
    /\ factor = [m \in Mails |-> NoFactor] /\ confirmed = {} /\ secrets = 0 /\ twofold = FALSE
    /\ call = [c \in Clients |-> NoCall]

At2(c, pc) == call[c].pc = pc
MoveOn(c, pc) == call' = [call EXCEPT ![c].pc = pc]
HangUp(c) == call' = [call EXCEPT ![c] = NoCall]
HasAccount(m) == \E u \in users : u.mail = m

-----------------------------------------------------------------------------
(* Registration. *)

FindNoAccount(c, m) ==
    /\ At2(c, "idle") /\ ~HasAccount(m)
    /\ call' = [call EXCEPT ![c] = NewCall("new", m, NoFactor)]
    /\ UNCHANGED <<registrationVars, factorVars>>

(* The row is inserted, not committed: whoever inserts the same address waits. *)
HoldsMail(c, m) == call[c].mail = m /\ call[c].pc \in {"flushed", "slugged", "complete"}

(* Mistake: the address is not unique in the table. *)
InsertAnyUser(c) ==
    /\ At2(c, "new") /\ MoveOn(c, "flushed")
    /\ UNCHANGED <<registrationVars, factorVars>>

InsertUser(c) ==
    /\ At2(c, "new")
    /\ ~\E b \in Clients : HoldsMail(b, call[c].mail)
    /\ IF HasAccount(call[c].mail) THEN HangUp(c) ELSE MoveOn(c, "flushed")
    /\ UNCHANGED <<registrationVars, factorVars>>

(* unique_org_slug: the slug of the name, 0, and as long as the one it tries is there, the same
   with a random suffix.  All organizations have the same name here. *)
TrySlug(c) ==
    /\ At2(c, "flushed")
    /\ IF \E o \in orgs : o.slug = call[c].slug
       THEN \E s \in 1..MaxSuffix : call' = [call EXCEPT ![c].slug = s]
       ELSE MoveOn(c, "slugged")
    /\ UNCHANGED <<registrationVars, factorVars>>

(* The slug may be taken by now: the request fails and is rolled back. *)
InsertOrg(c) ==
    /\ At2(c, "slugged")
    /\ ~\E b \in Clients : At2(b, "complete") /\ call[b].slug = call[c].slug
    /\ IF \E o \in orgs : o.slug = call[c].slug THEN HangUp(c) ELSE MoveOn(c, "complete")
    /\ UNCHANGED <<registrationVars, factorVars>>

(* One commit: the user, his organization, his membership as OWNER and the link for the mail. *)
CommitAccount(c) ==
    LET m == call[c].mail IN
    /\ At2(c, "complete") /\ MoveOn(c, "committed")
    /\ users' = users \cup {[mail |-> m, by |-> c]}
    /\ orgs' = orgs \cup {[slug |-> call[c].slug, owner |-> m]}
    /\ letters' = [letters EXCEPT ![m] = "open"]
    /\ UNCHANGED <<sent, welcomed, lost, factorVars>>

(* A mail that cannot be sent is logged, and the request goes on. *)
SendMail(c) ==
    LET m == call[c].mail IN
    /\ At2(c, "committed") /\ MoveOn(c, "mailed")
    /\ \/ sent' = sent \cup {m} /\ UNCHANGED lost
       \/ lost' = lost \cup {m} /\ UNCHANGED sent
    /\ UNCHANGED <<users, orgs, letters, welcomed, factorVars>>

Welcome(c) ==
    /\ At2(c, "mailed") /\ HangUp(c)
    /\ welcomed' = welcomed \cup {call[c].mail}
    /\ UNCHANGED <<users, orgs, letters, sent, lost, factorVars>>

(* The process dies: what is not committed is gone, and what comes after does not come. *)
Die(c) ==
    /\ ~At2(c, "idle") /\ HangUp(c)
    /\ lost' = IF call[c].pc \in {"committed", "mailed"} THEN lost \cup {call[c].mail} ELSE lost
    /\ UNCHANGED <<users, orgs, letters, sent, welcomed, factorVars>>

(* verify_email; who comes twice at the same moment writes the same. *)
VerifyEmail(m) ==
    /\ m \in sent /\ letters[m] = "open"
    /\ letters' = [letters EXCEPT ![m] = "used"]
    /\ UNCHANGED <<users, orgs, sent, welcomed, lost, factorVars, call>>

LetterExpires(m) ==
    /\ letters[m] = "open"
    /\ letters' = [letters EXCEPT ![m] = "expired"]
    /\ UNCHANGED <<users, orgs, sent, welcomed, lost, factorVars, call>>

-----------------------------------------------------------------------------
(* The second factor.  A request works on the row as get_current_user has read it, and writes
   the columns that differ from that. *)

About2fa(c) == call[c].pc \in {"enabling", "confirming"}
Overlap2fa == \E b, c \in Clients :
    b # c /\ About2fa(b) /\ About2fa(c) /\ call[b].mail = call[c].mail
NoteTwofold == twofold' = (twofold \/ Overlap2fa')

LoadUser(c, m, pc) ==
    /\ At2(c, "idle") /\ HasAccount(m)
    /\ call' = [call EXCEPT ![c] = NewCall(pc, m, factor[m])]

(* enable_2fa, on a paid plan *)
StartEnable(c, m) ==
    /\ LoadUser(c, m, "enabling") /\ NoteTwofold
    /\ UNCHANGED <<registrationVars, factor, confirmed, secrets>>

(* Mistake: a new secret leaves the second factor on. *)
CommitEnableStillOn(c) ==
    LET m == call[c].mail IN
    /\ At2(c, "enabling") /\ HangUp(c) /\ secrets < MaxSecrets
    /\ secrets' = secrets + 1
    /\ factor' = [factor EXCEPT ![m].secret = secrets + 1]
    /\ UNCHANGED <<registrationVars, confirmed, twofold>>

CommitEnable(c) ==
    LET m == call[c].mail IN
    /\ At2(c, "enabling") /\ HangUp(c) /\ secrets < MaxSecrets
    /\ secrets' = secrets + 1
    /\ factor' = [factor EXCEPT ![m] =
                    [secret |-> secrets + 1, enabled |-> @.enabled /\ ~call[c].factor.enabled]]
    /\ UNCHANGED <<registrationVars, confirmed, twofold>>

(* verify_2fa, with a code of the secret that was read: another one is refused. *)
StartConfirm(c, m) ==
    /\ factor[m].secret # 0
    /\ LoadUser(c, m, "confirming") /\ NoteTwofold
    /\ confirmed' = confirmed \cup {factor[m].secret}
    /\ UNCHANGED <<registrationVars, factor, secrets>>

CommitConfirm(c) ==
    LET m == call[c].mail IN
    /\ At2(c, "confirming") /\ HangUp(c)
    /\ factor' = [factor EXCEPT ![m].enabled = IF call[c].factor.enabled THEN @ ELSE TRUE]
    /\ UNCHANGED <<registrationVars, confirmed, secrets, twofold>>

-----------------------------------------------------------------------------
AccountsNext ==
    \/ \E c \in Clients, m \in Mails : FindNoAccount(c, m)
    \/ \E c \in Clients : InsertUser(c)
    \/ \E c \in Clients : TrySlug(c)
    \/ \E c \in Clients : InsertOrg(c)
    \/ \E c \in Clients : CommitAccount(c)
    \/ \E c \in Clients : SendMail(c)
    \/ \E c \in Clients : Welcome(c)
    \/ \E c \in Clients : Die(c)
    \/ \E m \in Mails : VerifyEmail(m)
    \/ \E m \in Mails : LetterExpires(m)
    \/ \E c \in Clients, m \in Mails : StartEnable(c, m)
    \/ \E c \in Clients : CommitEnable(c)
    \/ \E c \in Clients, m \in Mails : StartConfirm(c, m)
    \/ \E c \in Clients : CommitConfirm(c)

AccountsSpec == AccountsInit /\ [][AccountsNext]_signupVars

-----------------------------------------------------------------------------
(* However registrations meet, an address has one account, an account has one organization
   and a slug one organization; and whose registration has ended got his mail and his welcome,
   unless the process died or the mail failed. *)
AccountsAreWhole ==
    /\ \A u, v \in users : u.mail = v.mail => u = v
    /\ \A o, p \in orgs : o.slug = p.slug \/ o.owner = p.owner => o = p
    /\ {o.owner : o \in orgs} = {u.mail : u \in users}
    /\ \A u \in users :
         \/ u.mail \in sent \cap welcomed \/ u.mail \in lost
         \/ call[u.by].pc \in {"committed", "mailed"} /\ call[u.by].mail = u.mail

(* As long as no two requests about it have overlapped, a second factor that is asked for at
   login is one its owner has shown to have. *)
SerialFactorConfirmed ==
    ~twofold => \A m \in Mails : factor[m].enabled => factor[m].secret \in confirmed
=============================================================================
