--------------------------- MODULE LockoutProofs ---------------------------
(***************************************************************************)
(* Theorems about Accounts and Lockout, for every limit and any number of  *)
(* requests.                                                               *)
(***************************************************************************)
EXTENDS Lockout, Accounts, TLAPS

(***************************************************************************)
(* Accounts.  The open requests are records; who holds an address or a     *)
(* slug in an open transaction holds it alone, and no row has it yet.      *)
(***************************************************************************)
CallPc == {"idle", "new", "flushed", "slugged", "complete", "committed", "mailed",
           "enabling", "confirming"}

Factors == [secret : Nat, enabled : BOOLEAN]

Calls == [pc : CallPc, mail : Mails \cup {"none"}, slug : Nat, factor : Factors]

CallType ==
    /\ call \in [Clients -> Calls] /\ factor \in [Mails -> Factors]
    /\ \A c \in Clients : call[c].pc # "idle" => call[c].mail \in Mails

Holding == {"flushed", "slugged", "complete"}

\* An address is in one open transaction or in one row.
MailsAlone ==
    /\ \A u, v \in users : u.mail = v.mail => u = v
    /\ \A b, c \in Clients :
         call[b].pc \in Holding /\ call[c].pc \in Holding /\ call[b].mail = call[c].mail => b = c
    /\ \A c \in Clients, u \in users : call[c].pc \in Holding => u.mail # call[c].mail

\* A slug too.
SlugsAlone ==
    /\ \A o, p \in orgs : o.slug = p.slug => o = p
    /\ \A b, c \in Clients :
         At2(b, "complete") /\ At2(c, "complete") /\ call[b].slug = call[c].slug => b = c
    /\ \A c \in Clients, o \in orgs : At2(c, "complete") => o.slug # call[c].slug

\* Accounts and organizations go together.
Owned ==
    /\ \A o, p \in orgs : o.owner = p.owner => o = p
    /\ \A o \in orgs : \E u \in users : u.mail = o.owner
    /\ \A u \in users : \E o \in orgs : u.mail = o.owner

\* Whose registration has ended has his mail and his welcome.
Informed ==
    /\ \A c \in Clients : At2(c, "mailed") => call[c].mail \in sent \cup lost
    /\ \A u \in users :
         \/ u.mail \in sent \cap welcomed \/ u.mail \in lost
         \/ call[u.by].pc \in {"committed", "mailed"} /\ call[u.by].mail = u.mail

SignupInv ==
    /\ users \subseteq [mail : Mails, by : Clients]
    /\ MailsAlone /\ SlugsAlone /\ Owned /\ Informed

\* The requests are what the code makes them.
LEMMA CallIsTyped ==
    ASSUME NEW pc \in CallPc, NEW m \in Mails \cup {"none"}, NEW f \in Factors
    PROVE  NewCall(pc, m, f) \in Calls
BY SMT DEF NewCall, Calls

LEMMA NoCallIsTyped == NoCall \in Calls /\ NoCall.pc = "idle" /\ NoFactor \in Factors
<1>1. NoFactor \in Factors
  BY DEF NoFactor, Factors
<1>2. "idle" \in CallPc
  BY DEF CallPc
<1>3. NoCall \in Calls
  BY <1>1, <1>2, CallIsTyped DEF NoCall
<1>4. NoCall.pc = "idle"
  BY DEF NoCall, NewCall
<1> QED
  BY <1>1, <1>3, <1>4

\* What the steps of a request do to it: the others stay as they are.
Only(c) == \A b \in Clients : b # c => call'[b] = call[b]

\* Going on, ending, trying a slug and beginning.
LEMMA MoveOnCall ==
    ASSUME CallType, NEW c \in Clients, NEW pc \in CallPc, MoveOn(c, pc), UNCHANGED factor,
           call[c].pc # "idle"
    PROVE  /\ CallType'
           /\ call'[c].pc = pc /\ call'[c].mail = call[c].mail /\ call'[c].slug = call[c].slug
           /\ Only(c)
BY DEF CallType, MoveOn, Calls, Only

LEMMA HangUpCall ==
    ASSUME CallType, NEW c \in Clients, HangUp(c), factor' \in [Mails -> Factors]
    PROVE  CallType' /\ call'[c].pc = "idle" /\ Only(c)
BY NoCallIsTyped DEF CallType, HangUp, Only

LEMMA SlugCall ==
    ASSUME CallType, NEW c \in Clients, NEW s \in Nat, call' = [call EXCEPT ![c].slug = s],
           UNCHANGED factor
    PROVE  CallType' /\ call'[c].pc = call[c].pc /\ call'[c].mail = call[c].mail /\ Only(c)
BY DEF CallType, Calls, Only

LEMMA OpenCall ==
    ASSUME CallType, NEW c \in Clients, NEW pc \in CallPc, NEW m \in Mails, NEW f \in Factors,
           call' = [call EXCEPT ![c] = NewCall(pc, m, f)], UNCHANGED factor
    PROVE  /\ CallType' /\ call'[c] = NewCall(pc, m, f) /\ call'[c].pc = pc
           /\ call'[c].mail = m /\ Only(c)
<1>1. NewCall(pc, m, f) \in Calls
  BY CallIsTyped
<1>2. NewCall(pc, m, f).pc = pc /\ NewCall(pc, m, f).mail = m
  BY DEF NewCall
<1> QED
  BY <1>1, <1>2 DEF CallType, Only

\* What the two commits about a second factor write.
LEMMA CommitEnableFactor ==
    ASSUME CallType, secrets \in Nat, NEW c \in Clients, CommitEnable(c)
    PROVE  /\ factor' \in [Mails -> Factors]
           /\ \A m \in Mails : m # call[c].mail => factor'[m] = factor[m]
           /\ factor'[call[c].mail].secret = secrets + 1
           /\ factor'[call[c].mail].enabled <=>
                factor[call[c].mail].enabled /\ ~call[c].factor.enabled
<1> DEFINE m == call[c].mail
           f == [secret |-> secrets + 1, enabled |-> factor[m].enabled /\ ~call[c].factor.enabled]
<1>1. m \in Mails
  BY DEF CommitEnable, At2, CallType
<1>2. factor' = [factor EXCEPT ![m] = f]
  BY <1>1 DEF CommitEnable, CallType
<1>3. f \in Factors
  <2>1. secrets + 1 \in Nat
    OBVIOUS
  <2> HIDE DEF m
  <2> QED
    BY <2>1, Zenon DEF Factors
<1>4. f.secret = secrets + 1 /\ (f.enabled <=> factor[m].enabled /\ ~call[c].factor.enabled)
  OBVIOUS
<1> HIDE DEF f
<1> QED
  BY <1>1, <1>2, <1>3, <1>4 DEF CallType

LEMMA CommitConfirmFactor ==
    ASSUME CallType, NEW c \in Clients, CommitConfirm(c)
    PROVE  /\ factor' \in [Mails -> Factors]
           /\ \A m \in Mails : m # call[c].mail => factor'[m] = factor[m]
           /\ factor'[call[c].mail].secret = factor[call[c].mail].secret
<1>1. call[c].mail \in Mails
  BY DEF CommitConfirm, At2, CallType
<1> QED
  BY <1>1 DEF CommitConfirm, CallType, Factors

\* A request that leaves the transactions of registrations and takes up none, while the rows
\* stay as they are, disturbs nothing, provided it was not about to send a mail.
LEMMA CallLeaves ==
    ASSUME SignupInv, NEW c \in Clients,
           UNCHANGED <<users, orgs>>,
           call'[c].pc \notin Holding \cup {"mailed"},
           Only(c),
           sent \subseteq sent', lost \subseteq lost', welcomed \subseteq welcomed',
           call[c].pc \in {"committed", "mailed"} =>
               call[c].mail \in sent' \cap welcomed' \/ call[c].mail \in lost'
    PROVE  SignupInv'
<1> USE DEF Only
<1>1. MailsAlone'
  BY DEF SignupInv, MailsAlone
<1>2. SlugsAlone'
  BY DEF SignupInv, SlugsAlone, At2, Holding
<1>3. Owned'
  BY DEF SignupInv, Owned
<1>4. Informed'
  BY DEF SignupInv, Informed, At2
<1> QED
  BY <1>1, <1>2, <1>3, <1>4 DEF SignupInv

\* Every step keeps what registrations rely on ...
LEMMA RegistrationStep ==
    ASSUME CallType, secrets \in Nat, MaxSuffix \in Nat, SignupInv, AccountsNext
    PROVE  CallType' /\ SignupInv'
<1> USE DEF Only, factorVars
<1>p. {"idle", "new", "flushed", "slugged", "complete", "committed", "mailed", "enabling",
       "confirming"} \subseteq CallPc
  BY DEF CallPc
<1>f. factor \in [Mails -> Factors] /\ \A m \in Mails : factor[m] \in Factors
  BY DEF CallType
<1>1. ASSUME NEW c \in Clients, NEW m \in Mails, FindNoAccount(c, m)
      PROVE  CallType' /\ SignupInv'
  <2>1. /\ CallType' /\ call'[c].pc = "new" /\ Only(c)
    BY <1>1, <1>p, NoCallIsTyped, OpenCall DEF FindNoAccount
  <2>2. call[c].pc = "idle" /\ UNCHANGED registrationVars
    BY <1>1 DEF FindNoAccount, At2
  <2> QED
    BY <2>1, <2>2, CallLeaves DEF registrationVars, Holding
<1>2. ASSUME NEW c \in Clients, InsertUser(c)
      PROVE  CallType' /\ SignupInv'
  <2>u. UNCHANGED registrationVars /\ call[c].pc = "new"
    BY <1>2 DEF InsertUser, At2
  <2>1. CASE HasAccount(call[c].mail)
    <3>1. CallType' /\ call'[c].pc = "idle" /\ Only(c)
      BY <1>2, <2>1, <1>f, HangUpCall DEF InsertUser
    <3> QED
      BY <2>u, <3>1, CallLeaves DEF registrationVars, Holding
  <2>2. CASE ~HasAccount(call[c].mail)
    <3>1. /\ CallType' /\ call'[c].pc = "flushed" /\ call'[c].mail = call[c].mail
          /\ Only(c)
      BY <1>2, <2>2, <1>p, <2>u, MoveOnCall DEF InsertUser
    <3>2. \A b \in Clients : ~(call[b].mail = call[c].mail /\ call[b].pc \in Holding)
      BY <1>2 DEF InsertUser, HoldsMail, Holding
    <3>3. MailsAlone'
      BY <2>u, <2>2, <3>1, <3>2 DEF SignupInv, MailsAlone, HasAccount, registrationVars
    <3>4. SlugsAlone'
      BY <2>u, <3>1 DEF SignupInv, SlugsAlone, At2, registrationVars
    <3>5. Owned'
      BY <2>u DEF SignupInv, Owned, registrationVars
    <3>6. Informed'
      BY <2>u, <3>1 DEF SignupInv, Informed, At2, registrationVars
    <3> QED
      BY <2>u, <3>1, <3>3, <3>4, <3>5, <3>6 DEF SignupInv, registrationVars
  <2> QED
    BY <2>1, <2>2
<1>3. ASSUME NEW c \in Clients, TrySlug(c)
      PROVE  CallType' /\ SignupInv'
  <2>u. UNCHANGED registrationVars /\ call[c].pc = "flushed"
    BY <1>3 DEF TrySlug, At2
  <2>1. /\ CallType' /\ call'[c].pc \in {"flushed", "slugged"} /\ call'[c].mail = call[c].mail
        /\ Only(c)
    <3>1. CASE \E o \in orgs : o.slug = call[c].slug
      <4>1. PICK s \in 1..MaxSuffix : call' = [call EXCEPT ![c].slug = s]
        BY <1>3, <3>1 DEF TrySlug
      <4>2. s \in Nat
        BY <4>1
      <4> QED
        BY <1>3, <2>u, <4>1, <4>2, SlugCall DEF TrySlug
    <3>2. CASE ~\E o \in orgs : o.slug = call[c].slug
      BY <1>3, <3>2, <1>p, <2>u, MoveOnCall DEF TrySlug
    <3> QED
      BY <3>1, <3>2
  <2>3. MailsAlone'
    BY <2>u, <2>1 DEF SignupInv, MailsAlone, Holding, registrationVars
  <2>4. SlugsAlone'
    BY <2>u, <2>1 DEF SignupInv, SlugsAlone, At2, registrationVars
  <2>5. Owned'
    BY <2>u DEF SignupInv, Owned, registrationVars
  <2>6. Informed'
    BY <2>u, <2>1 DEF SignupInv, Informed, At2, registrationVars
  <2> QED
    BY <2>u, <2>1, <2>3, <2>4, <2>5, <2>6 DEF SignupInv, registrationVars
<1>4. ASSUME NEW c \in Clients, InsertOrg(c)
      PROVE  CallType' /\ SignupInv'
  <2>u. UNCHANGED registrationVars /\ call[c].pc = "slugged"
    BY <1>4 DEF InsertOrg, At2
  <2>1. CASE \E o \in orgs : o.slug = call[c].slug
    <3>1. CallType' /\ call'[c].pc = "idle" /\ Only(c)
      BY <1>4, <2>1, <1>f, HangUpCall DEF InsertOrg
    <3> QED
      BY <2>u, <3>1, CallLeaves DEF registrationVars, Holding
  <2>2. CASE ~\E o \in orgs : o.slug = call[c].slug
    <3>1. /\ CallType' /\ call'[c].pc = "complete" /\ call'[c].mail = call[c].mail
          /\ call'[c].slug = call[c].slug
          /\ Only(c)
      BY <1>4, <2>2, <1>p, <2>u, MoveOnCall DEF InsertOrg
    <3>2. \A b \in Clients : ~(At2(b, "complete") /\ call[b].slug = call[c].slug)
      BY <1>4 DEF InsertOrg
    <3>3. MailsAlone'
      BY <2>u, <3>1 DEF SignupInv, MailsAlone, Holding, registrationVars
    <3>4. SlugsAlone'
      BY <2>u, <2>2, <3>1, <3>2 DEF SignupInv, SlugsAlone, At2, registrationVars
    <3>5. Owned'
      BY <2>u DEF SignupInv, Owned, registrationVars
    <3>6. Informed'
      BY <2>u, <3>1 DEF SignupInv, Informed, At2, registrationVars
    <3> QED
      BY <2>u, <3>1, <3>3, <3>4, <3>5, <3>6 DEF SignupInv, registrationVars
  <2> QED
    BY <2>1, <2>2
<1>5. ASSUME NEW c \in Clients, CommitAccount(c)
      PROVE  CallType' /\ SignupInv'
  <2> DEFINE m == call[c].mail
             u0 == [mail |-> m, by |-> c]
             o0 == [slug |-> call[c].slug, owner |-> m]
  <2>1. /\ call[c].pc = "complete" /\ users' = users \cup {u0} /\ orgs' = orgs \cup {o0}
        /\ UNCHANGED <<sent, welcomed, lost>>
    BY <1>5 DEF CommitAccount, At2
  <2>2. /\ CallType' /\ call'[c].pc = "committed" /\ call'[c].mail = m
        /\ Only(c)
    BY <1>5, <1>p, <2>1, MoveOnCall DEF CommitAccount
  <2>m. m \in Mails
    BY <2>1 DEF CallType
  <2>f. u0.mail = m /\ u0.by = c /\ o0.slug = call[c].slug /\ o0.owner = m
    OBVIOUS
  <2>n. \A u \in users : u.mail # m
    BY <2>1 DEF SignupInv, MailsAlone, Holding
  <2>t. users' \subseteq [mail : Mails, by : Clients]
    BY <2>1, <2>m DEF SignupInv
  <2> HIDE DEF u0, o0
  <2>3. MailsAlone'
    BY <2>1, <2>2, <2>f, <2>n DEF SignupInv, MailsAlone, Holding
  <2>4. SlugsAlone'
    BY <2>1, <2>2, <2>f DEF SignupInv, SlugsAlone, At2
  <2>5. Owned'
    BY <2>1, <2>f, <2>n DEF SignupInv, Owned
  <2>6. Informed'
    BY <2>1, <2>2, <2>f DEF SignupInv, Informed, At2
  <2> QED
    BY <2>2, <2>3, <2>4, <2>5, <2>6, <2>t DEF SignupInv
<1>6. ASSUME NEW c \in Clients, SendMail(c)
      PROVE  CallType' /\ SignupInv'
  <2>1. /\ call[c].pc = "committed" /\ UNCHANGED <<users, orgs, welcomed>>
        /\ sent \subseteq sent' /\ lost \subseteq lost' /\ call[c].mail \in sent' \cup lost'
    BY <1>6 DEF SendMail, At2
  <2>2. /\ CallType' /\ call'[c].pc = "mailed" /\ call'[c].mail = call[c].mail
        /\ Only(c)
    BY <1>6, <1>p, <2>1, MoveOnCall DEF SendMail
  <2>3. MailsAlone'
    BY <2>1, <2>2 DEF SignupInv, MailsAlone, Holding
  <2>4. SlugsAlone'
    BY <2>1, <2>2 DEF SignupInv, SlugsAlone, At2
  <2>5. Owned'
    BY <2>1 DEF SignupInv, Owned
  <2>6. Informed'
    BY <2>1, <2>2 DEF SignupInv, Informed, At2
  <2> QED
    BY <2>1, <2>2, <2>3, <2>4, <2>5, <2>6 DEF SignupInv
<1>7. ASSUME NEW c \in Clients, Welcome(c)
      PROVE  CallType' /\ SignupInv'
  <2>1. /\ call[c].pc = "mailed" /\ UNCHANGED <<users, orgs, sent, lost>>
        /\ welcomed' = welcomed \cup {call[c].mail} /\ call[c].mail \in sent \cup lost
    BY <1>7 DEF Welcome, At2, SignupInv, Informed
  <2>2. CallType' /\ call'[c].pc = "idle" /\ Only(c)
    BY <1>7, <1>f, HangUpCall DEF Welcome
  <2> QED
    BY <2>1, <2>2, CallLeaves DEF Holding
<1>8. ASSUME NEW c \in Clients, Die(c)
      PROVE  CallType' /\ SignupInv'
  <2>1. /\ UNCHANGED <<users, orgs, sent, welcomed>> /\ lost \subseteq lost'
        /\ call[c].pc \in {"committed", "mailed"} => call[c].mail \in lost'
    BY <1>8 DEF Die
  <2>2. CallType' /\ call'[c].pc = "idle" /\ Only(c)
    BY <1>8, <1>f, HangUpCall DEF Die
  <2> QED
    BY <2>1, <2>2, CallLeaves DEF Holding
<1>9. ASSUME NEW m \in Mails, VerifyEmail(m) \/ LetterExpires(m)
      PROVE  CallType' /\ SignupInv'
  <2>1. UNCHANGED <<users, orgs, sent, welcomed, lost, call>>
    BY <1>9 DEF VerifyEmail, LetterExpires
  <2> QED
    BY <1>9, <2>1 DEF CallType, VerifyEmail, LetterExpires, SignupInv, MailsAlone, SlugsAlone,
                      Owned, Informed, At2
<1>10. ASSUME NEW c \in Clients, NEW m \in Mails, StartEnable(c, m)
       PROVE  CallType' /\ SignupInv'
  <2>1. CallType' /\ call'[c].pc = "enabling" /\ Only(c)
    BY <1>10, <1>p, <1>f, OpenCall DEF StartEnable, LoadUser
  <2>2. UNCHANGED registrationVars /\ call[c].pc = "idle"
    BY <1>10 DEF StartEnable, LoadUser, At2
  <2> QED
    BY <2>1, <2>2, CallLeaves DEF registrationVars, Holding
<1>11. ASSUME NEW c \in Clients, NEW m \in Mails, StartConfirm(c, m)
       PROVE  CallType' /\ SignupInv'
  <2>1. CallType' /\ call'[c].pc = "confirming" /\ Only(c)
    BY <1>11, <1>p, <1>f, OpenCall DEF StartConfirm, LoadUser
  <2>2. UNCHANGED registrationVars /\ call[c].pc = "idle"
    BY <1>11 DEF StartConfirm, LoadUser, At2
  <2> QED
    BY <2>1, <2>2, CallLeaves DEF registrationVars, Holding
<1>12. ASSUME NEW c \in Clients, CommitEnable(c) \/ CommitConfirm(c)
       PROVE  CallType' /\ SignupInv'
  <2>1. CallType' /\ call'[c].pc = "idle" /\ Only(c)
    BY <1>12, HangUpCall, CommitEnableFactor, CommitConfirmFactor DEF CommitEnable, CommitConfirm
  <2>2. UNCHANGED registrationVars /\ call[c].pc \in {"enabling", "confirming"}
    BY <1>12 DEF CommitEnable, CommitConfirm, At2
  <2> QED
    BY <2>1, <2>2, CallLeaves DEF registrationVars, Holding
<1> QED
  BY <1>1, <1>2, <1>3, <1>4, <1>5, <1>6, <1>7, <1>8, <1>9, <1>10, <1>11, <1>12 DEF AccountsNext

(***************************************************************************)
(* The second factor, while no two requests about the same one overlap:    *)
(* the request there is works on what the row still says.                  *)
(***************************************************************************)
About == {"enabling", "confirming"}

FactorInv ==
    ~twofold =>
        /\ \A b, c \in Clients :
             b # c /\ call[b].pc \in About /\ call[c].pc \in About => call[b].mail # call[c].mail
        /\ \A m \in Mails : factor[m].enabled => factor[m].secret \in confirmed
        /\ \A c \in Clients : At2(c, "confirming") => factor[call[c].mail].secret \in confirmed
        /\ \A c \in Clients :
             At2(c, "enabling") => (call[c].factor.enabled <=> factor[call[c].mail].enabled)

\* A request that is not, or no longer, about the second factor disturbs nothing.
LEMMA FactorCallLeaves ==
    ASSUME FactorInv, NEW c \in Clients, Only(c), UNCHANGED factorVars, call'[c].pc \notin About
    PROVE  FactorInv'
BY DEF FactorInv, Only, factorVars, At2, About

\* A request about the second factor of m begins.
LEMMA FactorStarts ==
    ASSUME CallType, FactorInv, NEW c \in Clients, NEW m \in Mails,
           call'[c].pc \in About, call'[c].mail = m, call'[c].factor = factor[m], Only(c),
           NoteTwofold, UNCHANGED factor, confirmed \subseteq confirmed',
           At2(c, "confirming")' => factor[m].secret \in confirmed'
    PROVE  FactorInv'
<1>1. SUFFICES ASSUME ~twofold' PROVE FactorInv'
  BY DEF FactorInv
<1>2. ~twofold
  BY <1>1 DEF NoteTwofold
<1>3. \A a, b \in Clients :
        b # a /\ call'[b].pc \in About /\ call'[a].pc \in About => call'[b].mail # call'[a].mail
  BY <1>1 DEF NoteTwofold, Overlap2fa, About2fa, About
<1>4. \A b \in Clients : At2(b, "confirming")' => factor'[call'[b].mail].secret \in confirmed'
  BY <1>2 DEF FactorInv, At2, Only
<1>5. \A b \in Clients :
        At2(b, "enabling")' => (call'[b].factor.enabled <=> factor'[call'[b].mail].enabled)
  BY <1>2 DEF FactorInv, At2, Only
<1> QED
  BY <1>2, <1>3, <1>4, <1>5 DEF FactorInv

\* ... and what the second factor relies on.
LEMMA FactorStep ==
    ASSUME CallType, secrets \in Nat, FactorInv, AccountsNext
    PROVE  secrets' \in Nat /\ FactorInv'
<1> USE DEF Only, About
<1>p. {"idle", "new", "flushed", "slugged", "complete", "committed", "mailed", "enabling",
       "confirming"} \subseteq CallPc
  BY DEF CallPc
<1>f. factor \in [Mails -> Factors] /\ \A m \in Mails : factor[m] \in Factors
  BY DEF CallType
<1>0. ASSUME NEW c \in Clients, NEW m \in Mails, FindNoAccount(c, m)
      PROVE  secrets' \in Nat /\ FactorInv'
  <2>1. Only(c) /\ UNCHANGED factorVars /\ call'[c].pc = "new"
    BY <1>0 DEF FindNoAccount, CallType, NewCall
  <2> QED
    BY <2>1, FactorCallLeaves DEF factorVars
<1>1. ASSUME NEW c \in Clients, InsertUser(c) \/ TrySlug(c) \/ InsertOrg(c) \/ CommitAccount(c)
                                \/ SendMail(c) \/ Welcome(c) \/ Die(c)
      PROVE  secrets' \in Nat /\ FactorInv'
  <2>1. Only(c) /\ UNCHANGED factorVars
    BY <1>1 DEF InsertUser, TrySlug, InsertOrg, CommitAccount, SendMail, Welcome, Die, MoveOn,
                HangUp, CallType
  <2>2. call'[c].pc \notin About
    <3> USE DEF CallType, Calls, NewCall, NoCall, MoveOn, HangUp, At2
    <3>1. CASE InsertUser(c) \/ InsertOrg(c) \/ CommitAccount(c)
      BY <3>1 DEF InsertUser, InsertOrg, CommitAccount
    <3>2. CASE TrySlug(c)
      BY <3>2 DEF TrySlug
    <3>3. CASE SendMail(c) \/ Welcome(c) \/ Die(c)
      BY <3>3 DEF SendMail, Welcome, Die
    <3> QED
      BY <1>1, <3>1, <3>2, <3>3
  <2> QED
    BY <2>1, <2>2, FactorCallLeaves DEF factorVars
<1>2. ASSUME NEW m \in Mails, VerifyEmail(m) \/ LetterExpires(m)
      PROVE  secrets' \in Nat /\ FactorInv'
  BY <1>2 DEF VerifyEmail, LetterExpires, factorVars, FactorInv, At2
<1>3. ASSUME NEW c \in Clients, NEW m \in Mails, StartEnable(c, m)
      PROVE  secrets' \in Nat /\ FactorInv'
  <2>1. /\ call'[c].pc = "enabling" /\ call'[c].mail = m /\ call'[c].factor = factor[m] /\ Only(c)
        /\ UNCHANGED <<factor, confirmed, secrets>> /\ NoteTwofold
    <3>0. /\ call' = [call EXCEPT ![c] = NewCall("enabling", m, factor[m])] /\ UNCHANGED factor
          /\ "enabling" \in CallPc /\ factor[m] \in Factors
      BY <1>3, <1>p, <1>f DEF StartEnable, LoadUser
    <3>1. call'[c] = NewCall("enabling", m, factor[m]) /\ Only(c)
      BY <3>0 DEF CallType
    <3> QED
      BY <1>3, <3>1 DEF StartEnable, NewCall
  <2> QED
    BY <2>1, FactorStarts DEF At2
<1>4. ASSUME NEW c \in Clients, NEW m \in Mails, StartConfirm(c, m)
      PROVE  secrets' \in Nat /\ FactorInv'
  <2>1. /\ call'[c].pc = "confirming" /\ call'[c].mail = m /\ call'[c].factor = factor[m] /\ Only(c)
        /\ UNCHANGED <<factor, secrets>> /\ confirmed' = confirmed \cup {factor[m].secret}
        /\ NoteTwofold
    <3>0. /\ call' = [call EXCEPT ![c] = NewCall("confirming", m, factor[m])] /\ UNCHANGED factor
          /\ "confirming" \in CallPc /\ factor[m] \in Factors
      BY <1>4, <1>p, <1>f DEF StartConfirm, LoadUser
    <3>1. call'[c] = NewCall("confirming", m, factor[m]) /\ Only(c)
      BY <3>0 DEF CallType
    <3> QED
      BY <1>4, <3>1 DEF StartConfirm, NewCall
  <2> QED
    BY <2>1, FactorStarts DEF At2
<1>5. ASSUME NEW c \in Clients, CommitEnable(c)
      PROVE  secrets' \in Nat /\ FactorInv'
  <2>1. /\ factor' \in [Mails -> Factors]
        /\ \A m \in Mails : m # call[c].mail => factor'[m] = factor[m]
        /\ factor'[call[c].mail].enabled <=>
             factor[call[c].mail].enabled /\ ~call[c].factor.enabled
    BY <1>5, CommitEnableFactor
  <2>2. /\ call[c].pc = "enabling" /\ call'[c].pc = "idle" /\ Only(c)
        /\ UNCHANGED <<confirmed, twofold>> /\ secrets' = secrets + 1
    BY <1>5, <2>1, HangUpCall DEF CommitEnable, At2
  <2>3. \A b \in Clients : call[b].pc # "idle" => call[b].mail \in Mails
    BY DEF CallType
  <2>4. ~twofold => ~factor'[call[c].mail].enabled
    BY <2>1, <2>2 DEF FactorInv, At2
  <2> QED
    BY <2>1, <2>2, <2>3, <2>4 DEF FactorInv, At2
<1>6. ASSUME NEW c \in Clients, CommitConfirm(c)
      PROVE  secrets' \in Nat /\ FactorInv'
  <2>1. /\ factor' \in [Mails -> Factors]
        /\ \A m \in Mails : m # call[c].mail => factor'[m] = factor[m]
        /\ factor'[call[c].mail].secret = factor[call[c].mail].secret
    BY <1>6, CommitConfirmFactor
  <2>2. /\ call[c].pc = "confirming" /\ call'[c].pc = "idle" /\ Only(c)
        /\ UNCHANGED <<confirmed, twofold, secrets>>
    BY <1>6, <2>1, HangUpCall DEF CommitConfirm, At2
  <2>3. \A b \in Clients : call[b].pc # "idle" => call[b].mail \in Mails
    BY DEF CallType
  <2> QED
    BY <2>1, <2>2, <2>3 DEF FactorInv, At2
<1> QED
  BY <1>0, <1>1, <1>2, <1>3, <1>4, <1>5, <1>6 DEF AccountsNext

\* All of it is inductive.
AccountsInv == CallType /\ secrets \in Nat /\ SignupInv /\ FactorInv

\* It holds from the first state on.
LEMMA AccountsInvariant == AccountsSpec => []AccountsInv
<1>1. AccountsInit => AccountsInv
  <2> SUFFICES ASSUME AccountsInit PROVE AccountsInv
    OBVIOUS
  <2> USE DEF AccountsInit
  <2>1. CallType
    BY NoCallIsTyped DEF CallType
  <2>2. \A c \in Clients : call[c].pc = "idle"
    BY NoCallIsTyped
  <2>3. SignupInv
    BY <2>2 DEF SignupInv, MailsAlone, SlugsAlone, Owned, Informed, At2, Holding
  <2>4. \A m \in Mails : ~factor[m].enabled
    BY DEF NoFactor
  <2>5. FactorInv
    BY <2>2, <2>4 DEF FactorInv, At2, About
  <2> QED
    BY <2>1, <2>3, <2>5 DEF AccountsInv
<1>2. AccountsInv /\ [AccountsNext]_signupVars => AccountsInv'
  <2>1. CASE AccountsNext
    BY <2>1, AccountsAssumption, RegistrationStep, FactorStep DEF AccountsInv
  <2>2. CASE UNCHANGED signupVars
    BY <2>2 DEF signupVars, registrationVars, factorVars, AccountsInv, CallType, SignupInv,
       MailsAlone, SlugsAlone, Owned, Informed, FactorInv, At2
  <2> QED
    BY <2>1, <2>2
<1> QED
  BY <1>1, <1>2, PTL DEF AccountsSpec

\* However many registrations meet, with whatever addresses and suffixes: an address has one
\* account, an account one organization and a slug one organization, and a registration is
\* followed by its mail and its welcome unless the process died or the mail failed.
THEOREM RegistrationIsWhole == AccountsSpec => []AccountsAreWhole
<1>1. AccountsInv => AccountsAreWhole
  <2> SUFFICES ASSUME AccountsInv PROVE AccountsAreWhole
    OBVIOUS
  <2> USE DEF AccountsInv, SignupInv
  <2>1. {o.owner : o \in orgs} = {u.mail : u \in users}
    BY DEF Owned
  <2>2. \A o, p \in orgs : o.slug = p.slug \/ o.owner = p.owner => o = p
    BY DEF Owned, SlugsAlone
  <2> QED
    BY <2>1, <2>2 DEF AccountsAreWhole, MailsAlone, Informed
<1> QED
  BY <1>1, AccountsInvariant, PTL

\* While no two requests about one second factor overlap, one that is asked for at login is
\* one whose code has been given, for any number of accounts and secrets.
THEOREM FactorIsConfirmed == AccountsSpec => []SerialFactorConfirmed
<1>1. AccountsInv => SerialFactorConfirmed
  BY DEF AccountsInv, FactorInv, SerialFactorConfirmed
<1> QED
  BY <1>1, AccountsInvariant, PTL

(***************************************************************************)
(* Lockout.                                                                *)
(***************************************************************************)

USE LockoutAssumption

\* Every step notes whether requests overlap.
LEMMA Observed == Next => Observe
BY DEF Next

LEMMA TypeStep == TypeOK /\ [Next]_vars => TypeOK'
<1> SUFFICES ASSUME TypeOK, [Next]_vars PROVE TypeOK'
  OBVIOUS
<1> USE DEF TypeOK, Requests
<1>o. overlapped' \in BOOLEAN
  BY Observed DEF Observe, Next, vars
<1>i. Idle \in Requests /\ Idle.attempts < MaxAttempts
  BY DEF Idle
<1>1. ASSUME NEW h \in Handlers, Load(h) PROVE TypeOK'
  <2>1. [open |-> TRUE, attempts |-> attempts, until |-> until] \in Requests
    BY <1>1 DEF Load
  <2> QED
    BY <1>1, <1>o, <2>1 DEF Load
<1>2. ASSUME NEW h \in Handlers, WrongPassword(h) PROVE TypeOK'
  BY <1>2, <1>i, <1>o DEF WrongPassword, Close
<1>3. ASSUME NEW h \in Handlers, SecondFactorFails(h) PROVE TypeOK'
  BY <1>3, <1>i, <1>o DEF SecondFactorFails, Close
<1>4. ASSUME NEW h \in Handlers, RightPassword(h) PROVE TypeOK'
  BY <1>4, <1>i, <1>o DEF RightPassword, Close
<1>5. CASE LockRunsOut
  BY <1>5, <1>o DEF LockRunsOut
<1>6. CASE UNCHANGED vars
  BY <1>6, <1>o DEF vars, accountVars
<1> QED
  BY <1>1, <1>2, <1>3, <1>4, <1>5, <1>6 DEF Next

\* However attempts overlap, the stored count stays below the limit.
THEOREM TypeCorrect == Spec => []TypeOK
<1>1. Init => TypeOK
  <2> SUFFICES ASSUME Init PROVE TypeOK
    OBVIOUS
  <2>1. overlapped \in BOOLEAN
    BY DEF Init
  <2>2. attempts = 0 /\ until = "none" /\ wrong = 0
    BY DEF Init
  <2>3. req \in [Handlers -> Requests] /\ \A h \in Handlers : req[h].attempts = 0
    BY DEF Init, Requests, Idle
  <2> QED
    BY <2>1, <2>2, <2>3 DEF TypeOK
<1> QED
  BY <1>1, TypeStep, PTL DEF Spec

\* The open request has read the count there is, and the count has missed nothing.
SerialInv ==
    /\ Serial
    /\ wrong <= attempts
    /\ \A h \in Handlers : req[h].open => req[h].attempts = attempts

LEMMA SerialStep ==
    ASSUME TypeOK, ~overlapped => SerialInv, [Next]_vars, ~overlapped'
    PROVE  SerialInv'
<1>i. SerialInv
  BY Observed DEF Observe, Next, TypeOK, vars
<1>s. Serial'
  <2>1. CASE Next
    BY <2>1, Observed DEF Observe
  <2>2. CASE UNCHANGED vars
    BY <1>i, <2>2 DEF SerialInv, Serial, vars, accountVars
  <2> QED
    BY <2>1, <2>2
<1> USE <1>i DEF TypeOK, Requests, SerialInv, Close
<1>1. ASSUME NEW h \in Handlers, Load(h) PROVE SerialInv'
  BY <1>1, <1>s DEF Load
<1>0. ASSUME NEW h \in Handlers, Close(h) PROVE \A g \in Handlers : ~req'[g].open
  BY <1>0 DEF Idle, Serial
<1>2. ASSUME NEW h \in Handlers, WrongPassword(h) PROVE SerialInv'
  <2>1. Close(h) /\ \A g \in Handlers : ~req'[g].open
    BY <1>0, <1>2 DEF WrongPassword
  <2>2. req[h].attempts = attempts /\ wrong <= attempts /\ attempts \in Nat /\ wrong \in Nat
    BY <2>1
  <2>3. wrong' <= attempts'
    BY <1>2, <2>2 DEF WrongPassword
  <2> QED
    BY <1>s, <2>1, <2>3
<1>3. ASSUME NEW h \in Handlers, SecondFactorFails(h) PROVE SerialInv'
  BY <1>0, <1>3, <1>s DEF SecondFactorFails
<1>4. ASSUME NEW h \in Handlers, RightPassword(h) PROVE SerialInv'
  <2>1. \A g \in Handlers : ~req'[g].open
    BY <1>0, <1>4 DEF RightPassword
  <2>2. wrong' <= attempts'
    BY <1>4 DEF RightPassword
  <2> QED
    BY <1>s, <2>1, <2>2
<1>5. CASE LockRunsOut
  BY <1>5, <1>s DEF LockRunsOut
<1>6. CASE UNCHANGED vars
  BY <1>6, <1>s DEF vars, accountVars
<1> QED
  BY <1>1, <1>2, <1>3, <1>4, <1>5, <1>6 DEF Next

\* As long as no two attempts have overlapped, MaxAttempts wrong passwords in a
\* row lock the account, whatever locks have run out before.
THEOREM LocksInTime == Spec => []SerialLocksInTime
<1>1. Init => SerialInv
  BY DEF Init, SerialInv, Serial, Idle
<1>2. TypeOK /\ (~overlapped => SerialInv) /\ [Next]_vars => (~overlapped => SerialInv)'
  BY SerialStep
<1>3. TypeOK /\ (~overlapped => SerialInv) => SerialLocksInTime
  BY DEF TypeOK, SerialInv, SerialLocksInTime
<1> QED
  BY <1>1, <1>2, <1>3, TypeCorrect, PTL DEF Spec
============================================================================
