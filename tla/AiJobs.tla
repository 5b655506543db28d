------------------------------- MODULE AiJobs -------------------------------
(***************************************************************************)
(* AI requests of one organization in one month: chat questions, which the *)
(* API answers at once, and jobs (summary, quiz, ...), which it runs itself *)
(* or hands to the workers.  Each checks the quota, gets its answer from a *)
(* model or the cache, and adds it to the month's usage rows.              *)
(*                                                                         *)
(* Transactions read committed data; a flush locks the rows it writes until *)
(* the commit, and is one step with it where nothing can come between.     *)
(***************************************************************************)
EXTENDS Naturals, FiniteSets

CONSTANTS
    Handlers,      \* API requests and worker tasks that can be open at a time
    Jobs, NoJob,   \* ids of AIJob rows; none, for a chat question
    RequestLimit, TokenLimit,  \* what the plan allows in a month
    Estimate, Cost,  \* tokens a prompt is estimated at, an answer is charged at most
    EagerModes,    \* bound: the values of AI_JOBS_EAGER to look at
    MaxAborts      \* bound: deaths of handlers

ASSUME AiAssumption ==
    /\ IsFiniteSet(Handlers) /\ IsFiniteSet(Jobs) /\ NoJob \notin Jobs
    /\ RequestLimit \in Nat \ {0} /\ TokenLimit \in Nat
    /\ Estimate \in Nat /\ Cost \in Nat
    /\ EagerModes \subseteq BOOLEAN /\ MaxAborts \in Nat

VARIABLES
    job,         \* AIJob rows: the committed status ("running" never is)
    queue,       \* messages of run_ai_job_task that no worker has taken
    redelivered, \* jobs whose message the broker has delivered again
    requests, tokens,  \* UsageRecord rows of the month, 0 without a row
    answered, spent,   \* history: answers given, tokens spent on them
    req,         \* the open requests and tasks
    eager,       \* settings.AI_JOBS_EAGER of this deployment
    aborts,
    raced        \* history: two have read the usage row and are both to write it

jobVars == <<job, queue, redelivered>>
meterVars == <<requests, tokens, answered, spent>>
aiVars == <<jobVars, meterVars, req, eager, aborts>>
vars == <<aiVars, raced>>

Status == {"none", "pending", "done", "failed", "deleted"}

\* A task at one of these holds the lock of its AIJob row.
Running == {"admitted", "answered", "counting"}
\* cost is what the answer is charged, read the usage row as selected.
Requests == [pc : {"idle", "created"} \cup Running, job : Jobs \cup {NoJob},
             cost : 0..Cost, read : Nat]
Idle == [pc |-> "idle", job |-> NoJob, cost |-> 0, read |-> 0]

TypeOK ==
    /\ job \in [Jobs -> Status] /\ queue \in [Jobs -> Nat] /\ redelivered \in SUBSET Jobs
    /\ requests \in Nat /\ tokens \in Nat /\ answered \in Nat /\ spent \in Nat
    /\ req \in [Handlers -> Requests]
    /\ eager \in EagerModes /\ aborts \in 0..MaxAborts /\ raced \in BOOLEAN

Init ==
    /\ job = [j \in Jobs |-> "none"] /\ queue = [j \in Jobs |-> 0] /\ redelivered = {}
    /\ requests = 0 /\ tokens = 0 /\ answered = 0 /\ spent = 0
    /\ req = [h \in Handlers |-> Idle]
    /\ eager \in EagerModes /\ aborts = 0 /\ raced = FALSE

At(h, label) == req[h].pc = label
Open(h, label, j) == req' = [req EXCEPT ![h] = [Idle EXCEPT !.pc = label, !.job = j]]
Close(h) == req' = [req EXCEPT ![h] = Idle]

Locked(j) == \E h \in Handlers : req[h].job = j /\ req[h].pc \in Running
------------------------------------------------------------------------------
(***************************************************************************)
(* The quota, and how requests come in                                     *)
(***************************************************************************)

\* Mistake: the request that reaches the limit is not the last one.
HasQuotaAtLimit(estimate) == requests <= RequestLimit /\ tokens + estimate <= TokenLimit

\* ensure_ai_quota
HasQuota(estimate) == requests < RequestLimit /\ tokens + estimate <= TokenLimit

AskInChat(h) ==
    /\ At(h, "idle") /\ HasQuota(Estimate) /\ Open(h, "admitted", NoJob)
    /\ UNCHANGED <<jobVars, meterVars, eager, aborts>>

CreateJob(h, j) ==
    /\ At(h, "idle") /\ job[j] = "none" /\ HasQuota(0)
    /\ job' = [job EXCEPT ![j] = "pending"]
    /\ Open(h, "created", j)
    /\ UNCHANGED <<queue, redelivered, meterVars, eager, aborts>>

SendJob(h) ==
    /\ At(h, "created") /\ ~eager
    /\ queue' = [queue EXCEPT ![req[h].job] = @ + 1] /\ Close(h)
    /\ UNCHANGED <<job, redelivered, meterVars, eager, aborts>>

\* The first flush of run_job waits for the row; without quota the job fails.
BeginJob(h, j) ==
    /\ job[j] # "deleted" /\ ~Locked(j)
    /\ IF HasQuota(Estimate)
       THEN job' = job /\ Open(h, "admitted", j)
       ELSE job' = [job EXCEPT ![j] = "failed"] /\ Close(h)
    /\ UNCHANGED <<redelivered, meterVars, eager, aborts>>

RunCreated(h) ==
    /\ At(h, "created") /\ eager /\ BeginJob(h, req[h].job)
    /\ UNCHANGED queue

\* Mistake: the message stays in the queue while the task runs.
TakeJobUnacknowledged(h, j) ==
    /\ At(h, "idle") /\ ~eager /\ queue[j] > 0 /\ BeginJob(h, j)
    /\ UNCHANGED queue

TakeJob(h, j) ==
    /\ At(h, "idle") /\ ~eager /\ queue[j] > 0 /\ BeginJob(h, j)
    /\ queue' = [queue EXCEPT ![j] = @ - 1]

\* The job has been deleted: db.get finds no row, or the flush raises.
DropMessage(j) ==
    /\ queue[j] > 0 /\ job[j] = "deleted"
    /\ queue' = [queue EXCEPT ![j] = @ - 1]
    /\ UNCHANGED <<job, redelivered, meterVars, req, eager, aborts>>
DropCreated(h) ==
    /\ At(h, "created") /\ eager /\ job[req[h].job] = "deleted" /\ Close(h)
    /\ UNCHANGED <<jobVars, meterVars, eager, aborts>>

DeleteJob(j) ==
    /\ job[j] \in {"pending", "done", "failed"} /\ ~Locked(j)
    /\ job' = [job EXCEPT ![j] = "deleted"]
    /\ UNCHANGED <<queue, redelivered, meterVars, req, eager, aborts>>

\* A message that was prefetched, and not acknowledged before the visibility
\* timeout of the broker.
Redeliver(j) ==
    /\ queue[j] > 0 /\ j \notin redelivered /\ redelivered' = redelivered \cup {j}
    /\ queue' = [queue EXCEPT ![j] = @ + 1]
    /\ UNCHANGED <<job, meterVars, req, eager, aborts>>
------------------------------------------------------------------------------
(***************************************************************************)
(* The answer, and what it is charged                                      *)
(***************************************************************************)

\* From the cache for nothing, or from the model.
GetAnswer(h) ==
    /\ At(h, "admitted")
    /\ \E cost \in 0..Cost : req' = [req EXCEPT ![h].pc = "answered", ![h].cost = cost]
    /\ UNCHANGED <<jobVars, meterVars, eager, aborts>>

\* Mistake: the failure is only logged, the status not written.
FailSilently(h) ==
    /\ At(h, "admitted") /\ Close(h)
    /\ UNCHANGED <<jobVars, meterVars, eager, aborts>>

\* The prompt, the model or the moderation raises: the except block of run_job
\* commits FAILED, a chat has written nothing.
Fail(h) ==
    /\ At(h, "admitted") /\ Close(h)
    /\ job' = [j \in Jobs |-> IF j = req[h].job THEN "failed" ELSE job[j]]
    /\ UNCHANGED <<queue, redelivered, meterVars, eager, aborts>>

\* usage.record selects the row of AI_REQUESTS ...
SelectUsage(h) ==
    /\ At(h, "answered")
    /\ req' = [req EXCEPT ![h].pc = "counting", ![h].read = requests]
    /\ UNCHANGED <<jobVars, meterVars, eager, aborts>>

Finish(h) ==
    /\ job' = [j \in Jobs |-> IF j = req[h].job THEN "done" ELSE job[j]]
    /\ answered' = answered + 1 /\ spent' = spent + req[h].cost
    /\ Close(h)
    /\ UNCHANGED <<queue, redelivered, eager, aborts>>

\* Mistake: an answer from the cache is not counted.
RecordMisses(h) ==
    /\ At(h, "counting") /\ (req[h].read = 0 => requests = 0)
    /\ requests' = IF req[h].cost = 0 THEN requests ELSE req[h].read + 1
    /\ tokens' = tokens + req[h].cost
    /\ Finish(h)

\* ... and writes the sum it has computed.  That row, written first and locked,
\* keeps others off the row of AI_TOKENS until the commit.
Record(h) ==
    /\ At(h, "counting") /\ (req[h].read = 0 => requests = 0)
    /\ requests' = req[h].read + 1 /\ tokens' = tokens + req[h].cost
    /\ Finish(h)

\* Another request has inserted the month's row: the unique constraint raises, and
\* the session refuses the commit of the except block as well.
Collide(h) ==
    /\ At(h, "counting") /\ req[h].read = 0 /\ requests # 0 /\ Close(h)
    /\ UNCHANGED <<jobVars, meterVars, eager, aborts>>

\* The process dies, the broker cannot be reached, or the database fails and rolls
\* the transaction back.
Abort(h) ==
    /\ ~At(h, "idle") /\ aborts < MaxAborts /\ aborts' = aborts + 1 /\ Close(h)
    /\ UNCHANGED <<jobVars, meterVars, eager>>
------------------------------------------------------------------------------
Serial == \A g, h \in Handlers : At(g, "counting") /\ At(h, "counting") => g = h

\* Every step takes note of two that have read the usage row.
Observe == raced' = (raced \/ ~Serial')

Accept(h) ==
    \/ AskInChat(h) /\ Observe
    \/ \E j \in Jobs : CreateJob(h, j) /\ Observe
    \/ SendJob(h) /\ Observe
    \/ RunCreated(h) /\ Observe
    \/ \E j \in Jobs : TakeJob(h, j) /\ Observe
    \/ DropCreated(h) /\ Observe

Work(h) ==
    \/ GetAnswer(h) /\ Observe
    \/ Fail(h) /\ Observe
    \/ SelectUsage(h) /\ Observe
    \/ Record(h) /\ Observe
    \/ Collide(h) /\ Observe
    \/ Abort(h) /\ Observe

Next ==
    \/ \E h \in Handlers : Accept(h) \/ Work(h)
    \/ \E j \in Jobs : DropMessage(j) /\ Observe
    \/ \E j \in Jobs : DeleteJob(j) /\ Observe
    \/ \E j \in Jobs : Redeliver(j) /\ Observe

Spec == Init /\ [][Next]_vars
------------------------------------------------------------------------------
(***************************************************************************)
(* Properties                                                              *)
(***************************************************************************)

\* The quota is checked before the model is asked and the answer counted after, so
\* the limits of the plan can be overshot, by what is in flight and no more.  For
\* requests this is so until two have read the usage row before either wrote it: a
\* count that goes back then lets others in before a higher one is written again.
OvershootBounded ==
    /\ ~raced => requests < RequestLimit + Cardinality(Handlers)
    /\ tokens <= TokenLimit + Cost * Cardinality(Handlers)

\* Every answer is counted once, a cached one as a request that costs no tokens.
\* When two have read the usage row before either wrote it, one of them is lost;
\* more is never counted.
AnswersCounted ==
    /\ requests <= answered /\ tokens = spent
    /\ ~raced => requests = answered

\* A pending job is on its way: only a handler that died leaves one behind, or two
\* that meant to insert the first usage row of the month.
Stranded == {j \in Jobs : /\ job[j] = "pending" /\ queue[j] = 0
                          /\ ~\E h \in Handlers : req[h].job = j}
StrandedBounded == ~raced => Cardinality(Stranded) <= aborts

\* A job that is done stays so, runs no more and is not charged again, unless the
\* broker delivers its message again.
DoneIsFinal == [][\A j \in Jobs \ redelivered :
    job[j] = "done" => job'[j] \in {"done", "deleted"} /\ ~Locked(j)']_vars
==============================================================================
