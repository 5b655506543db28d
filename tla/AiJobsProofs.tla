---------------------------- MODULE AiJobsProofs ----------------------------
(***************************************************************************)
(* Theorems about AiJobs, for every plan and any number of requests, jobs  *)
(* and deaths of handlers.                                                 *)
(***************************************************************************)
EXTENDS AiJobs, FiniteSetTheorems, TLAPS

USE AiAssumption

\* Every step notes whether two have read the usage row.
LEMMA Observed == Next => Observe
BY DEF Next, Accept, Work

\* What the actions make of a request is one.
OpenedAs(label, j) == [Idle EXCEPT !.pc = label, !.job = j]
AnsweredAs(q, cost) == [q EXCEPT !.pc = "answered", !.cost = cost]
CountingAs(q, n) == [q EXCEPT !.pc = "counting", !.read = n]

LEMMA IdleType ==
    /\ Idle \in Requests /\ Idle.pc = "idle" /\ Idle.job = NoJob
    /\ Idle.cost = 0 /\ Idle.read = 0
BY DEF Requests, Running, Idle

LEMMA Opened ==
    ASSUME NEW label \in {"created", "admitted"}, NEW j \in Jobs \cup {NoJob}
    PROVE  LET r == OpenedAs(label, j) IN
           /\ r \in Requests /\ r.pc = label /\ r.job = j /\ r.cost = 0 /\ r.read = 0
BY IdleType DEF Requests, Running, OpenedAs

LEMMA Answered ==
    ASSUME NEW q \in Requests, NEW cost \in 0..Cost
    PROVE  LET r == AnsweredAs(q, cost) IN
           /\ r \in Requests /\ r.pc = "answered" /\ r.job = q.job /\ r.cost = cost
           /\ r.read = q.read
BY DEF Requests, Running, AnsweredAs

LEMMA Counting ==
    ASSUME NEW q \in Requests, NEW n \in Nat
    PROVE  LET r == CountingAs(q, n) IN
           /\ r \in Requests /\ r.pc = "counting" /\ r.job = q.job /\ r.cost = q.cost
           /\ r.read = n
BY DEF Requests, Running, CountingAs

\* The rows, the messages and the counters; the requests.
Data ==
    /\ job \in [Jobs -> Status] /\ queue \in [Jobs -> Nat] /\ redelivered \in SUBSET Jobs
    /\ requests \in Nat /\ tokens \in Nat /\ answered \in Nat /\ spent \in Nat
    /\ aborts \in 0..MaxAborts

\* No request holds a job unless it is open; one that has created a job holds it.
ReqOK(r) ==
    /\ r \in Requests
    /\ r.pc = "idle" => r.job = NoJob
    /\ r.pc = "created" => r.job \in Jobs

Reqs == req \in [Handlers -> Requests] /\ \A h \in Handlers : ReqOK(req[h])

TypeInv == Data /\ Reqs /\ eager \in EagerModes /\ raced \in BOOLEAN

LEMMA ModeStep == TypeInv /\ [Next]_vars => eager' \in EagerModes /\ raced' \in BOOLEAN
<1> SUFFICES ASSUME TypeInv, [Next]_vars PROVE eager' \in EagerModes /\ raced' \in BOOLEAN
  OBVIOUS
<1>1. raced' \in BOOLEAN
  BY Observed DEF Observe, TypeInv, vars
<1>2. eager' = eager
  BY DEF Next, Accept, Work, vars, aiVars, AskInChat, CreateJob, SendJob, RunCreated,
         BeginJob, TakeJob, DropCreated, GetAnswer, Fail, SelectUsage, Record, Finish,
         Collide, Abort, DropMessage, DeleteJob, Redeliver
<1> QED
  BY <1>1, <1>2 DEF TypeInv

LEMMA OneRequest ==
    ASSUME Reqs, NEW h \in Handlers, NEW r, ReqOK(r), req' = [req EXCEPT ![h] = r]
    PROVE  Reqs' /\ \A g \in Handlers : req'[g] = IF g = h THEN r ELSE req[g]
BY DEF Reqs, ReqOK

LEMMA ReqFields ==
    ASSUME Reqs, NEW h \in Handlers
    PROVE  /\ req[h] \in Requests /\ req[h].read \in Nat /\ req[h].cost \in Nat
           /\ req[h].cost \in 0..Cost /\ req[h].job \in Jobs \cup {NoJob}
BY DEF Reqs, Requests

LEMMA IdleOK == ReqOK(Idle)
BY IdleType DEF ReqOK

\* With quota a job is admitted, without it it fails.
LEMMA Begun ==
    ASSUME TypeInv, NEW h \in Handlers, NEW j \in Jobs, BeginJob(h, j)
    PROVE  /\ ~Locked(j) /\ job[j] # "deleted"
           /\ UNCHANGED <<redelivered, meterVars, eager, aborts>>
           /\ \/ /\ HasQuota(Estimate) /\ job' = job
                 /\ req' = [req EXCEPT ![h] = OpenedAs("admitted", j)]
              \/ job' = [job EXCEPT ![j] = "failed"] /\ req' = [req EXCEPT ![h] = Idle]
BY DEF BeginJob, Open, Close, OpenedAs

LEMMA DataStep == TypeInv /\ Next => Data'
<1> SUFFICES ASSUME TypeInv, Next PROVE Data'
  OBVIOUS
<1>d. Data /\ Reqs
  BY DEF TypeInv
<1> USE <1>d DEF Data, Status, jobVars, meterVars
<1>0. ASSUME UNCHANGED <<jobVars, meterVars, eager, aborts>> PROVE Data'
  BY <1>0
<1>1. ASSUME NEW h \in Handlers, AskInChat(h) \/ GetAnswer(h) \/ SelectUsage(h) \/ Collide(h)
                               \/ DropCreated(h)
      PROVE  Data'
  <2>1. UNCHANGED <<jobVars, meterVars, eager, aborts>>
    BY ONLY <1>1 DEF AskInChat, GetAnswer, SelectUsage, Collide, DropCreated
  <2> QED
    BY ONLY <1>0, <2>1
<1>2. ASSUME NEW h \in Handlers, NEW j \in Jobs, CreateJob(h, j) PROVE Data'
  BY <1>2 DEF CreateJob
<1>3. ASSUME NEW h \in Handlers, SendJob(h) PROVE Data'
  <2>1. req[h].job \in Jobs /\ queue[req[h].job] + 1 \in Nat
    BY <1>3 DEF SendJob, At, Reqs, ReqOK
  <2>2. queue' \in [Jobs -> Nat]
    BY <1>3, <2>1 DEF SendJob
  <2> QED
    BY <1>3, <2>2 DEF SendJob
<1>4. ASSUME NEW h \in Handlers, NEW j \in Jobs, BeginJob(h, j)
      PROVE  /\ job' \in [Jobs -> Status]
             /\ UNCHANGED <<redelivered, requests, tokens, answered, spent, aborts>>
  BY <1>4, Begun DEF TypeInv
<1>5. ASSUME NEW h \in Handlers, RunCreated(h) PROVE Data'
  <2>1. req[h].job \in Jobs
    BY <1>5 DEF RunCreated, At, Reqs, ReqOK
  <2>2. BeginJob(h, req[h].job) /\ queue' = queue
    BY <1>5 DEF RunCreated
  <2> QED
    BY <1>4, <2>1, <2>2
<1>6. ASSUME NEW h \in Handlers, NEW j \in Jobs, TakeJob(h, j) PROVE Data'
  <2>1. BeginJob(h, j) /\ queue[j] > 0 /\ queue' = [queue EXCEPT ![j] = @ - 1]
    BY <1>6 DEF TakeJob
  <2>2. queue[j] - 1 \in Nat
    BY <2>1
  <2> QED
    BY <1>4, <2>1, <2>2
<1>7. ASSUME NEW h \in Handlers, Fail(h) PROVE Data'
  BY <1>7 DEF Fail
<1>8. ASSUME NEW h \in Handlers, Record(h) PROVE Data'
  BY <1>8, ReqFields DEF Record, Finish
<1>9. ASSUME NEW h \in Handlers, Abort(h) PROVE Data'
  BY <1>9 DEF Abort
<1>10. ASSUME NEW j \in Jobs, DropMessage(j) PROVE Data'
  <2>1. queue[j] - 1 \in Nat
    BY <1>10 DEF DropMessage
  <2> QED
    BY <1>10, <2>1 DEF DropMessage
<1>11. ASSUME NEW j \in Jobs, DeleteJob(j) PROVE Data'
  BY <1>11 DEF DeleteJob
<1>12. ASSUME NEW j \in Jobs, Redeliver(j) PROVE Data'
  BY <1>12 DEF Redeliver
<1> QED
  BY <1>1, <1>2, <1>3, <1>5, <1>6, <1>7, <1>8, <1>9, <1>10, <1>11, <1>12
     DEF Next, Accept, Work

LEMMA ReqsStep == TypeInv /\ Next => Reqs'
<1> SUFFICES ASSUME TypeInv, Next PROVE Reqs'
  OBVIOUS
<1>d. Reqs
  BY DEF TypeInv
<1>0. ASSUME NEW h \in Handlers, req' = [req EXCEPT ![h] = Idle] PROVE Reqs'
  BY <1>0, <1>d, IdleOK, OneRequest
<1>1. ASSUME NEW h \in Handlers, NEW label \in {"created", "admitted"},
             NEW j \in Jobs \cup {NoJob}, label = "created" => j \in Jobs,
             req' = [req EXCEPT ![h] = OpenedAs(label, j)]
      PROVE  Reqs'
  <2>1. ReqOK(OpenedAs(label, j))
    BY <1>1, Opened DEF ReqOK
  <2> QED
    BY <1>1, <1>d, <2>1, OneRequest
<1>2. ASSUME NEW h \in Handlers, AskInChat(h) PROVE Reqs'
  BY <1>1, <1>2 DEF AskInChat, Open, OpenedAs
<1>3. ASSUME NEW h \in Handlers, NEW j \in Jobs, CreateJob(h, j) PROVE Reqs'
  BY <1>1, <1>3 DEF CreateJob, Open, OpenedAs
<1>4. ASSUME NEW h \in Handlers, NEW j \in Jobs, BeginJob(h, j) PROVE Reqs'
  BY <1>0, <1>1, <1>4, Begun
<1>5. ASSUME NEW h \in Handlers, RunCreated(h) PROVE Reqs'
  BY <1>4, <1>5, <1>d DEF RunCreated, At, Reqs, ReqOK
<1>6. ASSUME NEW h \in Handlers, NEW j \in Jobs, TakeJob(h, j) PROVE Reqs'
  BY <1>4, <1>6 DEF TakeJob
<1>7. ASSUME NEW h \in Handlers,
             SendJob(h) \/ DropCreated(h) \/ Fail(h) \/ Record(h) \/ Collide(h) \/ Abort(h)
      PROVE  Reqs'
  BY <1>0, <1>7 DEF SendJob, DropCreated, Fail, Record, Finish, Collide, Abort, Close
<1>8. ASSUME NEW h \in Handlers, GetAnswer(h) PROVE Reqs'
  <2>1. PICK cost \in 0..Cost : req' = [req EXCEPT ![h] = AnsweredAs(req[h], cost)]
    BY <1>8 DEF GetAnswer, AnsweredAs
  <2>2. ReqOK(AnsweredAs(req[h], cost))
    BY <1>d, ReqFields, Answered DEF ReqOK
  <2> QED
    BY <1>d, <2>1, <2>2, OneRequest
<1>9. ASSUME NEW h \in Handlers, SelectUsage(h) PROVE Reqs'
  <2>1. req' = [req EXCEPT ![h] = CountingAs(req[h], requests)] /\ requests \in Nat
    BY <1>9 DEF SelectUsage, CountingAs, TypeInv, Data
  <2>2. ReqOK(CountingAs(req[h], requests))
    BY <1>d, <2>1, ReqFields, Counting DEF ReqOK
  <2> QED
    BY <1>d, <2>1, <2>2, OneRequest
<1>10. ASSUME UNCHANGED req PROVE Reqs'
  BY <1>10, <1>d DEF Reqs, ReqOK
<1> QED
  BY <1>2, <1>3, <1>5, <1>6, <1>7, <1>8, <1>9, <1>10
     DEF Next, Accept, Work, DropMessage, DeleteJob, Redeliver

LEMMA TypeStep == TypeInv /\ [Next]_vars => TypeInv'
<1> SUFFICES ASSUME TypeInv, [Next]_vars PROVE TypeInv'
  OBVIOUS
<1>1. CASE Next
  BY <1>1, ModeStep, DataStep, ReqsStep DEF TypeInv
<1>2. CASE UNCHANGED vars
  <2>1. Data' /\ Reqs'
    BY <1>2 DEF TypeInv, Data, Reqs, ReqOK, vars, aiVars, jobVars, meterVars
  <2> QED
    BY <2>1, ModeStep DEF TypeInv
<1> QED
  BY <1>1, <1>2

LEMMA TypeInvariant == Spec => []TypeInv
<1>1. Init => TypeInv
  <2> SUFFICES ASSUME Init PROVE TypeInv
    OBVIOUS
  <2>1. Data
    BY DEF Init, Data, Status
  <2>2. Reqs
    BY IdleOK DEF Init, Reqs, ReqOK
  <2> QED
    BY <2>1, <2>2 DEF Init, TypeInv
<1> QED
  BY <1>1, TypeStep, PTL DEF Spec

\* No status but the five is ever committed: a job that runs is still pending in its
\* row, and no message is taken that is not there.
THEOREM TypeCorrect == Spec => []TypeOK
<1>1. TypeInv => TypeOK
  BY DEF TypeInv, Data, Reqs, TypeOK
<1> QED
  BY <1>1, TypeInvariant, PTL
------------------------------------------------------------------------------
(***************************************************************************)
(* What is counted                                                         *)
(***************************************************************************)

\* To the usage rows, a step admits a request that was not running, ...
Admits(h, r) ==
    /\ HasQuota(0) /\ req[h].pc \notin Running /\ r.pc = "admitted"
    /\ req' = [req EXCEPT ![h] = r] /\ UNCHANGED meterVars

\* ... moves one on that was running or has not begun, ...
Moves(h, r) ==
    /\ r.pc \in Running => req[h].pc \in Running
    /\ r.pc = "counting" => r.read = requests
    /\ req' = [req EXCEPT ![h] = r] /\ UNCHANGED meterVars

\* ... writes what one has read and ends it, or is none of theirs.
Writes(h) ==
    /\ req[h].pc = "counting"
    /\ requests' = req[h].read + 1 /\ tokens' = tokens + req[h].cost
    /\ answered' = answered + 1 /\ spent' = spent + req[h].cost
    /\ req' = [req EXCEPT ![h] = Idle]

MeterStep ==
    \/ \E h \in Handlers, r \in Requests : Admits(h, r) \/ Moves(h, r)
    \/ \E h \in Handlers : Writes(h)
    \/ UNCHANGED <<req, meterVars>>

LEMMA MeterSteps == TypeInv /\ [Next]_vars => MeterStep
<1> SUFFICES ASSUME TypeInv, [Next]_vars PROVE MeterStep
  OBVIOUS
<1>d. Reqs /\ requests \in Nat /\ tokens \in Nat
  BY DEF TypeInv, Data
<1>q. HasQuota(Estimate) => HasQuota(0)
  BY <1>d DEF HasQuota
<1>e. Idle.pc \notin Running /\ Idle.pc # "counting" /\ Idle \in Requests
  BY IdleType DEF Running
<1>0. ASSUME NEW h \in Handlers, req' = [req EXCEPT ![h] = Idle], UNCHANGED meterVars
      PROVE  MeterStep
  BY <1>0, <1>e DEF MeterStep, Moves
<1>1. ASSUME NEW h \in Handlers, AskInChat(h) PROVE MeterStep
  <2>1. PICK r : r = OpenedAs("admitted", NoJob)
    OBVIOUS
  <2>2. r \in Requests /\ r.pc = "admitted"
    BY <2>1, Opened
  <2>3. Admits(h, r)
    BY <1>1, <1>q, <2>1, <2>2 DEF AskInChat, At, Open, OpenedAs, Admits, Running
  <2> QED
    BY <2>2, <2>3 DEF MeterStep
<1>2. ASSUME NEW h \in Handlers, NEW j \in Jobs, CreateJob(h, j) PROVE MeterStep
  <2>1. PICK r : r = OpenedAs("created", j)
    OBVIOUS
  <2>2. r \in Requests /\ r.pc = "created"
    BY <2>1, Opened
  <2>3. Moves(h, r)
    BY <1>2, <2>1, <2>2 DEF CreateJob, At, Open, OpenedAs, Moves, Running
  <2> QED
    BY <2>2, <2>3 DEF MeterStep
<1>3. ASSUME NEW h \in Handlers, NEW j \in Jobs, BeginJob(h, j), req[h].pc \notin Running
      PROVE  MeterStep
  <2>1. PICK r : r = OpenedAs("admitted", j)
    OBVIOUS
  <2>2. r \in Requests /\ r.pc = "admitted"
    BY <2>1, Opened
  <2>3. UNCHANGED meterVars
    BY <1>3, Begun
  <2>4. CASE HasQuota(Estimate) /\ req' = [req EXCEPT ![h] = OpenedAs("admitted", j)]
    BY <1>3, <1>q, <2>1, <2>2, <2>3, <2>4 DEF Admits, MeterStep
  <2>5. CASE req' = [req EXCEPT ![h] = Idle]
    BY <1>0, <2>3, <2>5
  <2> QED
    BY <1>3, <2>4, <2>5, Begun
<1>4. ASSUME NEW h \in Handlers, RunCreated(h) PROVE MeterStep
  <2>1. req[h].job \in Jobs /\ req[h].pc \notin Running /\ BeginJob(h, req[h].job)
    BY <1>4, <1>d DEF RunCreated, At, Reqs, ReqOK, Running
  <2> QED
    BY <1>3, <2>1
<1>5. ASSUME NEW h \in Handlers, NEW j \in Jobs, TakeJob(h, j) PROVE MeterStep
  <2>1. req[h].pc \notin Running /\ BeginJob(h, j)
    BY <1>5 DEF TakeJob, At, Running
  <2> QED
    BY <1>3, <2>1
<1>6. ASSUME NEW h \in Handlers,
             SendJob(h) \/ DropCreated(h) \/ Fail(h) \/ Collide(h) \/ Abort(h)
      PROVE  MeterStep
  <2>1. req' = [req EXCEPT ![h] = Idle] /\ UNCHANGED meterVars
    BY <1>6 DEF SendJob, DropCreated, Fail, Collide, Abort, Close
  <2> QED
    BY <1>0, <2>1
<1>7. ASSUME NEW h \in Handlers, GetAnswer(h) PROVE MeterStep
  <2>1. PICK cost \in 0..Cost : req' = [req EXCEPT ![h] = AnsweredAs(req[h], cost)]
    BY <1>7 DEF GetAnswer, AnsweredAs
  <2>2. PICK r : r = AnsweredAs(req[h], cost)
    OBVIOUS
  <2>3. r \in Requests /\ r.pc = "answered"
    BY <1>d, <2>2, ReqFields, Answered
  <2>4. Moves(h, r)
    BY <1>7, <2>1, <2>2, <2>3 DEF GetAnswer, At, Moves, Running
  <2> QED
    BY <2>3, <2>4 DEF MeterStep
<1>8. ASSUME NEW h \in Handlers, SelectUsage(h) PROVE MeterStep
  <2>1. PICK r : r = CountingAs(req[h], requests)
    OBVIOUS
  <2>2. r \in Requests /\ r.pc = "counting" /\ r.read = requests
    BY <1>d, <2>1, ReqFields, Counting
  <2>3. Moves(h, r)
    BY <1>8, <2>1, <2>2 DEF SelectUsage, At, CountingAs, Moves, Running
  <2> QED
    BY <2>2, <2>3 DEF MeterStep
<1>9. ASSUME NEW h \in Handlers, Record(h) PROVE MeterStep
  BY <1>9 DEF Record, Finish, Close, At, Writes, MeterStep
<1>10. ASSUME UNCHANGED <<req, meterVars>> PROVE MeterStep
  BY <1>10 DEF MeterStep
<1>11. CASE UNCHANGED vars
  BY <1>10, <1>11 DEF vars, aiVars
<1>12. CASE \E j \in Jobs : DropMessage(j) \/ DeleteJob(j) \/ Redeliver(j)
  BY <1>10, <1>12 DEF DropMessage, DeleteJob, Redeliver
<1> QED
  BY <1>1, <1>2, <1>4, <1>5, <1>6, <1>7, <1>8, <1>9, <1>11, <1>12 DEF Next, Accept, Work

\* Nothing is counted that was not answered.
CountInv ==
    /\ requests <= answered /\ tokens = spent
    /\ \A h \in Handlers : req[h].pc = "counting" => req[h].read <= answered

LEMMA CountStep == TypeInv /\ CountInv /\ [Next]_vars => CountInv'
<1> SUFFICES ASSUME TypeInv, CountInv, [Next]_vars PROVE CountInv'
  OBVIOUS
<1>d. /\ req \in [Handlers -> Requests] /\ requests \in Nat /\ answered \in Nat
      /\ tokens \in Nat
  BY DEF TypeInv, Data, Reqs
<1>r. \A h \in Handlers : req[h].read \in Nat
  BY ReqFields DEF TypeInv
<1>1. ASSUME NEW h \in Handlers, NEW r \in Requests, req' = [req EXCEPT ![h] = r],
             r.pc = "counting" => r.read = requests, UNCHANGED meterVars
      PROVE  CountInv'
  BY <1>1, <1>d DEF CountInv, meterVars
<1>2. ASSUME NEW h \in Handlers, Writes(h) PROVE CountInv'
  <2>1. \A g \in Handlers : req'[g].pc = "counting" => req'[g].read <= answered
    BY <1>2, <1>d, IdleType DEF CountInv, Writes
  <2>2. \A g \in Handlers : req'[g].pc = "counting" => req'[g].read <= answered'
    BY <1>2, <1>d, <1>r, <2>1, IdleType DEF Writes
  <2>3. requests' <= answered' /\ tokens' = spent'
    BY <1>2, <1>d, <1>r DEF CountInv, Writes
  <2> QED
    BY <2>2, <2>3 DEF CountInv
<1>3. ASSUME UNCHANGED <<req, meterVars>> PROVE CountInv'
  BY <1>3 DEF CountInv, meterVars
<1> QED
  BY <1>1, <1>2, <1>3, MeterSteps DEF MeterStep, Admits, Moves

\* While the usage row is read and written by one at a time, nothing is missed either.
SerialCount ==
    /\ Serial /\ requests = answered
    /\ \A h \in Handlers : req[h].pc = "counting" => req[h].read = requests

LEMMA SerialStep ==
    ASSUME TypeInv, ~raced => SerialCount, [Next]_vars, ~raced'
    PROVE  SerialCount /\ SerialCount'
<1>i. SerialCount
  BY Observed DEF Observe, vars, TypeInv
<1>s. Serial'
  <2>1. CASE Next
    BY <2>1, Observed DEF Observe
  <2>2. CASE UNCHANGED vars
    BY <1>i, <2>2 DEF SerialCount, Serial, At, vars, aiVars
  <2> QED
    BY <2>1, <2>2
<1>d. /\ req \in [Handlers -> Requests] /\ requests \in Nat /\ answered \in Nat
  BY DEF TypeInv, Data, Reqs
<1>1. ASSUME NEW h \in Handlers, NEW r \in Requests, req' = [req EXCEPT ![h] = r],
             r.pc = "counting" => r.read = requests, UNCHANGED meterVars
      PROVE  SerialCount'
  BY <1>1, <1>i, <1>s, <1>d DEF SerialCount, meterVars
<1>2. ASSUME NEW h \in Handlers, Writes(h) PROVE SerialCount'
  <2>1. \A g \in Handlers : req'[g].pc # "counting"
    BY <1>2, <1>i, <1>d, IdleType DEF SerialCount, Serial, At, Writes
  <2>2. requests' = answered'
    BY <1>2, <1>i, <1>d DEF SerialCount, Writes
  <2> QED
    BY <1>s, <2>1, <2>2 DEF SerialCount
<1>3. ASSUME UNCHANGED <<req, meterVars>> PROVE SerialCount'
  BY <1>3, <1>i, <1>s DEF SerialCount, meterVars
<1> QED
  BY <1>i, <1>1, <1>2, <1>3, MeterSteps DEF MeterStep, Admits, Moves

LEMMA Counted == Spec => [](CountInv /\ (~raced => SerialCount))
<1>1. Init => CountInv /\ SerialCount
  BY IdleType DEF Init, CountInv, SerialCount, Serial, At
<1>2. TypeInv /\ (~raced => SerialCount) /\ [Next]_vars => (~raced => SerialCount)'
  BY SerialStep
<1> QED
  BY <1>1, <1>2, CountStep, TypeInvariant, PTL DEF Spec

\* Whatever overlaps, the usage rows count no answer twice and every token once, and
\* while the rows are read and written by one at a time they miss no answer.
THEOREM Metered == Spec => []AnswersCounted
<1>1. CountInv /\ (~raced => SerialCount) => AnswersCounted
  BY DEF CountInv, SerialCount, AnswersCounted
<1> QED
  BY <1>1, Counted, PTL

InFlight == {h \in Handlers : req[h].pc \in Running}

\* What is in flight is added when it is through: that much the limit may be overshot.
Charge(n) == Cost * n
TokensBound == tokens + Charge(Cardinality(InFlight)) <= TokenLimit + Charge(Cardinality(Handlers))
RequestsBound == requests + Cardinality(InFlight) < RequestLimit + Cardinality(Handlers)

LEMMA Charges ==
    /\ Charge(0) = 0
    /\ \A n \in Nat : Charge(n) \in Nat /\ Charge(n + 1) = Charge(n) + Cost
    /\ \A m, n \in Nat : m <= n => Charge(m) <= Charge(n)
BY DEF Charge

LEMMA HowMany ==
    /\ Cardinality(Handlers) \in Nat
    /\ \A S \in SUBSET Handlers : /\ IsFiniteSet(S) /\ Cardinality(S) \in Nat
                                 /\ Cardinality(S) <= Cardinality(Handlers)
    /\ \A S, T \in SUBSET Handlers : S \subseteq T => Cardinality(S) <= Cardinality(T)
BY FS_Subset, FS_CardinalityType

\* How a step changes who is in flight.
LEMMA InFlightStep ==
    ASSUME TypeInv, NEW h \in Handlers, NEW r \in Requests
    PROVE  /\ Moves(h, r) => Cardinality(InFlight') <= Cardinality(InFlight)
           /\ Writes(h) => Cardinality(InFlight) = Cardinality(InFlight') + 1
<1>d. req \in [Handlers -> Requests]
  BY DEF TypeInv, Reqs
<1>0. InFlight \in SUBSET Handlers /\ InFlight' \in SUBSET Handlers
  BY DEF InFlight
<1>1. ASSUME Moves(h, r) PROVE Cardinality(InFlight') <= Cardinality(InFlight)
  <2>1. InFlight' \subseteq InFlight
    BY <1>1, <1>d DEF Moves, InFlight
  <2> QED
    BY <1>0, <2>1, HowMany
<1>2. ASSUME Writes(h) PROVE Cardinality(InFlight) = Cardinality(InFlight') + 1
  <2>1. h \in InFlight /\ InFlight' = InFlight \ {h}
    BY <1>2, <1>d, IdleType DEF Writes, InFlight, Running
  <2>2. Cardinality(InFlight') = Cardinality(InFlight) - 1
    BY <1>0, <2>1, HowMany, FS_RemoveElement
  <2> QED
    BY <1>0, <2>2, HowMany
<1> QED
  BY <1>1, <1>2

LEMMA Bounds ==
    ASSUME TypeInv
    PROVE  /\ Cardinality(InFlight) \in Nat /\ Cardinality(Handlers) \in Nat
           /\ Cardinality(InFlight) <= Cardinality(Handlers)
           /\ tokens \in Nat /\ requests \in Nat
<1>1. InFlight \in SUBSET Handlers
  BY DEF InFlight
<1> QED
  BY <1>1, HowMany DEF TypeInv, Data

LEMMA TokensStep ==
    ASSUME TypeInv, TokensBound, [Next]_vars PROVE TokensBound'
<1> DEFINE n == Cardinality(InFlight)
           m == Cardinality(InFlight')
           all == Cardinality(Handlers)
<1>d. /\ n \in Nat /\ m \in Nat /\ all \in Nat /\ m <= all
      /\ tokens \in Nat
  <2>1. m \in Nat /\ m <= all
    <3>1. InFlight' \in SUBSET Handlers
      BY DEF InFlight
    <3> QED
      BY <3>1, HowMany
  <2> QED
    BY <2>1, Bounds
<1>c. Charge(n) \in Nat /\ Charge(m) \in Nat /\ Charge(all) \in Nat
  BY <1>d, Charges
<1>b. tokens + Charge(n) <= TokenLimit + Charge(all)
  BY DEF TokensBound
<1>q. tokens' + Charge(m) <= TokenLimit + Charge(all) => TokensBound'
  BY DEF TokensBound, Charge
<1>1. ASSUME NEW h \in Handlers, NEW r \in Requests, Admits(h, r) PROVE TokensBound'
  <2>1. tokens <= TokenLimit /\ tokens' = tokens
    BY <1>1, <1>d DEF Admits, HasQuota, meterVars
  <2>2. Charge(m) <= Charge(all)
    BY <1>d, Charges
  <2> QED
    BY <1>d, <1>c, <1>q, <2>1, <2>2
<1>2. ASSUME NEW h \in Handlers, NEW r \in Requests, Moves(h, r) PROVE TokensBound'
  <2>1. m <= n /\ tokens' = tokens
    BY <1>2, InFlightStep DEF Moves, meterVars
  <2>2. Charge(m) <= Charge(n)
    BY <1>d, <2>1, Charges
  <2> QED
    BY <1>d, <1>c, <1>b, <1>q, <2>1, <2>2
<1>3. ASSUME NEW h \in Handlers, Writes(h) PROVE TokensBound'
  <2>1. n = m + 1
    BY <1>3, IdleType, InFlightStep
  <2>2. Charge(n) = Charge(m) + Cost
    BY <1>d, <2>1, Charges
  <2>3. tokens' = tokens + req[h].cost /\ req[h].cost \in Nat /\ req[h].cost <= Cost
    BY <1>3, ReqFields DEF Writes, TypeInv
  <2> QED
    BY <1>d, <1>c, <1>b, <1>q, <2>2, <2>3
<1>4. ASSUME UNCHANGED <<req, meterVars>> PROVE TokensBound'
  BY <1>4 DEF TokensBound, InFlight, meterVars, Charge
<1> QED
  BY <1>1, <1>2, <1>3, <1>4, MeterSteps DEF MeterStep

LEMMA RequestsStep ==
    ASSUME TypeInv, SerialCount, RequestsBound, [Next]_vars PROVE RequestsBound'
<1> DEFINE n == Cardinality(InFlight)
           m == Cardinality(InFlight')
<1>d. /\ n \in Nat /\ m \in Nat /\ Cardinality(Handlers) \in Nat
      /\ m <= Cardinality(Handlers) /\ requests \in Nat /\ RequestLimit \in Nat
  <2>1. m \in Nat /\ m <= Cardinality(Handlers)
    <3>1. InFlight' \in SUBSET Handlers
      BY DEF InFlight
    <3> QED
      BY <3>1, HowMany
  <2> QED
    BY <2>1, Bounds
<1>b. requests + n < RequestLimit + Cardinality(Handlers)
  BY DEF RequestsBound
<1>q. requests' + m < RequestLimit + Cardinality(Handlers) => RequestsBound'
  BY DEF RequestsBound
<1>1. ASSUME NEW h \in Handlers, NEW r \in Requests, Admits(h, r) PROVE RequestsBound'
  <2>1. requests < RequestLimit /\ requests' = requests
    BY <1>1 DEF Admits, HasQuota, meterVars
  <2> QED
    BY <1>d, <1>q, <2>1
<1>2. ASSUME NEW h \in Handlers, NEW r \in Requests, Moves(h, r) PROVE RequestsBound'
  <2>1. m <= n /\ requests' = requests
    BY <1>2, InFlightStep DEF Moves, meterVars
  <2> QED
    BY <1>d, <1>b, <1>q, <2>1
<1>3. ASSUME NEW h \in Handlers, Writes(h) PROVE RequestsBound'
  <2>1. n = m + 1
    BY <1>3, IdleType, InFlightStep
  <2>2. requests' = requests + 1
    BY <1>3 DEF Writes, SerialCount
  <2> QED
    BY <1>d, <1>b, <1>q, <2>1, <2>2
<1>4. ASSUME UNCHANGED <<req, meterVars>> PROVE RequestsBound'
  BY <1>4 DEF RequestsBound, InFlight, meterVars
<1> QED
  BY <1>1, <1>2, <1>3, <1>4, MeterSteps DEF MeterStep

\* The plan's limits are overshot by what is in flight and no more: tokens always,
\* requests while the usage row is read and written by one at a time.
THEOREM Overshoot == Spec => []OvershootBounded
<1>1. Init => TokensBound /\ RequestsBound
  <2> SUFFICES ASSUME Init PROVE TokensBound /\ RequestsBound
    OBVIOUS
  <2>1. InFlight = {}
    BY IdleType DEF Init, InFlight, Running
  <2>2. Cardinality(InFlight) = 0 /\ requests = 0 /\ tokens = 0
    BY <2>1, FS_EmptySet DEF Init
  <2>3. Charge(0) = 0 /\ Charge(Cardinality(Handlers)) \in Nat
    BY HowMany, Charges
  <2> QED
    BY <2>2, <2>3, HowMany DEF TokensBound, RequestsBound
<1>2. /\ TypeInv /\ (~raced => SerialCount) /\ (~raced => RequestsBound) /\ [Next]_vars
      => (~raced => RequestsBound)'
  <2> SUFFICES ASSUME TypeInv, ~raced => SerialCount, ~raced => RequestsBound, [Next]_vars,
                      ~raced'
               PROVE  RequestsBound'
    OBVIOUS
  <2>1. ~raced
    BY Observed DEF Observe, vars, TypeInv
  <2> QED
    BY <2>1, RequestsStep
<1>3. TypeInv /\ TokensBound /\ (~raced => RequestsBound) => OvershootBounded
  <2> SUFFICES ASSUME TypeInv, TokensBound, ~raced => RequestsBound PROVE OvershootBounded
    OBVIOUS
  <2>1. /\ Cardinality(InFlight) \in Nat /\ Cardinality(Handlers) \in Nat
        /\ requests \in Nat /\ tokens \in Nat /\ RequestLimit \in Nat
    BY Bounds
  <2>2. Charge(Cardinality(InFlight)) \in Nat /\ Charge(Cardinality(Handlers)) \in Nat
    BY <2>1, Charges
  <2>3. tokens <= TokenLimit + Cost * Cardinality(Handlers)
    <3>1. tokens <= TokenLimit + Charge(Cardinality(Handlers))
      BY <2>1, <2>2 DEF TokensBound
    <3> QED
      BY <3>1 DEF Charge
  <2>4. RequestsBound => requests < RequestLimit + Cardinality(Handlers)
    BY <2>1 DEF RequestsBound
  <2> QED
    BY <2>3, <2>4 DEF OvershootBounded
<1>4. TypeInv /\ TokensBound /\ [Next]_vars => TokensBound'
  BY TokensStep
<1> QED
  BY <1>1, <1>2, <1>3, <1>4, TypeInvariant, Counted, PTL DEF Spec
------------------------------------------------------------------------------
(***************************************************************************)
(* Where a job is                                                          *)
(***************************************************************************)

\* The job that each request holds, and what a step does to a job: ...
Holder == [h \in Handlers |-> req[h].job]

\* ... it is created by a request, which holds it, ...
Creates(h, j) ==
    /\ job[j] = "none" /\ Holder[h] = NoJob
    /\ job' = [job EXCEPT ![j] = "pending"] /\ Holder' = [Holder EXCEPT ![h] = j]
    /\ UNCHANGED <<queue, redelivered, aborts>>

\* ... is sent and taken, or refused for want of quota, ...
Sends(h, j) ==
    /\ Holder[h] = j /\ Holder' = [Holder EXCEPT ![h] = NoJob]
    /\ queue' = [queue EXCEPT ![j] = @ + 1] /\ UNCHANGED <<job, redelivered, aborts>>

Takes(h, j) ==
    /\ Holder[h] = NoJob /\ queue[j] > 0 /\ job[j] # "deleted"
    /\ queue' = [queue EXCEPT ![j] = @ - 1] /\ UNCHANGED <<redelivered, aborts>>
    /\ \/ job' = job /\ Holder' = [Holder EXCEPT ![h] = j]
       \/ job' = [job EXCEPT ![j] = "failed"] /\ Holder' = Holder

\* ... comes to an end, is left by its holder, ...
Ends(h, status) ==
    /\ job' = [j \in Jobs |-> IF j = Holder[h] THEN status ELSE job[j]]
    /\ Holder' = [Holder EXCEPT ![h] = NoJob] /\ UNCHANGED <<queue, redelivered, aborts>>

Leaves(h) ==
    /\ Holder' = [Holder EXCEPT ![h] = NoJob] /\ UNCHANGED <<job, queue, redelivered>>
    /\ \/ aborts' = aborts + 1
       \/ aborts' = aborts /\ job[Holder[h]] = "deleted"
       \/ aborts' = aborts /\ Collide(h)

\* ... is deleted, and its messages, or gets one message more.
Drops(j) ==
    /\ queue[j] > 0 /\ job[j] = "deleted" /\ queue' = [queue EXCEPT ![j] = @ - 1]
    /\ UNCHANGED <<job, redelivered, Holder, aborts>>

Deletes(j) ==
    /\ job[j] # "none" /\ job' = [job EXCEPT ![j] = "deleted"]
    /\ UNCHANGED <<queue, redelivered, Holder, aborts>>

Redelivers(j) ==
    /\ queue[j] > 0 /\ redelivered' = redelivered \cup {j}
    /\ queue' = [queue EXCEPT ![j] = @ + 1] /\ UNCHANGED <<job, Holder, aborts>>

JobStep ==
    \/ \E h \in Handlers, j \in Jobs : Creates(h, j) \/ Sends(h, j) \/ Takes(h, j)
    \/ \E h \in Handlers : Ends(h, "done") \/ Ends(h, "failed") \/ Leaves(h)
    \/ \E j \in Jobs : Drops(j) \/ Deletes(j) \/ Redelivers(j)
    \/ UNCHANGED <<jobVars, Holder, aborts>>

LEMMA JobSteps == TypeInv /\ [Next]_vars => JobStep
<1> SUFFICES ASSUME TypeInv, [Next]_vars PROVE JobStep
  OBVIOUS
<1>d. /\ Reqs /\ job \in [Jobs -> Status]
      /\ req \in [Handlers -> Requests] /\ \A h \in Handlers : ReqOK(req[h])
  BY DEF TypeInv, Data, Reqs
<1>h. /\ Holder \in [Handlers -> Jobs \cup {NoJob}] /\ DOMAIN Holder' = Handlers
      /\ \A h \in Handlers : Holder[h] = req[h].job /\ Holder'[h] = req'[h].job
  BY <1>d, ReqFields DEF Holder
<1>u. req' = req => Holder' = Holder
  BY DEF Holder
<1>0. ASSUME NEW h \in Handlers, NEW r, req' = [req EXCEPT ![h] = r]
      PROVE  Holder' = [Holder EXCEPT ![h] = r.job]
  <2>1. \A g \in Handlers : req'[g].job = IF g = h THEN r.job ELSE req[g].job
    BY <1>0, <1>d
  <2> QED
    BY <2>1 DEF Holder
<1>1. ASSUME NEW h \in Handlers, req' = [req EXCEPT ![h] = Idle]
      PROVE  Holder' = [Holder EXCEPT ![h] = NoJob]
  BY <1>0, <1>1, IdleType
<1>2. ASSUME NEW h \in Handlers, NEW label \in {"created", "admitted"},
             NEW j \in Jobs \cup {NoJob}, req' = [req EXCEPT ![h] = OpenedAs(label, j)]
      PROVE  Holder' = [Holder EXCEPT ![h] = j]
  <2>1. PICK r : r = OpenedAs(label, j)
    OBVIOUS
  <2>2. r.job = j
    BY <2>1, Opened
  <2> QED
    BY <1>0, <1>2, <2>1, <2>2
<1>3. ASSUME NEW h \in Handlers, NEW r, r.job = req[h].job, req' = [req EXCEPT ![h] = r]
      PROVE  Holder' = Holder
  <2>1. \A g \in Handlers : req'[g].job = req[g].job
    BY <1>3, <1>d
  <2> QED
    BY <2>1 DEF Holder
<1>i. \A h \in Handlers : At(h, "idle") => Holder[h] = NoJob
  BY <1>d, <1>h DEF At, ReqOK
<1>c. \A h \in Handlers : At(h, "created") => Holder[h] \in Jobs /\ Holder[h] = req[h].job
  BY <1>d, <1>h DEF At, ReqOK
<1>4. ASSUME NEW h \in Handlers, AskInChat(h) PROVE JobStep
  <2>1. Holder' = [Holder EXCEPT ![h] = NoJob] /\ Holder[h] = NoJob
    BY <1>2, <1>4, <1>i DEF AskInChat, Open, OpenedAs
  <2>2. Holder' = Holder
    BY <2>1, <1>h
  <2> QED
    BY <1>4, <2>2 DEF AskInChat, JobStep
<1>5. ASSUME NEW h \in Handlers, NEW j \in Jobs, CreateJob(h, j) PROVE JobStep
  <2>1. Holder' = [Holder EXCEPT ![h] = j] /\ Holder[h] = NoJob
    BY <1>2, <1>5, <1>i DEF CreateJob, Open, OpenedAs
  <2>2. Creates(h, j)
    BY <1>5, <2>1 DEF CreateJob, Creates
  <2> QED
    BY <2>2 DEF JobStep
<1>6. ASSUME NEW h \in Handlers, SendJob(h) PROVE JobStep
  <2>1. Holder' = [Holder EXCEPT ![h] = NoJob] /\ Holder[h] = req[h].job /\ Holder[h] \in Jobs
    BY <1>1, <1>6, <1>c DEF SendJob, Close
  <2>2. Sends(h, req[h].job)
    BY <1>6, <2>1 DEF SendJob, Sends
  <2> QED
    BY <2>1, <2>2 DEF JobStep
<1>7. ASSUME NEW h \in Handlers, RunCreated(h) PROVE JobStep
  <2> DEFINE j == req[h].job
  <2>1. j \in Jobs /\ Holder[h] = j /\ BeginJob(h, j) /\ queue' = queue
    BY <1>7, <1>c DEF RunCreated
  <2>2. UNCHANGED <<redelivered, aborts>>
    BY <2>1, Begun
  <2>3. CASE job' = job /\ req' = [req EXCEPT ![h] = OpenedAs("admitted", j)]
    <3>1. Holder' = [Holder EXCEPT ![h] = j]
      BY <1>2, <2>1, <2>3
    <3>2. Holder' = Holder
      BY <1>h, <2>1, <3>1
    <3> QED
      BY <2>1, <2>2, <2>3, <3>2 DEF JobStep, jobVars
  <2>4. CASE job' = [job EXCEPT ![j] = "failed"] /\ req' = [req EXCEPT ![h] = Idle]
    <3>1. job' = [k \in Jobs |-> IF k = Holder[h] THEN "failed" ELSE job[k]]
      BY <1>d, <2>1, <2>4
    <3>2. Ends(h, "failed")
      BY <1>1, <2>1, <2>2, <2>4, <3>1 DEF Ends
    <3> QED
      BY <3>2 DEF JobStep
  <2> QED
    BY <2>1, <2>3, <2>4, Begun
<1>8. ASSUME NEW h \in Handlers, NEW j \in Jobs, TakeJob(h, j) PROVE JobStep
  <2>1. /\ Holder[h] = NoJob /\ BeginJob(h, j) /\ queue[j] > 0
        /\ queue' = [queue EXCEPT ![j] = @ - 1]
    BY <1>8, <1>i DEF TakeJob
  <2>2. UNCHANGED <<redelivered, aborts>> /\ job[j] # "deleted"
    BY <2>1, Begun
  <2>3. CASE job' = job /\ req' = [req EXCEPT ![h] = OpenedAs("admitted", j)]
    <3>1. Holder' = [Holder EXCEPT ![h] = j]
      BY <1>2, <2>3
    <3> QED
      BY <2>1, <2>2, <2>3, <3>1 DEF JobStep, Takes
  <2>4. CASE job' = [job EXCEPT ![j] = "failed"] /\ req' = [req EXCEPT ![h] = Idle]
    <3>1. Holder' = Holder
      BY <1>3, <1>h, <2>1, <2>4, IdleType
    <3> QED
      BY <2>1, <2>2, <2>4, <3>1 DEF JobStep, Takes
  <2> QED
    BY <2>1, <2>3, <2>4, Begun
<1>9. ASSUME NEW h \in Handlers, Fail(h) \/ Record(h) PROVE JobStep
  <2>1. Holder' = [Holder EXCEPT ![h] = NoJob] /\ Holder[h] = req[h].job
    BY <1>1, <1>9, <1>h DEF Fail, Record, Finish, Close
  <2>2. Ends(h, "failed") \/ Ends(h, "done")
    BY <1>9, <2>1 DEF Fail, Record, Finish, Ends
  <2> QED
    BY <2>2 DEF JobStep
<1>10. ASSUME NEW h \in Handlers, DropCreated(h) \/ Collide(h) \/ Abort(h) PROVE JobStep
  <2>1. Holder' = [Holder EXCEPT ![h] = NoJob] /\ Holder[h] = req[h].job
    BY <1>1, <1>10, <1>h DEF DropCreated, Collide, Abort, Close
  <2>2. Leaves(h)
    BY <1>10, <2>1 DEF DropCreated, Collide, Abort, Leaves, jobVars
  <2> QED
    BY <2>2 DEF JobStep
<1>11. ASSUME NEW h \in Handlers, GetAnswer(h) PROVE JobStep
  <2>1. PICK cost \in 0..Cost : req' = [req EXCEPT ![h] = AnsweredAs(req[h], cost)]
    BY <1>11 DEF GetAnswer, AnsweredAs
  <2>2. AnsweredAs(req[h], cost).job = req[h].job
    BY <1>d, ReqFields, Answered
  <2> QED
    BY <1>3, <1>11, <2>1, <2>2 DEF GetAnswer, JobStep
<1>12. ASSUME NEW h \in Handlers, SelectUsage(h) PROVE JobStep
  <2>1. req' = [req EXCEPT ![h] = CountingAs(req[h], requests)] /\ requests \in Nat
    BY <1>12 DEF SelectUsage, CountingAs, TypeInv, Data
  <2>2. CountingAs(req[h], requests).job = req[h].job
    BY <1>d, <2>1, ReqFields, Counting
  <2> QED
    BY <1>3, <1>12, <2>1, <2>2 DEF SelectUsage, JobStep
<1>13. ASSUME NEW j \in Jobs, DropMessage(j) \/ DeleteJob(j) \/ Redeliver(j) PROVE JobStep
  BY <1>13, <1>u DEF DropMessage, DeleteJob, Redeliver, Drops, Deletes, Redelivers, JobStep
<1>14. CASE UNCHANGED vars
  BY <1>14, <1>u DEF vars, aiVars, JobStep
<1> QED
  BY <1>4, <1>5, <1>6, <1>7, <1>8, <1>9, <1>10, <1>11, <1>12, <1>13, <1>14
     DEF Next, Accept, Work

\* A job is in one place: in the queue or with one request, as long as its message is
\* not delivered again, and then it has not come to an end.
OnePlace(j) ==
    /\ queue[j] <= 1
    /\ queue[j] > 0 => job[j] \in {"pending", "deleted"}
    /\ \A h \in Handlers : Holder[h] = j => queue[j] = 0 /\ job[j] \in {"pending", "deleted"}
    /\ \A g, h \in Handlers : Holder[g] = j /\ Holder[h] = j => g = h

PlaceInv == \A j \in Jobs \ redelivered : OnePlace(j)

LEMMA PlaceStep ==
    ASSUME TypeInv, PlaceInv, [Next]_vars
    PROVE  /\ PlaceInv'
           /\ \A j \in Jobs \ redelivered : job[j] = "done" =>
                /\ job'[j] \in {"done", "deleted"}
                /\ \A h \in Handlers : Holder'[h] # j
<1>d. /\ job \in [Jobs -> Status] /\ queue \in [Jobs -> Nat]
      /\ Holder \in [Handlers -> Jobs \cup {NoJob}]
  BY ReqFields DEF TypeInv, Data, Reqs, Holder
<1>p. \A j \in Jobs \ redelivered : OnePlace(j)
  BY DEF PlaceInv
<1> SUFFICES ASSUME NEW j \in Jobs, j \notin redelivered
             PROVE  /\ j \notin redelivered' => OnePlace(j)'
                    /\ job[j] = "done" => /\ job'[j] \in {"done", "deleted"}
                                          /\ \A h \in Handlers : Holder'[h] # j
  <2>1. redelivered \subseteq redelivered'
    BY JobSteps DEF JobStep, Creates, Sends, Takes, Ends, Leaves, Drops, Deletes,
                    Redelivers, jobVars
  <2> QED
    BY <2>1 DEF PlaceInv
<1> DEFINE Goal == /\ j \notin redelivered' => OnePlace(j)'
                   /\ job[j] = "done" => /\ job'[j] \in {"done", "deleted"}
                                         /\ \A h \in Handlers : Holder'[h] # j
<1>o. OnePlace(j)
  BY <1>p
<1>1. ASSUME NEW h \in Handlers, NEW k \in Jobs, Creates(h, k) PROVE Goal
  BY <1>1, <1>d, <1>o DEF Creates, OnePlace
<1>2. ASSUME NEW h \in Handlers, NEW k \in Jobs, Sends(h, k) PROVE Goal
  BY <1>2, <1>d, <1>o DEF Sends, OnePlace
<1>3. ASSUME NEW h \in Handlers, NEW k \in Jobs, Takes(h, k) PROVE Goal
  BY <1>3, <1>d, <1>o DEF Takes, OnePlace
<1>4. ASSUME NEW h \in Handlers, Ends(h, "done") \/ Ends(h, "failed") PROVE Goal
  BY <1>4, <1>d, <1>o DEF Ends, OnePlace
<1>5. ASSUME NEW h \in Handlers, Leaves(h) PROVE Goal
  BY <1>5, <1>d, <1>o DEF Leaves, OnePlace
<1>6. ASSUME NEW k \in Jobs, Drops(k) PROVE Goal
  BY <1>6, <1>d, <1>o DEF Drops, OnePlace
<1>7. ASSUME NEW k \in Jobs, Deletes(k) PROVE Goal
  BY <1>7, <1>d, <1>o DEF Deletes, OnePlace
<1>8. ASSUME NEW k \in Jobs, Redelivers(k) PROVE Goal
  BY <1>8, <1>d, <1>o DEF Redelivers, OnePlace
<1>9. ASSUME UNCHANGED <<jobVars, Holder, aborts>> PROVE Goal
  BY <1>9, <1>o DEF OnePlace, jobVars
<1> QED
  BY <1>1, <1>2, <1>3, <1>4, <1>5, <1>6, <1>7, <1>8, <1>9, JobSteps DEF JobStep

\* A job that is done is run again only if the broker delivers its message again.
THEOREM Final == Spec => DoneIsFinal
<1>1. Init => PlaceInv
  BY IdleType DEF Init, PlaceInv, OnePlace, Holder
<1>2. TypeInv /\ PlaceInv /\ [Next]_vars => PlaceInv'
  BY PlaceStep
<1>3. TypeInv /\ PlaceInv /\ [Next]_vars
      => [\A j \in Jobs \ redelivered :
            job[j] = "done" => job'[j] \in {"done", "deleted"} /\ ~Locked(j)']_vars
  <2> SUFFICES ASSUME TypeInv, PlaceInv, [Next]_vars, NEW j \in Jobs \ redelivered,
                      job[j] = "done"
               PROVE  job'[j] \in {"done", "deleted"} /\ ~Locked(j)'
    OBVIOUS
  <2>1. job'[j] \in {"done", "deleted"} /\ \A h \in Handlers : Holder'[h] # j
    BY PlaceStep
  <2> QED
    BY <2>1 DEF Locked, Holder
<1> QED
  BY <1>1, <1>2, <1>3, TypeInvariant, PTL DEF Spec, DoneIsFinal

\* Only a death, or two that insert the first usage row of the month, takes a job from
\* the request that holds it and leaves it pending.
LEMMA StrandedStep ==
    ASSUME TypeInv, ~raced => SerialCount, [Next]_vars, ~raced',
           ~raced => Cardinality(Stranded) <= aborts
    PROVE  Cardinality(Stranded') <= aborts'
<1>i. SerialCount /\ Cardinality(Stranded) <= aborts
  BY SerialStep, Observed DEF Observe, vars, TypeInv
<1>d. /\ job \in [Jobs -> Status] /\ queue \in [Jobs -> Nat]
      /\ Holder \in [Handlers -> Jobs \cup {NoJob}] /\ aborts \in Nat
  BY ReqFields DEF TypeInv, Data, Reqs, Holder
<1>s. Stranded = {j \in Jobs : /\ job[j] = "pending" /\ queue[j] = 0
                              /\ \A h \in Handlers : Holder[h] # j}
  BY DEF Stranded, Holder
<1>t. Stranded' = {j \in Jobs : /\ job'[j] = "pending" /\ queue'[j] = 0
                               /\ \A h \in Handlers : Holder'[h] # j}
  BY DEF Stranded, Holder
<1>f. /\ IsFiniteSet(Stranded) /\ Cardinality(Stranded) \in Nat
      /\ \A S : S \subseteq Stranded => Cardinality(S) <= Cardinality(Stranded)
  <2>1. Stranded \in SUBSET Jobs
    BY DEF Stranded
  <2> QED
    BY <2>1, FS_Subset, FS_CardinalityType
<1>q. ASSUME Stranded' \subseteq Stranded, aborts' = aborts
      PROVE  Cardinality(Stranded') <= aborts'
  <2>1. Cardinality(Stranded') <= Cardinality(Stranded) /\ Cardinality(Stranded') \in Nat
    BY <1>f, <1>q, FS_Subset, FS_CardinalityType
  <2> QED
    BY <1>i, <1>q, <1>d, <1>f, <2>1
<1>1. ASSUME NEW h \in Handlers, NEW k \in Jobs, Creates(h, k) PROVE Stranded' \subseteq Stranded
  BY <1>1, <1>d, <1>s, <1>t DEF Creates
<1>2. ASSUME NEW h \in Handlers, NEW k \in Jobs, Sends(h, k) PROVE Stranded' \subseteq Stranded
  BY <1>2, <1>d, <1>s, <1>t DEF Sends
<1>3. ASSUME NEW h \in Handlers, NEW k \in Jobs, Takes(h, k) PROVE Stranded' \subseteq Stranded
  BY <1>3, <1>d, <1>s, <1>t DEF Takes
<1>4. ASSUME NEW h \in Handlers, Ends(h, "done") \/ Ends(h, "failed")
      PROVE  Stranded' \subseteq Stranded
  BY <1>4, <1>d, <1>s, <1>t DEF Ends
<1>5. ASSUME NEW h \in Handlers, Leaves(h) PROVE Cardinality(Stranded') <= aborts'
  <2>1. Stranded' \subseteq Stranded \cup {Holder[h]}
    BY <1>5, <1>d, <1>s, <1>t DEF Leaves
  <2>2. CASE aborts' = aborts + 1
    <3>1. /\ IsFiniteSet(Stranded \cup {Holder[h]})
          /\ Cardinality(Stranded \cup {Holder[h]}) <= Cardinality(Stranded) + 1
      <4>1. /\ IsFiniteSet(Stranded \cup {Holder[h]})
            /\ Cardinality(Stranded \cup {Holder[h]}) =
                 IF Holder[h] \in Stranded THEN Cardinality(Stranded)
                                          ELSE Cardinality(Stranded) + 1
        BY ONLY <1>f, FS_AddElement, Zenon
      <4> QED
        BY <1>f, <4>1
    <3>2. Cardinality(Stranded') <= Cardinality(Stranded) + 1 /\ Cardinality(Stranded') \in Nat
      <4>1. /\ Cardinality(Stranded') <= Cardinality(Stranded \cup {Holder[h]})
            /\ Cardinality(Stranded') \in Nat
        BY <2>1, <3>1, FS_Subset, FS_CardinalityType
      <4>2. Cardinality(Stranded \cup {Holder[h]}) \in Nat
        BY <3>1, FS_CardinalityType
      <4> QED
        BY <1>f, <3>1, <4>1, <4>2
    <3> QED
      BY <1>i, <1>d, <1>f, <2>2, <3>2
  <2>3. CASE aborts' = aborts /\ job[Holder[h]] = "deleted"
    <3>1. Stranded' \subseteq Stranded
      BY <1>5, <1>d, <1>s, <1>t, <2>3 DEF Leaves
    <3> QED
      BY <1>q, <2>3, <3>1
  <2>4. CASE Collide(h)
    BY <1>i, <2>4 DEF Collide, At, SerialCount
  <2> QED
    BY <1>5, <2>2, <2>3, <2>4 DEF Leaves
<1>6. ASSUME NEW k \in Jobs, Drops(k) \/ Deletes(k) \/ Redelivers(k)
      PROVE  Stranded' \subseteq Stranded
  BY <1>6, <1>d, <1>s, <1>t DEF Drops, Deletes, Redelivers
<1>7. ASSUME UNCHANGED <<jobVars, Holder, aborts>> PROVE Stranded' \subseteq Stranded
  BY <1>7, <1>s, <1>t DEF jobVars
<1>8. (Stranded' \subseteq Stranded /\ aborts' = aborts) \/ \E h \in Handlers : Leaves(h)
  BY <1>1, <1>2, <1>3, <1>4, <1>6, <1>7, JobSteps
     DEF JobStep, Creates, Sends, Takes, Ends, Drops, Deletes, Redelivers
<1> QED
  BY <1>5, <1>8, <1>q

\* While the usage row is read and written by one at a time, every pending job is
\* queued or held, but for as many as handlers died.
THEOREM FewStranded == Spec => []StrandedBounded
<1>1. Init => Cardinality(Stranded) <= aborts
  <2> SUFFICES ASSUME Init PROVE Cardinality(Stranded) <= aborts
    OBVIOUS
  <2>1. Stranded = {} /\ aborts = 0
    BY DEF Init, Stranded
  <2> QED
    BY <2>1, FS_EmptySet
<1>2. TypeInv /\ (~raced => SerialCount) /\ StrandedBounded /\ [Next]_vars => StrandedBounded'
  BY StrandedStep DEF StrandedBounded
<1> QED
  BY <1>1, <1>2, TypeInvariant, Counted, PTL DEF Spec, StrandedBounded
=============================================================================
