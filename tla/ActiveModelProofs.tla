------------------------- MODULE ActiveModelProofs -------------------------
(***************************************************************************)
(* Theorems about the model that answers: how a choice reaches requests    *)
(* and caches (ActiveModel), for any number of requests, processes, models *)
(* and changes, and where models come from (Registry), for any files and   *)
(* models of a server.                                                     *)
(***************************************************************************)
EXTENDS ActiveModel, Registry, TLAPS

USE ModelAssumption

\* Every step notes whether two changes overlap.
LEMMA Observed == Next => Observe
BY DEF Next, GetAnswer, ChooseModel

\* What the actions make of a request is one.
MissedOf(p, s) == [Idle EXCEPT !.pc = "missed", !.at = p, !.key = s]
RereadOf(q, s) == [q EXCEPT !.pc = "reread", !.seen = s]
AskingOf(q, m) == [q EXCEPT !.pc = "asking", !.by = m]
ChangingOf(p, s, m) == [Idle EXCEPT !.pc = "changing", !.at = p, !.key = s, !.by = m]
ChangedOf(q) == [q EXCEPT !.pc = "changed"]

LEMMA IdleType ==
    /\ Idle \in Requests /\ Idle.pc = "idle" /\ Idle.key = NotSet /\ Idle.seen = NotSet
    /\ Idle.by = NoModel /\ NotSet \in Settings
<1>1. NotSet \in Settings
  BY DEF NotSet, Settings
<1> QED
  BY <1>1 DEF Requests, Idle

LEMMA Missed ==
    ASSUME NEW p \in Processes, NEW s \in Settings
    PROVE  LET r == MissedOf(p, s) IN
           /\ r \in Requests /\ r.pc = "missed" /\ r.at = p /\ r.key = s
           /\ r.by = NoModel /\ r.seen = NotSet
BY IdleType DEF Requests, MissedOf

LEMMA Rereading ==
    ASSUME NEW q \in Requests, NEW s \in Settings
    PROVE  LET r == RereadOf(q, s) IN
           /\ r \in Requests /\ r.pc = "reread" /\ r.at = q.at /\ r.key = q.key
           /\ r.by = q.by /\ r.seen = s
BY DEF Requests, RereadOf

LEMMA Asking ==
    ASSUME NEW q \in Requests, NEW m \in Models
    PROVE  LET r == AskingOf(q, m) IN
           /\ r \in Requests /\ r.pc = "asking" /\ r.at = q.at /\ r.key = q.key
           /\ r.by = m /\ r.seen = q.seen
BY DEF Requests, AskingOf

LEMMA Changing ==
    ASSUME NEW p \in Processes, NEW s \in Settings, NEW m \in Models
    PROVE  LET r == ChangingOf(p, s, m) IN
           /\ r \in Requests /\ r.pc = "changing" /\ r.at = p /\ r.key = s
           /\ r.by = m /\ r.seen = NotSet
BY IdleType DEF Requests, ChangingOf

LEMMA Changed ==
    ASSUME NEW q \in Requests
    PROVE  LET r == ChangedOf(q) IN
           /\ r \in Requests /\ r.pc = "changed" /\ r.at = q.at /\ r.key = q.key
           /\ r.by = q.by /\ r.seen = q.seen
BY DEF Requests, ChangedOf

\* The setting that a request has read, the model it asks, are there.
ReqOK(r) ==
    /\ r \in Requests
    /\ r.pc = "changing" => r.by \in Models /\ r.key.version < MaxVersion
    /\ r.pc = "asking" => r.by \in Models
    /\ r.pc # "idle" => r.at \in Processes

TypeInv == TypeOK /\ \A h \in Handlers : ReqOK(req[h])

LEMMA TypeStep == TypeInv /\ [Next]_vars => TypeInv'
<1> SUFFICES ASSUME TypeInv, [Next]_vars PROVE TypeInv'
  OBVIOUS
<1>o. raced' \in BOOLEAN
  BY Observed DEF Observe, TypeInv, TypeOK, vars
<1> DEFINE Data == /\ setting \in Settings
                   /\ providers \in [Processes -> Settings \cup {NotBuilt}]
                   /\ cache \in [Settings -> Models \cup {NoModel}]
           Reqs == req \in [Handlers -> Requests] /\ \A h \in Handlers : ReqOK(req[h])
<1>t. Data /\ Reqs
  BY DEF TypeInv, TypeOK
<1>q. Data' /\ Reqs' => TypeInv'
  BY <1>o DEF TypeInv, TypeOK
<1>f. \A h \in Handlers : req[h].key \in Settings /\ req[h].seen \in Settings
  BY <1>t DEF Requests
<1>i. ReqOK(Idle)
  BY IdleType DEF ReqOK
<1>r. ASSUME NEW h \in Handlers, NEW r, ReqOK(r), req' = [req EXCEPT ![h] = r] PROVE Reqs'
  BY <1>r, <1>t DEF ReqOK
<1>1. ASSUME NEW h \in Handlers, NEW p \in Processes, LookUp(h, p) PROVE TypeInv'
  <2>1. PICK r : r = MissedOf(p, setting)
    OBVIOUS
  <2>0. r \in Requests /\ r.pc = "missed" /\ r.at = p
    BY <1>t, <2>1, Missed
  <2>2. ReqOK(r)
    BY <2>0 DEF ReqOK
  <2>3. req' = [req EXCEPT ![h] = r]
    BY <1>1, <2>1 DEF LookUp, MissedOf
  <2> QED
    BY <1>1, <1>t, <1>q, <1>r, <2>2, <2>3 DEF LookUp
<1>2. ASSUME NEW h \in Handlers, Reread(h) PROVE TypeInv'
  <2>1. PICK r : r = RereadOf(req[h], setting)
    OBVIOUS
  <2>a. req[h] \in Requests /\ req[h].at \in Processes
    BY <1>2, <1>t DEF ReqOK, Reread, At
  <2>0. r \in Requests /\ r.pc = "reread" /\ r.at = req[h].at
    BY <1>t, <2>a, <2>1, Rereading
  <2>2. ReqOK(r)
    BY <2>a, <2>0 DEF ReqOK
  <2>3. req' = [req EXCEPT ![h] = r]
    BY <1>2, <2>1 DEF Reread, RereadOf
  <2> QED
    BY <1>2, <1>t, <1>q, <1>r, <2>2, <2>3 DEF Reread
<1>3. ASSUME NEW h \in Handlers, AskModel(h) PROVE TypeInv'
  <2>1. req[h].at \in Processes
    BY <1>3, <1>t DEF AskModel, At, ReqOK
  <2>2. PICK s \in Settings : s = Provider(req[h].at, req[h].seen)
    BY <1>t, <1>f, <2>1 DEF Provider
  <2>3. PICK r : r = AskingOf(req[h], s.model)
    OBVIOUS
  <2>4. s.model \in Models
    BY DEF Settings
  <2>a. req[h] \in Requests
    BY <1>t
  <2>0. r \in Requests /\ r.pc = "asking" /\ r.at = req[h].at /\ r.by = s.model
    BY <2>a, <2>3, <2>4, Asking
  <2>5. ReqOK(r)
    BY <2>0, <2>1, <2>4 DEF ReqOK
  <2>6. req' = [req EXCEPT ![h] = r] /\ providers' = [providers EXCEPT ![req[h].at] = s]
    BY <1>3, <2>2, <2>3 DEF AskModel, AskingOf
  <2>7. Data'
    BY <1>3, <1>t, <2>1, <2>6 DEF AskModel
  <2> QED
    BY <1>q, <1>r, <2>5, <2>6, <2>7
<1>4. ASSUME NEW h \in Handlers, Answer(h) PROVE TypeInv'
  <2>1. Data'
    BY <1>4, <1>t, <1>f DEF Answer, CacheKey, At, ReqOK
  <2> QED
    BY <1>4, <1>i, <1>q, <1>r, <2>1 DEF Answer, Close
<1>5. ASSUME NEW h \in Handlers, NEW p \in Processes, NEW m \in Models, LoadSetting(h, p, m)
      PROVE  TypeInv'
  <2>1. PICK r : r = ChangingOf(p, setting, m)
    OBVIOUS
  <2>0. r \in Requests /\ r.pc = "changing" /\ r.at = p /\ r.by = m /\ r.key = setting
    BY <1>t, <2>1, Changing
  <2>2. ReqOK(r)
    BY <1>5, <2>0 DEF ReqOK, LoadSetting
  <2>3. req' = [req EXCEPT ![h] = r]
    BY <1>5, <2>1 DEF LoadSetting, ChangingOf
  <2> QED
    BY <1>5, <1>t, <1>q, <1>r, <2>2, <2>3 DEF LoadSetting
<1>6. ASSUME NEW h \in Handlers, SaveSetting(h) PROVE TypeInv'
  <2>1. PICK r : r = ChangedOf(req[h])
    OBVIOUS
  <2>a. req[h] \in Requests /\ req[h].at \in Processes
    BY <1>6, <1>t DEF ReqOK, SaveSetting, At
  <2>0. r \in Requests /\ r.pc = "changed" /\ r.at = req[h].at
    BY <2>a, <2>1, Changed
  <2>2. ReqOK(r)
    BY <2>a, <2>0 DEF ReqOK
  <2>3. req' = [req EXCEPT ![h] = r]
    BY <1>6, <2>1 DEF SaveSetting, ChangedOf
  <2>4. /\ req[h].by \in Models /\ setting.model \in Models
        /\ req[h].key.version + 1 \in 0..MaxVersion
    BY <1>6, <1>t, <1>f DEF SaveSetting, Settings, ReqOK, At
  <2>5. setting' \in Settings
    BY <1>6, <2>4 DEF SaveSetting, Settings
  <2> QED
    BY <1>6, <1>t, <1>q, <1>r, <2>2, <2>3, <2>5 DEF SaveSetting
<1>7. ASSUME NEW h \in Handlers, ResetProvider(h) PROVE TypeInv'
  <2>1. Data'
    BY <1>7, <1>t DEF ResetProvider
  <2> QED
    BY <1>7, <1>i, <1>q, <1>r, <2>1 DEF ResetProvider, Close
<1>8. ASSUME NEW h \in Handlers, Abandon(h) PROVE TypeInv'
  BY <1>8, <1>i, <1>t, <1>q, <1>r DEF Abandon, Close
<1>9. ASSUME NEW k \in Settings, Expire(k) PROVE TypeInv'
  <2>1. Data' /\ Reqs'
    BY <1>9, <1>t DEF Expire
  <2> QED
    BY <1>q, <2>1
<1>10. ASSUME NEW p \in Processes, Restart(p) PROVE TypeInv'
  <2>1. Data'
    BY <1>10, <1>t DEF Restart
  <2>2. Reqs'
    BY <1>10, <1>t, <1>i DEF Restart, ReqOK
  <2> QED
    BY <1>q, <2>1, <2>2
<1>11. CASE UNCHANGED vars
  <2>1. Reqs' /\ Data'
    BY <1>11, <1>t DEF vars, modelVars
  <2> QED
    BY <1>q, <2>1
<1> QED
  BY <1>1, <1>2, <1>3, <1>4, <1>5, <1>6, <1>7, <1>8, <1>9, <1>10, <1>11
     DEF Next, GetAnswer, ChooseModel

\* What the processes keep, the requests have read and the cache holds has its type.
THEOREM TypeInvariant == Spec => []TypeInv
<1>1. Init => TypeInv
  <2> SUFFICES ASSUME Init PROVE TypeInv
    OBVIOUS
  <2>1. ReqOK(Idle)
    BY IdleType DEF ReqOK
  <2>2. TypeOK
    BY IdleType DEF Init, TypeOK
  <2> QED
    BY <2>1, <2>2 DEF Init, TypeInv
<1> QED
  BY <1>1, TypeStep, PTL DEF Spec

\* The same, as the run checks it.
THEOREM TypeCorrect == Spec => []TypeOK
<1>1. TypeInv => TypeOK
  BY DEF TypeInv
<1> QED
  BY <1>1, TypeInvariant, PTL

\* Every setting that somebody knows: it is the row, or was read from it.
Known == {s \in Settings :
    \/ s \in {setting, NotSet}
    \/ \E p \in Processes : providers[p] = s
    \/ \E h \in Handlers : s \in {req[h].key, req[h].seen}}

\* A version stands for one model, and the row has the last one.
KnownOK ==
    /\ \A a, b \in Known : a.version = b.version => a = b
    /\ \A a \in Known : a.version <= setting.version

\* A request reads the setting twice, in this order.
InOrder(r) ==
    /\ r.pc = "changing" => r.key = setting
    /\ r.pc \in {"reread", "asking"} => r.key.version <= r.seen.version
    /\ r.pc = "asking" => r.by = r.seen.model

CacheOK ==
    /\ \A k \in Settings : k.version > setting.version => cache[k] = NoModel
    /\ cache[setting] \in {setting.model, NoModel}

SerialInv == Serial /\ KnownOK /\ CacheOK /\ \A h \in Handlers : InOrder(req[h])

LEMMA SameKnown ==
    ASSUME KnownOK, Known' \subseteq Known, setting' = setting PROVE KnownOK'
<1>1. \A a, b \in Known' : a \in Known /\ b \in Known
  OBVIOUS
<1> QED
  BY <1>1 DEF KnownOK

\* A step that leaves the setting and gives one request another state, whose
\* settings were known.
LEMMA OneRequest ==
    ASSUME TypeInv, TypeInv', SerialInv, Serial', setting' = setting,
           NEW h \in Handlers, NEW r \in Requests, req' = [req EXCEPT ![h] = r],
           r.key \in Known, r.seen \in Known, InOrder(r), CacheOK',
           \A p \in Processes : providers'[p] \in Known \cup {NotBuilt}
    PROVE  SerialInv'
<1>1. \A g \in Handlers : req'[g] = IF g = h THEN r ELSE req[g]
  BY DEF TypeInv, TypeOK
<1>2. NotBuilt \notin Settings
  BY DEF NotBuilt, Settings
<1>3. Known' \subseteq Known
  BY <1>1, <1>2 DEF Known
<1>4. KnownOK'
  BY <1>3, SameKnown DEF SerialInv
<1>5. \A g \in Handlers : InOrder(req[g])'
  BY <1>1 DEF SerialInv, InOrder
<1> QED
  BY <1>4, <1>5 DEF SerialInv

\* The row has a new version, which nobody has seen and nothing is cached under.
LEMMA SaveStep ==
    ASSUME TypeInv, TypeInv', SerialInv, Serial', NEW h \in Handlers, SaveSetting(h)
    PROVE  SerialInv'
<1>1. PICK r : r = ChangedOf(req[h])
  OBVIOUS
<1>2. /\ req[h] \in Requests /\ setting \in Settings /\ setting' \in Settings
      /\ req \in [Handlers -> Requests] /\ cache \in [Settings -> Models \cup {NoModel}]
  BY DEF TypeInv, TypeOK
<1>3. /\ r.key = req[h].key /\ r.seen = req[h].seen /\ r.pc = "changed"
      /\ req' = [req EXCEPT ![h] = r]
  BY <1>1, <1>2, Changed DEF SaveSetting, ChangedOf
<1>4. \A g \in Handlers : req'[g] = IF g = h THEN r ELSE req[g]
  BY <1>2, <1>3
<1>5. setting'.version = setting.version + 1 /\ cache' = cache /\ providers' = providers
  BY DEF SaveSetting, At, SerialInv, InOrder
<1>6. setting.version \in Nat /\ \A s \in Settings : s.version \in Nat
  BY <1>2 DEF Settings
<1>7. Known' \subseteq Known \cup {setting'}
  BY <1>3, <1>4, <1>5 DEF Known
<1>8. \A a \in Known : a \in Settings /\ a.version <= setting.version
  BY DEF Known, SerialInv, KnownOK
<1>9. KnownOK'
  <2>1. \A a \in Known' : a \in Known \/ a = setting'
    BY <1>7
  <2>2. \A a \in Known : a.version < setting'.version /\ a.version \in Nat
    BY <1>5, <1>6, <1>8
  <2>3. \A a \in Known' : a.version <= setting'.version
    BY <1>5, <1>6, <2>1, <2>2
  <2>4. \A a, b \in Known' : a.version = b.version => a = b
    BY <2>1, <2>2 DEF SerialInv, KnownOK
  <2> QED
    BY <2>3, <2>4 DEF KnownOK
<1>10. CacheOK'
  BY <1>2, <1>5, <1>6 DEF SerialInv, CacheOK
<1>11. \A g \in Handlers : InOrder(req[g])'
  <2>1. \A g \in Handlers : At(g, "changing") => g = h
    BY DEF SerialInv, Serial, SaveSetting
  <2>2. InOrder(r)'
    BY <1>3 DEF InOrder
  <2>3. \A g \in Handlers \ {h} : InOrder(req[g])'
    BY <1>4, <2>1 DEF SerialInv, InOrder, At
  <2> QED
    BY <1>4, <2>2, <2>3
<1> QED
  BY <1>9, <1>10, <1>11 DEF SerialInv

LEMMA SerialStep ==
    ASSUME TypeInv, TypeInv', ~raced => SerialInv, [Next]_vars, ~raced'
    PROVE  SerialInv'
<1>i. SerialInv
  BY Observed DEF Observe, vars, TypeInv, TypeOK
<1>s. Serial'
  <2>1. CASE Next
    BY <2>1, Observed DEF Observe
  <2>2. CASE UNCHANGED vars
    BY <1>i, <2>2 DEF SerialInv, Serial, At, vars, modelVars
  <2> QED
    BY <2>1, <2>2
<1>t. /\ setting \in Settings /\ req \in [Handlers -> Requests]
      /\ providers \in [Processes -> Settings \cup {NotBuilt}]
      /\ cache \in [Settings -> Models \cup {NoModel}]
  BY DEF TypeInv, TypeOK
<1>f. \A h \in Handlers : /\ req[h] \in Requests
                         /\ req[h].key \in Settings /\ req[h].seen \in Settings
  BY <1>t DEF Requests
<1>k. /\ setting \in Known /\ NotSet \in Known
      /\ \A h \in Handlers : req[h].key \in Known /\ req[h].seen \in Known
      /\ \A p \in Processes : providers[p] \in Known \cup {NotBuilt}
  BY <1>t, <1>f, IdleType DEF Known
<1>v. \A a \in Known : /\ a \in Settings /\ a.version \in Nat
                       /\ a.version <= setting.version
                       /\ a.version = setting.version => a = setting
  BY <1>i, <1>k DEF SerialInv, KnownOK, Known, Settings
<1>d. InOrder(Idle) /\ Idle \in Requests /\ Idle.key \in Known /\ Idle.seen \in Known
  BY <1>k, IdleType DEF InOrder
<1>1. ASSUME NEW h \in Handlers, NEW p \in Processes, LookUp(h, p) PROVE SerialInv'
  <2>1. PICK r : r = MissedOf(p, setting)
    OBVIOUS
  <2>2. /\ r \in Requests /\ r.pc = "missed" /\ r.key = setting /\ r.seen = NotSet
    BY <1>t, <2>1, Missed
  <2>3. req' = [req EXCEPT ![h] = r] /\ UNCHANGED <<setting, providers, cache>>
    BY <1>1, <2>1 DEF LookUp, MissedOf
  <2>4. InOrder(r) /\ CacheOK'
    BY <1>i, <2>2, <2>3 DEF InOrder, SerialInv, CacheOK
  <2> QED
    BY <1>i, <1>s, <1>k, <2>2, <2>3, <2>4, OneRequest
<1>2. ASSUME NEW h \in Handlers, Reread(h) PROVE SerialInv'
  <2>1. PICK r : r = RereadOf(req[h], setting)
    OBVIOUS
  <2>2. /\ r \in Requests /\ r.pc = "reread" /\ r.key = req[h].key /\ r.seen = setting
    BY <1>t, <1>f, <2>1, Rereading
  <2>3. req' = [req EXCEPT ![h] = r] /\ UNCHANGED <<setting, providers, cache>>
    BY <1>2, <2>1 DEF Reread, RereadOf
  <2>4. InOrder(r) /\ CacheOK'
    BY <1>i, <1>k, <1>v, <2>2, <2>3 DEF InOrder, SerialInv, CacheOK
  <2> QED
    BY <1>i, <1>s, <1>k, <2>2, <2>3, <2>4, OneRequest
<1>3. ASSUME NEW h \in Handlers, AskModel(h) PROVE SerialInv'
  <2> DEFINE p == req[h].at
  <2>0. p \in Processes /\ req[h].pc = "reread"
    BY <1>3 DEF AskModel, At, TypeInv, ReqOK
  <2>1. PICK s : s = Provider(p, req[h].seen)
    OBVIOUS
  <2>2. s = req[h].seen
    BY <1>i, <1>k, <2>0, <2>1 DEF Provider, SerialInv, KnownOK
  <2>3. PICK r : r = AskingOf(req[h], s.model)
    OBVIOUS
  <2>4. s.model \in Models
    BY <1>f, <2>2 DEF Settings
  <2>5. /\ r \in Requests /\ r.pc = "asking" /\ r.key = req[h].key /\ r.seen = req[h].seen
        /\ r.by = s.model
    BY <1>f, <2>3, <2>4, Asking
  <2>6. /\ req' = [req EXCEPT ![h] = r] /\ UNCHANGED <<setting, cache>>
        /\ providers' = [providers EXCEPT ![p] = s]
    BY <1>3, <2>1, <2>3 DEF AskModel, AskingOf
  <2>7. \A o \in Processes : providers'[o] \in Known \cup {NotBuilt}
    BY <1>t, <1>k, <2>2, <2>6
  <2>8. InOrder(r) /\ CacheOK'
    BY <1>i, <2>0, <2>2, <2>5, <2>6 DEF InOrder, SerialInv, CacheOK
  <2>9. r.key \in Known /\ r.seen \in Known
    BY <1>k, <2>5
  <2> QED
    BY <1>i, <1>s, <2>5, <2>6, <2>7, <2>8, <2>9, OneRequest
<1>4. ASSUME NEW h \in Handlers, Answer(h) PROVE SerialInv'
  <2>1. /\ req[h].pc = "asking" /\ req[h].by = req[h].seen.model
        /\ req[h].key.version <= req[h].seen.version
    BY <1>4, <1>i DEF Answer, At, SerialInv, InOrder
  <2>2. /\ req' = [req EXCEPT ![h] = Idle] /\ UNCHANGED <<setting, providers>>
        /\ cache' = [cache EXCEPT ![req[h].key] = req[h].by]
    BY <1>4 DEF Answer, Close, CacheKey
  <2>3. CacheOK'
    <3>1. req[h].key.version <= setting.version /\ setting.version \in Nat
      BY <1>k, <1>v
    <3>2. ASSUME NEW k \in Settings, k.version > setting.version PROVE cache'[k] = NoModel
      <4>1. k # req[h].key
        <5>1. req[h].key.version \in Nat
          BY <1>k, <1>v
        <5>2. k.version \in Nat
          BY DEF Settings
        <5> QED
          BY <3>1, <3>2, <5>1, <5>2
      <4>2. cache[k] = NoModel
        BY <1>i, <3>2 DEF SerialInv, CacheOK
      <4> QED
        BY <1>t, <1>f, <2>2, <4>1, <4>2
    <3>3. CASE req[h].key = setting
      <4>1. req[h].seen = setting
        BY <1>k, <1>v, <2>1, <3>3
      <4> QED
        BY <1>t, <2>1, <2>2, <3>2, <3>3, <4>1 DEF CacheOK
    <3>4. CASE req[h].key # setting
      BY <1>i, <1>t, <2>2, <3>2, <3>4 DEF SerialInv, CacheOK
    <3> QED
      BY <3>3, <3>4
  <2> QED
    BY <1>i, <1>s, <1>k, <1>d, <2>2, <2>3, OneRequest
<1>5. ASSUME NEW h \in Handlers, NEW p \in Processes, NEW m \in Models, LoadSetting(h, p, m)
      PROVE  SerialInv'
  <2>1. PICK r : r = ChangingOf(p, setting, m)
    OBVIOUS
  <2>2. /\ r \in Requests /\ r.pc = "changing" /\ r.key = setting /\ r.seen = NotSet
    BY <1>t, <2>1, Changing
  <2>3. req' = [req EXCEPT ![h] = r] /\ UNCHANGED <<setting, providers, cache>>
    BY <1>5, <2>1 DEF LoadSetting, ChangingOf
  <2>4. InOrder(r) /\ CacheOK'
    BY <1>i, <2>2, <2>3 DEF InOrder, SerialInv, CacheOK
  <2> QED
    BY <1>i, <1>s, <1>k, <2>2, <2>3, <2>4, OneRequest
<1>6. ASSUME NEW h \in Handlers, SaveSetting(h) PROVE SerialInv'
  BY <1>6, <1>i, <1>s, SaveStep
<1>7. ASSUME NEW h \in Handlers, ResetProvider(h) PROVE SerialInv'
  <2>1. /\ req' = [req EXCEPT ![h] = Idle] /\ UNCHANGED <<setting, cache>> /\ CacheOK'
        /\ \A p \in Processes : providers'[p] \in Known \cup {NotBuilt}
    BY <1>7, <1>i, <1>t, <1>k DEF ResetProvider, Close, SerialInv, CacheOK
  <2> QED
    BY <1>i, <1>s, <1>k, <1>d, <2>1, OneRequest
<1>8. ASSUME NEW h \in Handlers, Abandon(h) PROVE SerialInv'
  <2>1. /\ req' = [req EXCEPT ![h] = Idle] /\ UNCHANGED <<setting, providers, cache>>
        /\ CacheOK'
    BY <1>8, <1>i DEF Abandon, Close, SerialInv, CacheOK
  <2> QED
    BY <1>i, <1>s, <1>k, <1>d, <2>1, OneRequest
<1>9. ASSUME NEW k \in Settings, Expire(k) PROVE SerialInv'
  <2>1. UNCHANGED <<setting, providers, req>> /\ cache' = [cache EXCEPT ![k] = NoModel]
    BY <1>9 DEF Expire
  <2>2. CacheOK'
    BY <1>i, <1>t, <2>1 DEF SerialInv, CacheOK
  <2>3. KnownOK' /\ \A h \in Handlers : InOrder(req[h])'
    BY <1>i, <2>1 DEF SerialInv, KnownOK, Known, InOrder
  <2> QED
    BY <1>s, <2>2, <2>3 DEF SerialInv
<1>10. ASSUME NEW p \in Processes, Restart(p) PROVE SerialInv'
  <2>1. /\ \A h \in Handlers : req'[h] \in {Idle, req[h]}
        /\ \A o \in Processes : providers'[o] \in {NotBuilt, providers[o]}
        /\ UNCHANGED <<setting, cache>>
    BY <1>10, <1>t DEF Restart
  <2>2. NotBuilt \notin Settings
    BY DEF NotBuilt, Settings
  <2>3. Known' \subseteq Known
    BY <1>k, <1>d, <2>1, <2>2 DEF Known
  <2>4. KnownOK' /\ CacheOK'
    BY <1>i, <2>1, <2>3, SameKnown DEF SerialInv, CacheOK
  <2>5. \A h \in Handlers : InOrder(req[h])'
    BY <1>i, <1>d, <2>1 DEF SerialInv, InOrder
  <2> QED
    BY <1>s, <2>4, <2>5 DEF SerialInv
<1>11. CASE UNCHANGED vars
  <2>1. KnownOK' /\ CacheOK' /\ \A h \in Handlers : InOrder(req[h])'
    BY <1>i, <1>11 DEF SerialInv, KnownOK, Known, CacheOK, InOrder, vars, modelVars
  <2> QED
    BY <1>s, <2>1 DEF SerialInv
<1> QED
  BY <1>1, <1>2, <1>3, <1>4, <1>5, <1>6, <1>7, <1>8, <1>9, <1>10, <1>11
     DEF Next, GetAnswer, ChooseModel

LEMMA SerialInvariant == Spec => [](~raced => SerialInv)
<1>1. Init => SerialInv
  <2> SUFFICES ASSUME Init PROVE SerialInv
    OBVIOUS
  <2>1. setting = NotSet /\ \A h \in Handlers : req[h] = Idle
    BY DEF Init
  <2>2. Known = {NotSet} /\ NotSet.version = 0
    BY <2>1, IdleType DEF Init, Known, NotBuilt, NotSet, Settings
  <2>3. KnownOK /\ CacheOK
    BY <2>1, <2>2, IdleType DEF KnownOK, CacheOK, Init
  <2> QED
    BY <2>1, <2>3, IdleType DEF SerialInv, Serial, At, InOrder
<1>2. TypeInv /\ TypeInv' /\ (~raced => SerialInv) /\ [Next]_vars => (~raced => SerialInv)'
  BY SerialStep
<1> QED
  BY <1>1, <1>2, TypeInvariant, PTL DEF Spec

\* While owners choose one at a time, every answer comes from the model that was
\* chosen when the request asked for its provider, and no process keeps one of an
\* earlier choice under the present version.
THEOREM Follows == Spec => []ProvidersFollow
<1>1. TypeInv /\ (~raced => SerialInv) => ProvidersFollow
  <2> SUFFICES ASSUME TypeInv, ~raced, SerialInv PROVE ProvidersFollow
    BY DEF ProvidersFollow
  <2>1. \A h \in Handlers : At(h, "asking") => req[h].by = req[h].seen.model
    BY DEF SerialInv, InOrder, At
  <2>2. ASSUME NEW p \in Processes, providers[p] # NotBuilt,
               providers[p].version = setting.version
        PROVE  providers[p] = setting
    BY <2>2 DEF TypeInv, TypeOK, SerialInv, KnownOK, Known
  <2> QED
    BY <2>1, <2>2 DEF ProvidersFollow
<1> QED
  BY <1>1, TypeInvariant, SerialInvariant, PTL

\* And what is cached under the present setting came from its model.
THEOREM CacheIsRight == Spec => []CacheFollows
<1>1. (~raced => SerialInv) => CacheFollows
  BY DEF SerialInv, CacheOK, CacheFollows, CacheKey
<1> QED
  BY <1>1, SerialInvariant, PTL

------------------------------------------------------------------------------
(***************************************************************************)
(* Registry: the model that was chosen is the one that answers.            *)
(***************************************************************************)

\* What can be chosen: the built-in model, one of an Ollama server, or a file.
Choices == {Builtin} \cup {OllamaModel(t) : t \in Tags} \cup {FileModel(f) : f \in GgufFiles}

RegistryTypeOK ==
    /\ folder \subseteq GgufFiles
    /\ server \in [tags : SUBSET Tags, up : BOOLEAN]
    /\ chosen \in Choices \cup {NotChosen}

\* What is ready has been offered to the owner, and is in the folder or on the server.
LEMMA AvailableIsChoice == RegistryTypeOK => Available \subseteq Choices
BY DEF RegistryTypeOK, Available, OllamaModels, Choices, OllamaModel, FileModel

\* The models of the registry keep their kinds.
THEOREM RegistryTypes == RegistrySpec => []RegistryTypeOK
<1>1. RegistryInit => RegistryTypeOK
  BY DEF RegistryInit, RegistryTypeOK
<1>2. RegistryTypeOK /\ [RegistryNext]_registryVars => RegistryTypeOK'
  <2> SUFFICES ASSUME RegistryTypeOK, [RegistryNext]_registryVars PROVE RegistryTypeOK'
    OBVIOUS
  <2> USE DEF RegistryTypeOK
  <2>1. ASSUME NEW f \in GgufFiles, DropFile(f) \/ TakeFile(f) PROVE RegistryTypeOK'
    BY <2>1 DEF DropFile, TakeFile
  <2>2. CASE ChangeServer
    <3>1. /\ \A t \in Tags : /\ [server EXCEPT !.tags = @ \cup {t}] \in [tags : SUBSET Tags, up : BOOLEAN]
                            /\ [server EXCEPT !.tags = @ \ {t}] \in [tags : SUBSET Tags, up : BOOLEAN]
          /\ [server EXCEPT !.up = ~@] \in [tags : SUBSET Tags, up : BOOLEAN]
      OBVIOUS
    <3> QED
      BY <2>2, <3>1 DEF ChangeServer
  <2>3. ASSUME NEW f \in GgufFiles, ImportGguf(f) PROVE RegistryTypeOK'
    BY <2>3, RegistryAssumption DEF ImportGguf
  <2>4. ASSUME NEW id \in Available, SetActiveModel(id) PROVE RegistryTypeOK'
    BY <2>4, AvailableIsChoice DEF SetActiveModel
  <2>5. CASE AskActive
    BY <2>5 DEF AskActive
  <2>6. CASE UNCHANGED registryVars
    BY <2>6 DEF registryVars
  <2> QED
    BY <2>1, <2>2, <2>3, <2>4, <2>5, <2>6 DEF RegistryNext
<1> QED
  BY <1>1, <1>2, PTL DEF RegistrySpec

\* No other model answers in the place of the one that was chosen, and one that is ready
\* does answer, whatever models there are and whatever becomes of the server: but for models
\* of a folder ("file:..."), in whose place the model of the environment answers.
THEOREM ChosenOneAnswers == RegistrySpec => []ChosenAnswers
<1>1. RegistryInit => ChosenAnswers
  BY DEF RegistryInit, ChosenAnswers, NoReply, NotChosen
<1>2. RegistryTypeOK /\ ChosenAnswers /\ [RegistryNext]_registryVars => ChosenAnswers'
  <2> SUFFICES ASSUME RegistryTypeOK, ChosenAnswers, [RegistryNext]_registryVars
               PROVE  ChosenAnswers'
    OBVIOUS
  <2>1. CASE AskActive
    <3>1. \/ Active = Builtin
          \/ \E t \in Tags : Active = OllamaModel(t)
          \/ Active.source \in {"file", "none"}
      BY RegistryAssumption
         DEF RegistryTypeOK, Choices, Active, Builtin, OllamaModel, FileModel, NotChosen
    <3>2. CASE Active = Builtin
      BY <2>1, <3>2 DEF AskActive, BuildProvider, ChosenAnswers, Builtin
    <3>3. CASE \E t \in Tags : Active = OllamaModel(t)
      <4>1. Active.source = "ollama" /\ BuildProvider(Active) = Active
        BY <3>3 DEF BuildProvider, OllamaModel
      <4>2. Active \in Available => Active \in OllamaModels
        BY <4>1 DEF Available, Builtin, FileModel
      <4> QED
        BY <2>1, <4>1, <4>2 DEF AskActive, ChosenAnswers
    <3>4. CASE Active.source \in {"file", "none"}
      BY <2>1, <3>4 DEF AskActive, ChosenAnswers
    <3> QED
      BY <3>1, <3>2, <3>3, <3>4
  <2>2. CASE UNCHANGED reply
    BY <2>2 DEF ChosenAnswers
  <2> QED
    BY <2>1, <2>2 DEF RegistryNext, registryVars, DropFile, TakeFile, ChangeServer, ImportGguf,
                      SetActiveModel
<1> QED
  BY <1>1, <1>2, RegistryTypes, PTL DEF RegistrySpec
=============================================================================
