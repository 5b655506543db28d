---------------------------- MODULE ActiveModel ----------------------------
(***************************************************************************)
(* Which model answers the AI requests of one organization.  Owners choose *)
(* it in a versioned row of app_settings; every process keeps the provider *)
(* it has built, with the version it was built for; answers are cached     *)
(* under the model and the version.                                        *)
(*                                                                         *)
(* A request that misses the cache asks for the setting twice, once for the *)
(* key and once for the provider, and gets its answer some time later.     *)
(***************************************************************************)
EXTENDS Naturals

CONSTANTS
    Handlers,      \* requests that can be open at a time
    Processes, NoProcess,  \* API and worker processes; none, when nothing runs
    Models, Default,  \* LLMs to choose from; the one of the environment
    NoModel,
    MaxVersion     \* bound: changes of the setting

ASSUME ModelAssumption ==
    /\ NoProcess \notin Processes /\ Default \in Models /\ NoModel \notin Models
    /\ MaxVersion \in Nat

VARIABLES
    setting,     \* AppSetting row: model_id and version, which is 0 without a row
    providers,   \* provider._providers of each process
    cache,       \* the answer to one prompt under each key: which model gave it
    req,         \* the open requests
    raced        \* history: two owners have read the setting and are both to write it

modelVars == <<setting, providers, cache, req>>
vars == <<modelVars, raced>>

Settings == [model : Models, version : 0..MaxVersion]
NotSet == [model |-> Default, version |-> 0]
NotBuilt == [model |-> NoModel, version |-> 0]

\* key and seen are the setting as first and as then read, by is the model that is
\* asked, or is to be set.
Requests == [pc : {"idle", "missed", "reread", "asking", "changing", "changed"},
             at : Processes \cup {NoProcess}, key : Settings, seen : Settings,
             by : Models \cup {NoModel}]
Idle == [pc |-> "idle", at |-> NoProcess, key |-> NotSet, seen |-> NotSet, by |-> NoModel]

TypeOK ==
    /\ setting \in Settings
    /\ providers \in [Processes -> Settings \cup {NotBuilt}]
    /\ cache \in [Settings -> Models \cup {NoModel}]
    /\ req \in [Handlers -> Requests]
    /\ raced \in BOOLEAN

Init ==
    /\ setting = NotSet
    /\ providers = [p \in Processes |-> NotBuilt]
    /\ cache = [k \in Settings |-> NoModel]
    /\ req = [h \in Handlers |-> Idle]
    /\ raced = FALSE

At(h, label) == req[h].pc = label
Close(h) == req' = [req EXCEPT ![h] = Idle]
------------------------------------------------------------------------------
(***************************************************************************)
(* A request for an answer                                                 *)
(***************************************************************************)

\* Mistake: the key names the model and not the version.
CacheKeyOfModel(s) == [s EXCEPT !.version = 0]
CacheKey(s) == s

\* active_model_context, then the cache; a hit is answered at once.
LookUp(h, p) ==
    /\ At(h, "idle") /\ cache[CacheKey(setting)] = NoModel
    /\ req' = [req EXCEPT ![h] = [Idle EXCEPT !.pc = "missed", !.at = p, !.key = setting]]
    /\ UNCHANGED <<setting, providers, cache>>

\* get_active_provider asks for the setting again: the row of the first query is no
\* longer referenced, and the session loads it anew ...
Reread(h) ==
    /\ At(h, "missed")
    /\ req' = [req EXCEPT ![h].pc = "reread", ![h].seen = setting]
    /\ UNCHANGED <<setting, providers, cache>>

\* Mistake: a provider that was built once is kept.
ProviderKept(p, s) == IF providers[p] # NotBuilt THEN providers[p] ELSE s

\* ... and keeps the provider of the process if it was built for this version.
Provider(p, s) ==
    IF providers[p] # NotBuilt /\ providers[p].version = s.version THEN providers[p] ELSE s

AskModel(h) ==
    LET p == req[h].at  provider == Provider(p, req[h].seen) IN
    /\ At(h, "reread")
    /\ providers' = [providers EXCEPT ![p] = provider]
    /\ req' = [req EXCEPT ![h].pc = "asking", ![h].by = provider.model]
    /\ UNCHANGED <<setting, cache>>

Answer(h) ==
    /\ At(h, "asking") /\ Close(h)
    /\ cache' = [cache EXCEPT ![CacheKey(req[h].key)] = req[h].by]
    /\ UNCHANGED <<setting, providers>>

\* An error: of the model, or of the INSERT of a row that another one has inserted.
Abandon(h) == ~At(h, "idle") /\ Close(h) /\ UNCHANGED <<setting, providers, cache>>

\* AI_CACHE_TTL_SECONDS have passed.
Expire(k) ==
    /\ cache[k] # NoModel /\ cache' = [cache EXCEPT ![k] = NoModel]
    /\ UNCHANGED <<setting, providers, req>>

\* A process starts anew, with no providers; what it was doing is lost.
Restart(p) ==
    /\ providers' = [providers EXCEPT ![p] = NotBuilt]
    /\ req' = [h \in Handlers |-> IF req[h].at = p THEN Idle ELSE req[h]]
    /\ UNCHANGED <<setting, cache>>
------------------------------------------------------------------------------
(***************************************************************************)
(* set_active_model                                                        *)
(***************************************************************************)

\* registry.discover has m, and it is ready; set_value reads the row.
LoadSetting(h, p, m) ==
    /\ At(h, "idle") /\ setting.version < MaxVersion
    /\ req' = [req EXCEPT ![h] =
                [Idle EXCEPT !.pc = "changing", !.at = p, !.key = setting, !.by = m]]
    /\ UNCHANGED <<setting, providers, cache>>

\* Mistake: the version of a row that is there stays.
SaveModelOnly(h) ==
    LET loaded == req[h].key IN
    /\ At(h, "changing") /\ (loaded.version = 0 => setting.version = 0)
    /\ setting' = [model |-> req[h].by,
                   version |-> IF loaded.version = 0 THEN 1 ELSE loaded.version]
    /\ req' = [req EXCEPT ![h].pc = "changed"]
    /\ UNCHANGED <<providers, cache>>

\* INSERT or UPDATE; the latter leaves out a value that equals the loaded one.
SaveSetting(h) ==
    LET loaded == req[h].key IN
    /\ At(h, "changing") /\ (loaded.version = 0 => setting.version = 0)
    /\ setting' = [model |-> IF loaded.version > 0 /\ req[h].by = loaded.model
                             THEN setting.model ELSE req[h].by,
                   version |-> loaded.version + 1]
    /\ req' = [req EXCEPT ![h].pc = "changed"]
    /\ UNCHANGED <<providers, cache>>

\* reset_provider, in the process of this request.
ResetProvider(h) ==
    /\ At(h, "changed") /\ Close(h)
    /\ providers' = [providers EXCEPT ![req[h].at] = NotBuilt]
    /\ UNCHANGED <<setting, cache>>
------------------------------------------------------------------------------
\* Owners change the setting one at a time.
Serial == \A g, h \in Handlers : At(g, "changing") /\ At(h, "changing") => g = h

\* Every step takes note of two that change it at the same time.
Observe == raced' = (raced \/ ~Serial')

GetAnswer(h) ==
    \/ \E p \in Processes : LookUp(h, p) /\ Observe
    \/ Reread(h) /\ Observe
    \/ AskModel(h) /\ Observe
    \/ Answer(h) /\ Observe

ChooseModel(h) ==
    \/ \E p \in Processes, m \in Models : LoadSetting(h, p, m) /\ Observe
    \/ SaveSetting(h) /\ Observe
    \/ ResetProvider(h) /\ Observe

Next ==
    \/ \E h \in Handlers : GetAnswer(h) \/ ChooseModel(h)
    \/ \E h \in Handlers : Abandon(h) /\ Observe
    \/ \E k \in Settings : Expire(k) /\ Observe
    \/ \E p \in Processes : Restart(p) /\ Observe

Spec == Init /\ [][Next]_vars
------------------------------------------------------------------------------
(***************************************************************************)
(* Properties                                                              *)
(***************************************************************************)

\* "Aktif modeli degistirir; sonraki istekten itibaren gecerlidir": nobody is answered
\* by another model than the one chosen when he asked for the provider, and what a
\* process would go on using is the model chosen last, in whichever process that
\* was, unless two owners chose one at the same time.
ProvidersFollow == ~raced =>
    /\ \A h \in Handlers : At(h, "asking") => req[h].by = req[h].seen.model
    /\ \A p \in Processes :
         providers[p] # NotBuilt /\ providers[p].version = setting.version
           => providers[p] = setting

\* A request that starts now is not answered from the cache by any other model than
\* the one chosen, though answers of a new model do get cached for the old one,
\* when the setting changes between the two queries of a request.
CacheFollows == ~raced => cache[CacheKey(setting)] \in {setting.model, NoModel}
==============================================================================
