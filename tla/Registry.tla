------------------------------ MODULE Registry ------------------------------
(***************************************************************************)
(* The models an owner can choose from (ai/registry.py, api/v1/models.py)  *)
(* and the provider that is built for the one he chose (build_provider of  *)
(* ai/provider.py): GGUF files dropped into a folder, the models of an     *)
(* Ollama server that may come and go, and the built-in one.  What the     *)
(* processes remember of the choice is the matter of ActiveModel.          *)
(***************************************************************************)
EXTENDS FiniteSets

CONSTANTS
    GgufFiles,      \* file names that may be in MODELS_DIR
    Tags,           \* names of models an Ollama server may have, without ":latest"
    TagOf,          \* TagOf[f]: the stem of a file's name, in lower case
    EnvModel        \* LLM_PROVIDER and OLLAMA_MODEL: [source, name]

ASSUME RegistryAssumption ==
    /\ TagOf \in [GgufFiles -> Tags]
    /\ EnvModel \in [source : {"ollama"}, name : Tags] \cup [source : {"builtin"}, name : {"fake"}]

VARIABLES
    folder,     \* the files in MODELS_DIR
    server,     \* the models Ollama has, and whether it answers
    chosen,     \* the model_id of the setting, or NotChosen
    reply       \* the last request: the model it was meant for, whether the registry then
                \* called it ready, and who answered

registryVars == <<folder, server, chosen, reply>>

Builtin == [source |-> "builtin", name |-> "fake"]
OllamaModel(t) == [source |-> "ollama", name |-> t]
FileModel(f) == [source |-> "file", name |-> f]
NotChosen == [source |-> "none", name |-> "none"]
Nobody == [source |-> "nobody", name |-> "none"]
NoReply == [wanted |-> NotChosen, ready |-> FALSE, by |-> Nobody]

RegistryInit ==
    /\ folder = {} /\ server = [tags |-> {}, up |-> FALSE]
    /\ chosen = NotChosen /\ reply = NoReply

(* _ollama_models: none, when the server does not answer. *)
OllamaModels == IF server.up THEN {OllamaModel(t) : t \in server.tags} ELSE {}

(* _file_models: a file is ready when a model of its name has been imported. *)
FileReady(f) == OllamaModel(TagOf[f]) \in OllamaModels

(* discover, those that are ready *)
Available == {Builtin} \cup OllamaModels \cup {FileModel(f) : f \in {g \in folder : FileReady(g)}}

(* active_model_context *)
Active == IF chosen = NotChosen THEN EnvModel ELSE chosen

(* Mistake: when Ollama does not answer, the built-in model does. *)
BuildWithFallback(id) ==
    IF id.source = "ollama" THEN IF server.up THEN id ELSE Builtin
    ELSE IF id = Builtin THEN Builtin ELSE EnvModel

(* build_provider knows "ollama:" and "builtin:fake"; anything else is the model of the
   environment. *)
BuildProvider(id) == IF id.source = "ollama" \/ id = Builtin THEN id ELSE EnvModel

(* A GGUF file is put into the folder or taken out of it. *)
DropFile(f) == folder' = folder \cup {f} /\ f \notin folder /\ UNCHANGED <<server, chosen, reply>>
TakeFile(f) == f \in folder /\ folder' = folder \ {f} /\ UNCHANGED <<server, chosen, reply>>

(* On the Ollama server: a model is pulled or removed, the server starts or stops. *)
ChangeServer ==
    /\ server' \in {[server EXCEPT !.tags = @ \cup {t}] : t \in Tags}
                   \cup {[server EXCEPT !.tags = @ \ {t}] : t \in Tags}
                   \cup {[server EXCEPT !.up = ~@]}
    /\ server' # server
    /\ UNCHANGED <<folder, chosen, reply>>

(* import_model and import_gguf *)
ImportGguf(f) ==
    /\ server.up /\ f \in folder
    /\ server' = [server EXCEPT !.tags = @ \cup {TagOf[f]}]
    /\ UNCHANGED <<folder, chosen, reply>>

(* set_active_model *)
SetActiveModel(id) ==
    /\ id \in Available
    /\ chosen' = id
    /\ UNCHANGED <<folder, server, reply>>

(* A request is answered by the provider built for the active model, or fails. *)
AskActive ==
    LET p == BuildProvider(Active) IN
    /\ reply' = [wanted |-> Active, ready |-> Active \in Available,
                 by |-> IF p.source = "ollama" /\ p \notin OllamaModels THEN Nobody ELSE p]
    /\ UNCHANGED <<folder, server, chosen>>

RegistryNext ==
    \/ \E f \in GgufFiles : DropFile(f)
    \/ \E f \in GgufFiles : TakeFile(f)
    \/ ChangeServer
    \/ \E f \in GgufFiles : ImportGguf(f)
    \/ \E id \in Available : SetActiveModel(id)
    \/ AskActive

RegistrySpec == RegistryInit /\ [][RegistryNext]_registryVars

-----------------------------------------------------------------------------
(* No other model answers in the place of the one that was chosen, whatever became of it,
   and one that is still ready does answer; but a chosen file is never asked itself. *)
ChosenAnswers ==
    reply.wanted.source \in {"ollama", "builtin"} =>
        /\ reply.by \in {reply.wanted, Nobody}
        /\ reply.ready => reply.by = reply.wanted
=============================================================================
