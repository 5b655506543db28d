------------------------------ MODULE MCParts ------------------------------
(***************************************************************************)
(* The smaller parts of the system side by side: a behaviour is one of     *)
(* the part it begins with, the others stay as they began.  Their inputs   *)
(* are chosen so that every branch of the code is taken.                   *)
(***************************************************************************)
EXTENDS Intake, AiContent, Dashboard, Registry, Reindex, RateLimit, Accounts,
        AuditChain

CONSTANT First  \* the one who gets a second factor

VARIABLE part

partsVars == <<part, intakeVars, contentVars, dashboardVars, registryVars, reindexVars, rateVars,
               signupVars, vars>>

-----------------------------------------------------------------------------
(* Files of each type, with a signature that fits or not, and what they hold. *)

FileOf(e, m, fs, u, s, n) == [ext |-> e, magic |-> m, folders |-> fs, utf8 |-> u, sound |-> s, size |-> n]

MCFiles ==
    {FileOf(e, m, {}, FALSE, s, n) :
        e \in {"pdf", "docx", "markdown", "jpg", "exe"}, m \in {"pdf", "png", "jpeg"},
        s \in BOOLEAN, n \in 0..MaxBytes + 1}
    \cup {FileOf(e, "zip", fs, FALSE, TRUE, 1) :
        e \in {"pdf", "docx", "xlsx", "pptx", "txt"},
        fs \in {{"broken"}, {}, {"word"}, {"xl"}, {"ppt"}, {"word", "xl"}, {"xl", "ppt"}}}
    \cup {FileOf(e, "none", {}, u, TRUE, 1) : e \in {"", "docx", "png", "txt", "md"}, u \in BOOLEAN}

Line(t) == [place |-> "text", cells |-> <<t>>]
TableLine(t, u) == [place |-> "table", cells |-> <<t, u>>]
Aside(t) == [place |-> "aside", cells |-> <<t>>]

(* Texts of up to three characters, a long word after a short one, and blanks between words. *)
SomeTexts ==
    UNION {[1..n -> {"x", " ", "nl"}] : n \in 0..3}
    \cup {<<"x", "x", " ", "x", "x", "x", "x", "x", "x", "x">>,
          <<" ", "x", " ", "nl", "x", " ", " ", " ", " ", "x", "nl">>}

MCBodies ==
    {<<>>} \cup {<< <<Line(t)>> >> : t \in SomeTexts}
    \cup {<< <<Line(t), Aside(u)>> >> : t \in {<<>>, <<"x", "nul">>}, u \in {<<"x">>, <<"nul">>}}
    \cup {<< <<Line(<<"x">>), TableLine(t, u)>>, <<>>, <<TableLine(u, t)>> >> :
            t \in {<<>>, <<"x">>, <<"nl", "x">>}, u \in {<<>>, <<"x", " ">>}}

-----------------------------------------------------------------------------
(* Answers of a model: the JSON that was asked for, parts of it missing, null or of another
   kind, and none at all. *)

U == Text(<<"u">>)
Odd == {Text(<<"v", "nl", "w">>), Text(<<"v", "|", "w">>), Text(<<"v", "ctl">>)}
Lists == {List(<<>>), List(<<U, Text(<<>>)>>)} \cup {List(<<t>>) : t \in Odd}
Raw(a, b, c, d, t) == [reads |-> <<a, b, c, d>>, text |-> t]
X == Unreadable

Said1(vs) ==
    {Raw(X, X, v, X, <<"u">>) : v \in vs} \cup {Raw(v, X, X, X, <<"u">>) : v \in {U, List(<<>>)}}
    \cup {Raw(X, X, X, X, <<"u">>), Raw(X, List(<<U>>), X, List(<<U>>), <<"u">>)}

Questions ==
    {Dict([type |-> U, question |-> q, options |-> o, answer |-> a]) :
        q \in {U} \cup Odd, o \in Lists, a \in {U, Null, Text(<<>>)}}
    \cup {Null, Dict([question |-> U])}

Records ==
    {List(<<>>), List(<<Dict([a |-> U]), Dict([b |-> Text(<<"w">>), a |-> Null])>>),
     List(<<Null, Dict([a |-> Text(<<"v", "|">>)])>>)}

MCAnswers ==
    [t \in Types |->
        CASE t \in {"summary", "translate"} ->
                {Raw(X, X, X, X, x) : x \in {<<>>, <<"u", "gap", "v", "|">>, <<"u", "ctl">>, <<"gap", "nl">>}}
          [] t = "keypoints" -> Said1({Dict(f) : f \in [{"dates", "names"} -> Lists \cup {Null, U}]})
          [] t = "compare" -> Said1({Dict(f) : f \in [{"summary", "changed"} ->
                                        {U, Null} \cup {List(<<x>>) : x \in Odd}]})
          [] t = "quiz" -> Said1({Dict([questions |-> List(<<q>>)]) : q \in Questions}
                                 \cup {Dict([questions |-> U])})
          [] t = "extract" -> Said1({Dict([columns |-> c, records |-> r]) :
                c \in {List(<<>>), Null, List(<<Text(<<"a">>)>>), List(<<Text(<<"b">>), Text(<<"c">>)>>)},
                r \in Records})]

MCAtoms ==
    {"u", "v", "w", "gap", "nl", "|", "ctl", "a", "b", "c"}
    \cup {"dates", "names", "summary", "changed", "columns", "records"}
    \cup {"questions", "type", "question", "options", "answer"}

(* All values in these answers: lists of dicts of lists of texts at most. *)
Inner(vs) == UNION {IF v.is = "dict" THEN {v.fields[k] : k \in DOMAIN v.fields} ELSE Items(v) : v \in vs}

MCValues ==
    LET reads == UNION {{raw.reads[i] : i \in 1..4} : raw \in UNION {MCAnswers[t] : t \in Types}}
        dicts == reads \ {Unreadable}
        lists == Inner(dicts)
        items == Inner(lists)
        parts == Inner(items)
    IN dicts \cup lists \cup items \cup parts \cup Inner(parts)

(* Documents whose blocks fit, do not all fit, or not even the first. *)
MCDocuments == {<<>>, <<1, 2, 3, 1>>, <<5>>}

-----------------------------------------------------------------------------
MCTagOf == [f \in GgufFiles |-> IF f = "c" THEN "b" ELSE f]
MCEnvModel == OllamaModel("a")

Parts == {"intake", "content", "dashboard", "registry", "reindex", "rate", "accounts", "log"}

PartsInit ==
    /\ part \in Parts
    /\ IntakeInit /\ ContentInit /\ DashboardInit /\ RegistryInit
    /\ ReindexInit /\ (part # "reindex" => vector = [c \in Rows |-> 0])
    /\ RateInit /\ (part # "rate" => backend = "memory")
    /\ AccountsInit /\ Init

IntakePart ==
    /\ part = "intake" /\ IntakeNext
    /\ UNCHANGED <<part, contentVars, dashboardVars, registryVars, reindexVars, rateVars, signupVars, vars>>
ContentPart ==
    /\ part = "content" /\ ContentNext
    /\ UNCHANGED <<part, intakeVars, dashboardVars, registryVars, reindexVars, rateVars, signupVars, vars>>
DashboardPart ==
    /\ part = "dashboard" /\ DashboardNext
    /\ UNCHANGED <<part, intakeVars, contentVars, registryVars, reindexVars, rateVars, signupVars, vars>>
RegistryPart ==
    /\ part = "registry" /\ RegistryNext
    /\ UNCHANGED <<part, intakeVars, contentVars, dashboardVars, reindexVars, rateVars, signupVars, vars>>
ReindexPart ==
    /\ part = "reindex" /\ ReindexNext
    /\ UNCHANGED <<part, intakeVars, contentVars, dashboardVars, registryVars, rateVars, signupVars, vars>>
RatePart ==
    /\ part = "rate" /\ RateNext
    /\ UNCHANGED <<part, intakeVars, contentVars, dashboardVars, registryVars, reindexVars, signupVars, vars>>
AccountsPart ==
    /\ part = "accounts" /\ AccountsNext
    /\ \A c \in Clients : About2fa(c)' => call'[c].mail = First
    /\ UNCHANGED <<part, intakeVars, contentVars, dashboardVars, registryVars, reindexVars, rateVars, vars>>
LogPart ==
    /\ part = "log" /\ Next
    /\ UNCHANGED <<part, intakeVars, contentVars, dashboardVars, registryVars, reindexVars, rateVars, signupVars>>

PartsNext ==
    \/ IntakePart
    \/ ContentPart
    \/ DashboardPart
    \/ RegistryPart
    \/ ReindexPart
    \/ RatePart
    \/ AccountsPart
    \/ LogPart

PartsSpec == PartsInit /\ [][PartsNext]_partsVars
=============================================================================
