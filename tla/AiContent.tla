----------------------------- MODULE AiContent -----------------------------
(***************************************************************************)
(* What an AI job says, from the request to the exported file: the prompt  *)
(* (_build_prompt of services/ai_features.py), the JSON read out of the    *)
(* model's answer (ai/json_output.py), the format-independent document     *)
(* (exports/builder.py) and what each renderer shows of it                 *)
(* (exports/renderers.py).  When a job runs is the matter of AiJobs, what  *)
(* becomes of the file that of Workspace.                                  *)
(*                                                                         *)
(* A text is a sequence of atoms: words, and the characters that mean      *)
(* something to a format: "|", "nl" (a line end), "gap" (an empty line)    *)
(* and "ctl" (a control character).  A JSON value is a record tagged with  *)
(* is: [is |-> "text", text], [is |-> "list", items], [is |-> "dict",      *)
(* fields] or [is |-> "null"].                                             *)
(***************************************************************************)
EXTENDS Integers, Sequences, FiniteSets

CONSTANTS
    Budget,     \* settings.AI_TASK_CONTEXT_CHARS
    Documents,  \* what the documents can hold: the lengths of their blocks
    Atoms,      \* the atoms and keys that can occur in an answer
    Values,     \* the JSON values that can occur in an answer
    Answers     \* Answers[type]: what a model may say to a prompt of that type

VARIABLES
    job,        \* [type, params] of the AIJob
    prompt,     \* what the model is asked
    answer,     \* what it says
    result,     \* AIJob.result, a dict
    sheet,      \* ExportDocument.sections
    output      \* the file: its format, and its blocks or that rendering failed

contentVars == <<job, prompt, answer, result, sheet, output>>

Text(t) == [is |-> "text", text |-> t]
List(vs) == [is |-> "list", items |-> vs]
Dict(f) == [is |-> "dict", fields |-> f]
Null == [is |-> "null"]
Unreadable == [is |-> "unreadable"]
None == [is |-> "none"]

Types == {"summary", "keypoints", "quiz", "translate", "extract", "compare"}

IsJson(v) ==
    \/ v = Null
    \/ v.is = "text" /\ v = Text(v.text) /\ v.text \in Seq(Atoms)
    \/ v.is = "list" /\ v = List(v.items) /\ v.items \in Seq(Values)
    \/ /\ v.is = "dict" /\ v = Dict(v.fields) /\ IsFiniteSet(DOMAIN v.fields)
       /\ \A k \in DOMAIN v.fields : k \in Atoms /\ v.fields[k] \in Values

ASSUME ContentAssumption ==
    /\ Budget \in Nat /\ Documents \subseteq Seq(Nat)
    /\ \A v \in Values : IsJson(v)
    /\ \A t \in Types : \A raw \in Answers[t] :
          /\ \A i \in 1..4 : raw.reads[i] \in Values \cup {Unreadable}
          /\ raw.text \in Seq(Atoms)

Sq == INSTANCE SequencesExt

(* The items of s at the places in I, in their order. *)
Kept(s, I) == Sq!FlattenSeq([i \in 1..Len(s) |-> IF i \in I THEN <<s[i]>> ELSE <<>>])

NonBlank(t) == \E i \in 1..Len(t) : t[i] \notin {"nl", "gap"}
Words(t) == {t[i] : i \in 1..Len(t)} \ {"nl", "gap", "|", "ctl"}
Has(t, atom) == \E i \in 1..Len(t) : t[i] = atom

(* str() of a value: a text is itself, anything else is spelled somehow. *)
Str(v) == IF v.is = "text" THEN v.text ELSE <<"spelled">>

(* d.get(key, default) *)
Get(d, k, default) == IF k \in DOMAIN d.fields THEN d.fields[k] ELSE default

Map(Op(_), s) == [i \in 1..Len(s) |-> Op(s[i])]

-----------------------------------------------------------------------------
(* The request and the prompt. *)

(* JSON_SCHEMAS: the keys an answer is expected to have, with their defaults. *)
JsonSchemas ==
    [t \in {"keypoints", "quiz", "extract", "compare"} |->
        CASE t = "keypoints" -> [k \in {"dates", "names", "numbers", "decisions"} |-> List(<<>>)]
          [] t = "quiz" -> [k \in {"questions"} |-> List(<<>>)]
          [] t = "extract" -> [k \in {"columns", "records"} |-> List(<<>>)]
          [] t = "compare" -> [k \in {"summary", "only_in_a", "only_in_b", "changed"} |->
                                  IF k = "summary" THEN Text(<<>>) ELSE List(<<>>)]]

(* The params each endpoint of ai_tools.py hands to create_job. *)
ParamsOf(t, d, other) ==
    CASE t = "summary" -> [preset |-> "genel", level |-> "short", document |-> d]
      [] t = "quiz" -> [preset |-> "genel", count |-> 1, document |-> d]
      [] t = "translate" -> [preset |-> "genel", target |-> "en", document |-> d]
      [] t = "extract" -> [preset |-> "genel", hint |-> "none", document |-> d]
      [] t = "compare" -> [preset |-> "genel", other |-> other, document |-> d]
      [] t = "keypoints" -> [preset |-> "genel", document |-> d]

(* used of _document_context: the length of the first n blocks. *)
Used(lens) == LET used[n \in 0..Len(lens)] == IF n = 0 THEN 0 ELSE used[n - 1] + lens[n] IN used

(* _document_context: the blocks of a document, in order, as long as they fit. *)
DocumentContext(lens, limit) ==
    LET budget == IF limit = 0 THEN Budget ELSE limit
        Fits(n) == Used(lens)[n] <= budget
        n == CHOOSE k \in 0..Len(lens) :
                /\ \A j \in 1..k : Fits(j)
                /\ k < Len(lens) => ~Fits(k + 1)
    IN [i \in 1..n |-> i]

(* _build_prompt: the task, the output it asks for, and the context of its documents. *)
BuildPrompt(j) ==
    [task |-> j.type,
     format |-> IF j.type \in {"keypoints", "quiz", "extract", "compare"} THEN "json" ELSE "text",
     context |-> IF j.type = "compare"
                 THEN <<DocumentContext(j.params.document, Budget \div 2),
                        DocumentContext(j.params.other, Budget \div 2)>>
                 ELSE <<DocumentContext(j.params.document, Budget)>>]

-----------------------------------------------------------------------------
(* The answer.  raw.reads: what json.loads makes of the fenced block, of the whole text, of
   what is between the outer braces and between the outer brackets; raw.text: the answer. *)

(* parse_json: the first candidate that can be read. *)
ParseJson(raw) ==
    LET Readable == {i \in 1..4 : raw.reads[i].is # "unreadable"} IN
    IF Readable = {} THEN None
    ELSE raw.reads[CHOOSE i \in Readable : \A j \in Readable : i <= j]

(* Mistake: a null in the answer stays a null. *)
ParseObjectKeepingNulls(raw, keys) ==
    LET parsed == ParseJson(raw) IN
    IF parsed.is = "dict" THEN Dict([k \in DOMAIN keys |-> Get(parsed, k, keys[k])])
    ELSE Dict([k \in DOMAIN keys \cup {"raw"} |-> IF k = "raw" THEN Text(raw.text) ELSE keys[k]])

(* parse_json_object: exactly the keys asked for; what is no object is kept as raw. *)
ParseJsonObject(raw, keys) ==
    LET parsed == ParseJson(raw) IN
    IF parsed.is = "dict"
    THEN Dict([k \in DOMAIN keys |->
                  IF Get(parsed, k, keys[k]) = Null THEN keys[k] ELSE Get(parsed, k, keys[k])])
    ELSE Dict([k \in DOMAIN keys \cup {"raw"} |-> IF k = "raw" THEN Text(raw.text) ELSE keys[k]])

(* _shape_result *)
ShapeResult(t, raw) ==
    IF t \in DOMAIN JsonSchemas THEN ParseJsonObject(raw, JsonSchemas[t])
    ELSE Dict([k \in {"text"} |-> Text(raw.text)])

-----------------------------------------------------------------------------
(* The document an export is rendered from. *)

NoTable == [columns |-> <<>>, rows |-> <<>>]
Section(h, ps, bs, tb) == [heading |-> h, paragraphs |-> ps, bullets |-> bs, table |-> tb]

NonBlanks(ts) == Kept(ts, {i \in 1..Len(ts) : NonBlank(ts[i])})

AsList(v) == IF v.is = "list" THEN NonBlanks(Map(Str, v.items)) ELSE <<>>

(* split("\n\n"), without the blank ones *)
Paragraphs(t) ==
    LET Ends == {i \in 1..Len(t) + 1 : i = Len(t) + 1 \/ t[i] = "gap"}
        Begin(i) == CHOOSE k \in 1..i : /\ k = 1 \/ k - 1 \in Ends
                                        /\ \A j \in k..i - 1 : j \notin Ends
    IN NonBlanks(Kept([i \in 1..Len(t) + 1 |-> SubSeq(t, Begin(i), i - 1)], Ends))

BulletSection(h, v) ==
    Section(<<h>>, <<>>, IF AsList(v) = <<>> THEN <<(<<"dash">>)>> ELSE AsList(v), NoTable)

KeypointsSections(r) ==
    [i \in 1..4 |-> LET k == <<"dates", "names", "numbers", "decisions">>[i]
                    IN BulletSection(k, Get(r, k, Null))]

CompareSections(r) ==
    <<Section(<<"summary">>, Paragraphs(Str(Get(r, "summary", Text(<<>>)))), <<>>, NoTable)>>
    \o [i \in 1..3 |-> LET k == <<"only_in_a", "only_in_b", "changed">>[i]
                       IN BulletSection(k, Get(r, k, Null))]

Bars(ts) == Sq!FlattenSeq([i \in 1..2 * Len(ts) - 1 |-> IF i % 2 = 1 THEN ts[(i + 1) \div 2] ELSE <<"|">>])

(* A question is a row of the table of the first section and a section of its own. *)
QuizSections(r) ==
    LET qs == Get(r, "questions", Null)
        items == IF qs.is # "list" THEN <<>>
                 ELSE Map(LAMBDA q : IF q.is = "dict" THEN q ELSE Dict(<<>>), qs.items)
        Field(q, k) == Str(Get(q, k, Text(<<>>)))
        Options(q) == AsList(Get(q, "options", Null))
        QRow(q) == <<Field(q, "type"), Field(q, "question"), Bars(Options(q)), Field(q, "answer")>>
    IN IF items = <<>> THEN <<Section(<<"Sorular">>, <<(<<"empty">>)>>, <<>>, NoTable)>>
       ELSE <<Section(<<"Sorular">>, <<>>, <<>>,
                      [columns |-> Map(LAMBDA c : <<c>>, <<"Tip", "Soru", "Secenekler", "Cevap">>),
                       rows |-> Map(QRow, items)])>>
            \o Map(LAMBDA q : Section(Field(q, "question"),
                                      IF Field(q, "answer") = <<>> THEN <<>> ELSE <<Field(q, "answer")>>,
                                      Options(q), NoTable),
                   items)

KeysOf(q) == Sq!SetToSeq(DOMAIN q.fields)

(* Mistake: without columns, those of the first record are taken. *)
ColumnsOfFirst(cols, records) ==
    IF cols # <<>> \/ records = <<>> THEN cols ELSE KeysOf(records[1])

(* The columns the answer names, else the keys of all records in the order they come. *)
Columns(cols, records) ==
    IF cols # <<>> THEN cols
    ELSE Sq!FlattenSeq([i \in 1..Len(records) |->
            LET ks == KeysOf(records[i]) IN
            Kept(ks, {j \in 1..Len(ks) :
                        \A e \in 1..i - 1 : ks[j] \notin DOMAIN records[e].fields})])

ExtractSections(r) ==
    LET listed == Get(r, "records", Null)
        records == IF listed.is # "list" THEN <<>>
                   ELSE Kept(listed.items, {i \in 1..Len(listed.items) : listed.items[i].is = "dict"})
        cols == Columns(Map(LAMBDA t : t[1], AsList(Get(r, "columns", Null))), records)
    IN IF cols = <<>> THEN <<Section(<<"Kayitlar">>, <<(<<"empty">>)>>, <<>>, NoTable)>>
       ELSE <<Section(<<"Kayitlar">>, <<>>, <<>>,
                      [columns |-> Map(LAMBDA k : <<k>>, cols),
                       rows |-> Map(LAMBDA q : Map(LAMBDA k : Str(Get(q, k, Text(<<>>))), cols),
                                    records)])>>

(* build_export_document, without its title *)
BuildSections(t, r) ==
    CASE t = "keypoints" -> KeypointsSections(r)
      [] t = "quiz" -> QuizSections(r)
      [] t = "extract" -> ExtractSections(r)
      [] t = "compare" -> CompareSections(r)
      [] OTHER -> LET body == Paragraphs(Str(Get(r, "text", Text(<<>>))))
                  IN <<Section(<<>>, IF body = <<>> THEN <<(<<"empty">>)>> ELSE body, <<>>, NoTable)>>

-----------------------------------------------------------------------------
(* The renderers.  A block is the line or table row of a file: [kind, texts]. *)

Block(kind, ts) == [kind |-> kind, texts |-> ts]

Escape(t) == Map(LAMBDA a : IF a = "|" THEN "escaped" ELSE a, t)
Clean(t) == Kept(t, {i \in 1..Len(t) : t[i] # "ctl"})

(* What comes before the table of a section. *)
Top(s, Show(_)) ==
    (IF s.heading = <<>> THEN <<>> ELSE <<Block("heading", <<Show(s.heading)>>)>>)
    \o Map(LAMBDA p : Block("paragraph", <<Show(p)>>), s.paragraphs)
    \o Map(LAMBDA b : Block("bullet", <<Show(b)>>), s.bullets)

TableOf(s, Show(_), ShowCell(_)) ==
    IF s.table = NoTable THEN <<>>
    ELSE <<Block("columns", Map(Show, s.table.columns))>>
         \o Map(LAMBDA row : Block("row", Map(ShowCell, row)), s.table.rows)

Same(t) == t

RenderMarkdown(s) == Top(s, Same) \o TableOf(s, Same, Escape)

RenderDocx(s) == Top(s, Same) \o TableOf(s, Same, Same)

RenderXlsx(s) == Top(s, Clean) \o TableOf(s, Clean, Clean)

(* A table without rows is left out. *)
RenderPdf(s) == Top(s, Same) \o IF s.table.rows = <<>> THEN <<>> ELSE TableOf(s, Same, Same)

Formats == {"md", "docx", "xlsx", "pdf"}

TextsOf(s) ==
    LET Lists == {<<s.heading>>, s.paragraphs, s.bullets, s.table.columns}
                 \cup {s.table.rows[k] : k \in 1..Len(s.table.rows)}
    IN UNION {{ts[k] : k \in 1..Len(ts)} : ts \in Lists}

(* python-docx writes XML, which has no control characters, and its tables are filled with
   zip(strict=True). *)
DocxRefuses(ss) ==
    \E i \in 1..Len(ss) :
        \/ \E k \in 1..Len(ss[i].table.rows) :
              Len(ss[i].table.rows[k]) # Len(ss[i].table.columns)
        \/ \E t \in TextsOf(ss[i]) : Has(t, "ctl")

(* reportlab breaks a table between its rows only: one taller than a page is a LayoutError.
   How tall they are is left open. *)
PdfCanRefuse(ss) == \E i \in 1..Len(ss) : ss[i].table.rows # <<>>

Render(ss, fmt) ==
    CASE fmt = "md" -> Sq!FlattenSeq(Map(RenderMarkdown, ss))
      [] fmt = "docx" -> Sq!FlattenSeq(Map(RenderDocx, ss))
      [] fmt = "xlsx" -> Sq!FlattenSeq(Map(RenderXlsx, ss))
      [] fmt = "pdf" -> Sq!FlattenSeq(Map(RenderPdf, ss))

-----------------------------------------------------------------------------
NoJob == [type |-> "none", params |-> <<>>]
NoPrompt == [task |-> "none", format |-> "none", context |-> <<>>]
NoAnswer == [reads |-> <<>>, text |-> <<>>]
NoOutput == [format |-> "none", ok |-> FALSE, blocks |-> <<>>]

ContentInit ==
    /\ job = NoJob /\ prompt = NoPrompt /\ answer = NoAnswer /\ result = None
    /\ sheet = <<>> /\ output = NoOutput

(* An endpoint of ai_tools.py creates a job. *)
Request(t, d, other) ==
    /\ job = NoJob
    /\ job' = [type |-> t, params |-> ParamsOf(t, d, other)]
    /\ UNCHANGED <<prompt, answer, result, sheet, output>>

(* run_job asks the model ... *)
Ask ==
    /\ job # NoJob /\ prompt = NoPrompt
    /\ prompt' = BuildPrompt(job)
    /\ UNCHANGED <<job, answer, result, sheet, output>>

(* ... and shapes its answer. *)
Answer(raw) ==
    /\ prompt # NoPrompt /\ result = None
    /\ answer' = raw /\ result' = ShapeResult(job.type, raw)
    /\ UNCHANGED <<job, prompt, sheet, output>>

(* run_export *)
Build ==
    /\ result # None /\ sheet = <<>>
    /\ sheet' = BuildSections(job.type, result)
    /\ UNCHANGED <<job, prompt, answer, result, output>>

RenderTo(fmt) ==
    /\ sheet # <<>> /\ output = NoOutput
    /\ \/ /\ fmt = "docx" => ~DocxRefuses(sheet)
          /\ output' = [format |-> fmt, ok |-> TRUE, blocks |-> Render(sheet, fmt)]
       \/ /\ (fmt = "docx" /\ DocxRefuses(sheet)) \/ (fmt = "pdf" /\ PdfCanRefuse(sheet))
          /\ output' = [format |-> fmt, ok |-> FALSE, blocks |-> <<>>]
    /\ UNCHANGED <<job, prompt, answer, result, sheet>>

ContentNext ==
    \/ \E t \in Types, d, other \in Documents : Request(t, d, other)
    \/ Ask
    \/ job # NoJob /\ \E raw \in Answers[job.type] : Answer(raw)
    \/ Build
    \/ \E fmt \in Formats : RenderTo(fmt)

ContentSpec == ContentInit /\ [][ContentNext]_contentVars

-----------------------------------------------------------------------------
(* What the contexts of the prompt may each have of the budget: a comparison has two.  The
   half of one is 0, which _document_context takes for no limit. *)
ContextShare == IF job.type = "compare" /\ Budget > 1 THEN Budget \div 2 ELSE Budget

(* Each context is the beginning of its document, without a hole; its blocks fit the share it
   has of the budget, and the next would not.  What is parsed has every key of the schema,
   none null, and loses nothing: it has what the object in the answer gives for these keys,
   or else, when no object is read, the whole answer as raw. *)
AnswerIsUsable ==
    /\ prompt # NoPrompt =>
         \A i \in 1..Len(prompt.context) :
            LET lens == IF i = 1 THEN job.params.document ELSE job.params.other
                c == prompt.context[i]
            IN /\ \A k \in 1..Len(c) : c[k] = k
               /\ Used(lens)[Len(c)] <= ContextShare
               /\ Len(c) < Len(lens) => Used(lens)[Len(c) + 1] > ContextShare
    /\ result # None /\ job.type \in DOMAIN JsonSchemas =>
         LET keys == DOMAIN JsonSchemas[job.type]
             read == ParseJson(answer)
         IN /\ keys \subseteq DOMAIN result.fields
            /\ \A k \in DOMAIN result.fields : result.fields[k] # Null
            /\ read.is = "dict" => \A k \in keys \cap DOMAIN read.fields :
                                     read.fields[k] \in {result.fields[k], Null}
            /\ read.is # "dict" => "raw" \in DOMAIN result.fields
                                   /\ result.fields["raw"] = Text(answer.text)

Items(v) == IF v.is = "list" THEN {v.items[i] : i \in 1..Len(v.items)} ELSE {}

TextsIn(vs) == {v.text : v \in {w \in vs : w.is = "text"}}

Dicts(v) == {w \in Items(v) : w.is = "dict"}

QuestionValues(q) ==
    {q[k] : k \in DOMAIN q \cap {"question", "answer"}}
    \cup UNION {Items(q[k]) : k \in DOMAIN q \cap {"options"}}

(* A record is asked for by its columns, or whole if none are named. *)
RecordValues(q, columns) ==
    {q[k] : k \in {c \in DOMAIN q :
                      \/ columns = List(<<>>)
                      \/ NonBlank(<<c>>) /\ Text(<<c>>) \in Items(columns)}}

(* The texts a result has where the prompt asked for them. *)
Said ==
    CASE job.type = "keypoints" \/ job.type = "compare" ->
            TextsIn({Get(result, "summary", Null)}
                    \cup UNION {Items(result.fields[k]) :
                                   k \in DOMAIN JsonSchemas[job.type] \ {"summary"}})
      [] job.type = "quiz" ->
            TextsIn(UNION {QuestionValues(v.fields) : v \in Dicts(result.fields["questions"])})
      [] job.type = "extract" ->
            TextsIn(UNION {RecordValues(v.fields, result.fields["columns"]) :
                              v \in Dicts(result.fields["records"])})
      [] OTHER -> {result.fields["text"].text}

Shown == UNION {UNION {Words(b.texts[i]) : i \in 1..Len(b.texts)} :
                b \in {output.blocks[i] : i \in 1..Len(output.blocks)}}

(* Whatever the format, the file shows every word of the result that stands where the prompt
   asked for it.  A bar in a cell does not end the cell of a Markdown row; one in the name of
   a column does, and so does a line end in either, which are not escaped.  Only two formats
   can fail: DOCX of a control character, PDF of a table. *)
ExportShowsResult ==
    output # NoOutput =>
        /\ output.ok => \A t \in Said : Words(t) \subseteq Shown
        /\ output.ok /\ output.format = "md" =>
             \A i \in 1..Len(output.blocks) : LET b == output.blocks[i] IN
                b.kind = "row" => \A k \in 1..Len(b.texts) : ~Has(b.texts[k], "|")
        /\ ~output.ok =>
             \/ /\ output.format = "docx"
                /\ \E i \in 1..Len(sheet) : \E t \in TextsOf(sheet[i]) : Has(t, "ctl")
             \/ output.format = "pdf" /\ \E i \in 1..Len(sheet) : sheet[i].table.rows # <<>>
=============================================================================
