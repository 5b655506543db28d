------------------------------- MODULE Intake -------------------------------
(***************************************************************************)
(* What happens to the content of one file: the checks an upload passes    *)
(* (utils/file_validator.py), the text that is taken out of it             *)
(* (utils/text_extractor.py) and the cutting into chunks (Chunking), as    *)
(* upload_document and process_document put them together.  What becomes   *)
(* of the row and the stored bytes is the matter of Documents.             *)
(*                                                                         *)
(* A file is a record: ext, what follows the last dot of its name; magic,  *)
(* the signature it begins with; folders, what its archive holds, or       *)
(* {"broken"}; utf8, whether it decodes; sound, whether the library for    *)
(* its format can read it; size.  Its body is a sequence of pages (sheets, *)
(* slides), a page one of lines, a line [place, cells]: where it stands,   *)
(* in the text (paragraphs, shapes with a text frame), in a table or aside *)
(* (headers, footers and text boxes of a DOCX; groups and charts of a      *)
(* PPTX; charts and drawings of an XLSX), and the texts of its cells, an   *)
(* empty one being <<>>.                                                   *)
(***************************************************************************)
EXTENDS Chunking, FiniteSets

CONSTANTS
    LineEnd, Bar,   \* the characters "\n" and "|"
    Nul,            \* the character 0, which PostgreSQL does not store in a text
    MaxBytes,       \* settings.MAX_UPLOAD_SIZE_MB
    Ocr,            \* settings.ENABLE_OCR, with the libraries it needs
    Files, Bodies   \* the files that are uploaded, and what they can hold

ASSUME IntakeAssumption ==
    /\ LineEnd \in Blanks /\ {Bar, Nul} \subseteq Chars \ Blanks /\ Nul # Bar
    /\ Bodies \subseteq Seq(Seq([place : {"text", "table", "aside"}, cells : Seq(Texts)]))

VARIABLES
    stage,      \* "none", "refused", "stored", "cutting", "failed" or "ready"
    file, body, \* what was uploaded
    type,       \* Document.file_type
    error       \* Document.error: "none", or what kept it from being ready: "file",
                \* "embedding" or "text"

intakeVars == <<stage, file, body, type, error, cutVars>>

NoFile == [ext |-> "", magic |-> "none", folders |-> {}, utf8 |-> FALSE, sound |-> FALSE,
           size |-> 0]

-----------------------------------------------------------------------------
(* Uploading. *)

ExtMap ==
    [e \in {"pdf", "docx", "xlsx", "pptx", "txt", "md", "markdown", "png", "jpg", "jpeg"} |->
        IF e \in {"png", "jpg", "jpeg"} THEN "image"
        ELSE IF e = "markdown" THEN "md"
        ELSE e]

(* _ooxml_kind: the first of the three folders the archive has. *)
OoxmlKind(f) ==
    CASE "word" \in f.folders -> "docx"
      [] "word" \notin f.folders /\ "xl" \in f.folders -> "xlsx"
      [] f.folders \cap {"word", "xl"} = {} /\ "ppt" \in f.folders -> "pptx"
      [] OTHER -> "invalid"

(* The type the content shows; a file without signature is text, if its name says so and
   it decodes. *)
Detected(f) ==
    CASE f.magic = "pdf" -> "pdf"
      [] f.magic \in {"png", "jpeg"} -> "image"
      [] f.magic = "zip" -> OoxmlKind(f)
      [] f.magic = "none" ->
            IF ExtMap[f.ext] \in {"txt", "md"} /\ f.utf8 THEN ExtMap[f.ext] ELSE "invalid"

(* detect_file_type: the name is of a known type, and the content is of that type. *)
DetectFileType(f) == f.ext \in DOMAIN ExtMap /\ Detected(f) = ExtMap[f.ext]

ValidateSize(f) == 0 < f.size /\ f.size <= MaxBytes

-----------------------------------------------------------------------------
(* Taking the text out. *)

Seqs == INSTANCE SequencesExt

Join(sep, ts) ==
    Seqs!FlattenSeq([i \in 1..2 * Len(ts) - 1 |-> IF i % 2 = 1 THEN ts[(i + 1) \div 2] ELSE sep])

(* [t for t in ts if t] *)
Filled(ts) == Seqs!FlattenSeq([i \in 1..Len(ts) |-> IF ts[i] = <<>> THEN <<>> ELSE <<ts[i]>>])

Lines(ts) == Join(<<LineEnd>>, Filled(ts))

(* p.text and shape.text, of the paragraphs of a document and the shapes of a slide: what
   stands in a table, a header, a text box, a group or a chart is not among them. *)
Written(line) == IF line.place = "text" THEN Seqs!FlattenSeq(line.cells) ELSE <<>>

(* Mistake: a row with an empty cell is skipped. *)
RowUnlessGaps(line) ==
    IF line.place = "aside" \/ \E c \in 1..Len(line.cells) : line.cells[c] = <<>> THEN <<>>
    ELSE Join(<<Space, Bar, Space>>, line.cells)

(* " | ".join of the cells that hold something; a chart or a text box is in no cell. *)
Row(line) == IF line.place = "aside" THEN <<>> ELSE Join(<<Space, Bar, Space>>, Filled(line.cells))

Everything(b) == Seqs!FlattenSeq([p \in 1..Len(b) |-> [l \in 1..Len(b[p]) |-> Seqs!FlattenSeq(b[p][l].cells)]])

PerPage(b, Text(_)) == [p \in 1..Len(b) |-> Lines([l \in 1..Len(b[p]) |-> Text(b[p][l])])]

OrOneEmpty(ps) == IF ps = <<>> THEN <<(<<>>)>> ELSE ps

(* pypdf gives the text a page shows, wherever it stands. *)
ExtractPdf(b) == PerPage(b, LAMBDA line : Seqs!FlattenSeq(line.cells))

(* The paragraphs of a DOCX are one page. *)
ExtractDocx(b) ==
    <<Lines(Seqs!FlattenSeq([p \in 1..Len(b) |-> [l \in 1..Len(b[p]) |-> Written(b[p][l])]]))>>

ExtractXlsx(b) == OrOneEmpty(PerPage(b, Row))

ExtractPptx(b) == OrOneEmpty(PerPage(b, Written))

ExtractText(b) == <<Lines(Everything(b))>>

(* OCR reads one picture. *)
ExtractImage(b) == <<Lines(Everything(b))>>

(* extract_pages, for a file the library can read. *)
ExtractPages(t, b) ==
    CASE t = "pdf" -> ExtractPdf(b)
      [] t = "docx" -> ExtractDocx(b)
      [] t = "xlsx" -> ExtractXlsx(b)
      [] t = "pptx" -> ExtractPptx(b)
      [] t \in {"txt", "md"} -> ExtractText(b)
      [] t = "image" -> ExtractImage(b)

(* Whether extract_pages returns at all: text was decoded when it was accepted. *)
Extracts(t, f) == t \in {"txt", "md"} \/ (f.sound /\ (t = "image" => Ocr))

-----------------------------------------------------------------------------
IntakeInit ==
    /\ stage = "none" /\ file = NoFile /\ body = <<>> /\ type = "none" /\ error = "none"
    /\ CutInit

(* upload_document as far as it concerns the content. *)
Accept(f, b) ==
    /\ stage = "none"
    /\ ValidateSize(f) /\ DetectFileType(f)
    /\ stage' = "stored" /\ file' = f /\ body' = b /\ type' = ExtMap[f.ext]
    /\ UNCHANGED <<error, cutVars>>

Refuse(f) ==
    /\ stage = "none"
    /\ ~(ValidateSize(f) /\ DetectFileType(f))
    /\ stage' = "refused" /\ file' = f
    /\ UNCHANGED <<body, type, error, cutVars>>

(* process_document: the text is taken out and cut, or the document has failed. *)
Extract ==
    /\ stage = "stored" /\ Extracts(type, file)
    /\ Begin(ExtractPages(type, body))
    /\ stage' = "cutting"
    /\ UNCHANGED <<file, body, type, error>>

(* The except block of process_document. *)
Fail(why) ==
    /\ stage' = "failed" /\ error' = why
    /\ UNCHANGED <<file, body, type, cutVars>>

CannotExtract == stage = "stored" /\ ~Extracts(type, file) /\ Fail("file")

CutStep == (TurnPage \/ Cut) /\ UNCHANGED <<stage, file, body, type, error>>

Occurs(t, s) == \E i \in 0..Len(s) - Len(t) : SubSeq(s, i + 1, i + Len(t)) = t

(* The chunks hold all characters but blanks (ChunksCover), so also each of these. *)
Storable == \A p \in 1..Len(pages) : ~Occurs(<<Nul>>, pages[p])

(* The model of the embeddings is not there, or does not answer. *)
CannotEmbed == stage = "cutting" /\ ~Cutting /\ Fail("embedding")

(* The database refuses a chunk; all of them are rolled back. *)
CannotStore == stage = "cutting" /\ ~Cutting /\ ~Storable /\ Fail("text")

Finish ==
    /\ stage = "cutting" /\ ~Cutting /\ Storable
    /\ stage' = "ready" /\ error' = "none"
    /\ UNCHANGED <<file, body, type, cutVars>>

IntakeNext ==
    \/ \E f \in Files, b \in Bodies : Accept(f, b)
    \/ \E f \in Files : Refuse(f)
    \/ Extract
    \/ CannotExtract
    \/ CutStep
    \/ CannotEmbed
    \/ CannotStore
    \/ Finish

IntakeSpec == IntakeInit /\ [][IntakeNext]_intakeVars

-----------------------------------------------------------------------------
(* The page a line of the file is cited with: only these formats have pages. *)
CitedPage(p) == IF type \in {"pdf", "xlsx", "pptx"} THEN p ELSE 1

(* Where the text of a file of type t is taken from. *)
PlacesRead(t) ==
    CASE t \in {"docx", "pptx"} -> {"text"}
      [] t = "xlsx" -> {"text", "table"}
      [] t \in {"pdf", "txt", "md", "image"} -> {"text", "table", "aside"}

(* What the checks let in can be worked with.  Where the embeddings are to be had,
   processing fails only for a file its library cannot read, a picture where OCR is off,
   or a text with a NUL in it; and when it does not fail, the text of every line is on the
   page it will be cited with, but for the lines of DOCX, PPTX and XLSX that stand where
   their extractors do not look. *)
AcceptedIsRead ==
    /\ stage = "failed" =>
         \/ error = "embedding"
         \/ error = "file" /\ (~file.sound \/ (type = "image" /\ ~Ocr))
         \/ /\ error = "text"
            /\ \E p \in 1..Len(body) : \E l \in 1..Len(body[p]) :
                 \E c \in 1..Len(body[p][l].cells) : Occurs(<<Nul>>, body[p][l].cells[c])
    /\ stage = "ready" =>
         \A p \in 1..Len(body) : \A l \in 1..Len(body[p]) :
            body[p][l].place \in PlacesRead(type) =>
            \A c \in 1..Len(body[p][l].cells) :
                Occurs(body[p][l].cells[c], pages[CitedPage(p)])
=============================================================================
