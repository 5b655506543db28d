------------------------------ MODULE Chunking ------------------------------
(***************************************************************************)
(* chunk_pages and _split_text of utils/chunking.py: the text of a         *)
(* document's pages is cut into overlapping chunks, one turn of the loop   *)
(* at a time.  A character is one of Chars; what matters is whether it is  *)
(* a space, where a chunk may end, another blank, which strip() takes away *)
(* too, or anything else.  Positions count from 0, as in the code:         *)
(* text[a:b] is SubSeq(text, a + 1, b).                                    *)
(***************************************************************************)
EXTENDS Integers, Sequences

CONSTANTS
    Chars,      \* the characters of a text
    Space,      \* " "
    Blanks,     \* what strip() removes: the space, line ends, tabs
    Size,       \* DEFAULT_CHUNK_SIZE
    Overlap     \* DEFAULT_OVERLAP

ASSUME ChunkingAssumption ==
    /\ Blanks \subseteq Chars /\ Space \in Blanks
    /\ Size \in Nat \ {0} /\ Overlap \in Nat

Texts == Seq(Chars)

VARIABLES
    pages,      \* the texts chunk_pages was given, page 1 first
    at,         \* the page being cut; 0 before the first
    text,       \* its text, stripped
    start,      \* where the next chunk begins; Len(text) when the page is done
    pieces      \* chunks, the result: [index, page, from, to] stands for text[from:to].strip()

cutVars == <<pages, at, text, start, pieces>>

Least(a, b) == IF a <= b THEN a ELSE b
Greatest(a, b) == IF a >= b THEN a ELSE b

(* text.strip() *)
Strip(t) ==
    LET Seen == {i \in 1..Len(t) : t[i] \notin Blanks} IN
    IF Seen = {} THEN <<>>
    ELSE LET first == CHOOSE i \in Seen : \A j \in Seen : i <= j
             last == CHOOSE i \in Seen : \A j \in Seen : j <= i
         IN SubSeq(t, first, last)

(* end = min(start + size, n), moved back to the last space after start so that no word
   is cut. *)
End(t, s) ==
    LET e == Least(s + Size, Len(t))
        Spaces == {k \in s + 1..e - 1 : t[k + 1] = Space}
    IN IF e < Len(t) /\ Spaces # {}
       THEN CHOOSE k \in Spaces : \A j \in Spaces : j <= k
       ELSE e

(* Mistake: the overlap alone decides, and a short chunk is cut again and again. *)
AfterOverlap(t, s, e) == IF e >= Len(t) THEN Len(t) ELSE Greatest(e - Overlap, 0)

(* The start of the next chunk, or the end of the text when the loop breaks. *)
After(t, s, e) == IF e >= Len(t) THEN Len(t) ELSE Greatest(e - Overlap, s + 1)

(* chunks.append(text[start:end].strip()), unless nothing is left of it. *)
Keep(t, s, e) ==
    IF \E i \in s + 1..e : t[i] \notin Blanks
    THEN Append(pieces, [index |-> Len(pieces), page |-> at, from |-> s, to |-> e])
    ELSE pieces

CutInit == pages = <<>> /\ at = 0 /\ text = <<>> /\ start = 0 /\ pieces = <<>>

Cutting == start < Len(text) \/ at < Len(pages)

(* chunk_pages is called with the text of ps. *)
Begin(ps) ==
    /\ ~Cutting
    /\ pages' = ps
    /\ at' = 0 /\ text' = <<>> /\ start' = 0
    /\ pieces' = <<>>

(* The next page: strip its text and start at its beginning. *)
TurnPage ==
    /\ start >= Len(text)
    /\ at < Len(pages)
    /\ at' = at + 1
    /\ text' = Strip(pages[at + 1])
    /\ start' = 0
    /\ UNCHANGED <<pages, pieces>>

(* One turn of the while loop of _split_text. *)
Cut ==
    /\ start < Len(text)
    /\ LET e == End(text, start) IN
         /\ pieces' = Keep(text, start, e)
         /\ start' = After(text, start, e)
    /\ UNCHANGED <<pages, at, text>>

CutNext == (\E ps \in Seq(Texts) : Begin(ps)) \/ TurnPage \/ Cut

CutSpec == CutInit /\ [][CutNext]_cutVars

-----------------------------------------------------------------------------
(* The state is what the code's variables can hold. *)
CutTypeOK ==
    /\ pages \in Seq(Texts)
    /\ at \in 0..Len(pages)
    /\ text \in Texts
    /\ start \in 0..Len(text)
    /\ pieces \in Seq([index : Nat, page : Nat, from : Nat, to : Nat])

(* How far page p has been cut. *)
CutOf(p) == IF p = at THEN start ELSE IF p < at THEN Len(Strip(pages[p])) ELSE 0

(* Every character of a page that is not blank is in a chunk of that page as soon as the
   loop has passed it: the end moved back to a space, the break at the end of the text
   and the chunks dropped as empty lose nothing the index should find. *)
NothingLost ==
    \A p \in 1..Len(pages) : \A i \in 1..CutOf(p) :
        Strip(pages[p])[i] \notin Blanks =>
            \E k \in 1..Len(pieces) :
                pieces[k].page = p /\ pieces[k].from < i /\ i <= pieces[k].to

(* Chunks are numbered from 0 in the order of the text, none is longer than Size, and each
   chunk of a page begins after the one before it and at most Overlap characters before
   that one's end: however early a space ends a chunk, the loop gets on, and no character
   is in more than Overlap + 1 chunks. *)
LittleRepeated ==
    \A k \in 1..Len(pieces) :
        /\ pieces[k].index = k - 1
        /\ pieces[k].from < pieces[k].to /\ pieces[k].to <= pieces[k].from + Size
        /\ \A j \in 1..k - 1 :
             /\ pieces[j].page <= pieces[k].page
             /\ pieces[j].page = pieces[k].page =>
                  /\ pieces[j].from < pieces[k].from
                  /\ pieces[j].to - Overlap <= pieces[k].from

(* A document can be searched for all of its text, and the index stays in proportion to it. *)
ChunksCover == NothingLost /\ LittleRepeated
=============================================================================
